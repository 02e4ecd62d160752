----------------------- MODULE ReadThroughCacheProofs -----------------------
(***************************************************************************)
(* Proofs about ReadThroughCache, for any number of views, readers,        *)
(* writers, writes and faults.  The type invariant bounds what is stored   *)
(* and what is about to be stored by the writes MongoDB has seen; with it  *)
(* StaleHasACause is inductive.                                            *)
(***************************************************************************)
EXTENDS ReadThroughCache, TLAPS

USE CacheAssumption

Inv == TypeOK /\ StaleHasACause

-----------------------------------------------------------------------------
(* Types. *)

\* What Put and Drop make of the cache is of its type.
LEMMA DropType ==
  ASSUME TypeOK, NEW k \in View, Drop(k)
  PROVE  /\ entry' \in [View -> Entry \cup {NoEntry}]
         /\ \A j \in View : entry'[j] # NoEntry => entry'[j].ver <= db
         /\ spoiled' \subseteq View
BY DEF TypeOK, Drop

LEMMA PutType ==
  ASSUME TypeOK, NEW r \in Reader, reader[r].pc = "store", Put(r)
  PROVE  /\ entry' \in [View -> Entry \cup {NoEntry}]
         /\ \A j \in View : entry'[j] # NoEntry => entry'[j].ver <= db
         /\ spoiled' \subseteq View
<1> DEFINE k == reader[r].view  v == reader[r].ver
<1>1. k \in View /\ v \in 0..db /\ db \in Nat
  BY DEF TypeOK, View
<1>2. Stored(v) \in Entry /\ Stored(v).ver = v
  BY <1>1 DEF Stored, Entry
<1>3. entry' = [entry EXCEPT ![k] = Stored(v)] /\ spoiled' \subseteq spoiled \cup {k}
  BY DEF Put
<1> QED BY <1>1, <1>2, <1>3 DEF TypeOK

\* NextPrefix leaves the writers of their type.
LEMMA NextPrefixType ==
  ASSUME TypeOK, NEW w \in Writer, writer[w].pc # "idle", NextPrefix(w)
  PROVE  /\ writer' \in [Writer -> [pc : {"idle", "scan", "del"}, view : 0..NView, found : BOOLEAN]]
         /\ \A x \in Writer : writer'[x].pc = "idle" <=> writer'[x].view = 0
BY DEF TypeOK, NextPrefix, NoWrite, View

LEMMA InitType == Init => TypeOK
BY DEF Init, TypeOK, View, NoRead, NoWrite

LEMMA MissType == ASSUME TypeOK, NEW r \in Reader, NEW k \in View, Miss(r, k)  PROVE TypeOK'
<1>1. healthy' \in BOOLEAN
  BY DEF TypeOK, Miss, Answers, Fails, TimesOut
<1>2. UNCHANGED <<db, entry, up, conn, writer, spoiled>>
      /\ reader' = [reader EXCEPT ![r] = [pc |-> "load", view |-> k, ver |-> 0]]
  BY DEF Miss
<1>3. k \in 1..NView /\ db \in Nat
  BY DEF View, TypeOK
<1> QED BY <1>1, <1>2, <1>3 DEF TypeOK, View

LEMMA LoadType == ASSUME TypeOK, NEW r \in Reader, Load(r)  PROVE TypeOK'
<1> DEFINE R == [pc : {"idle", "load", "store"}, view : 0..NView, ver : 0..db]
<1>1. db \in 0..db
  BY DEF TypeOK
<1>2. reader \in [Reader -> R] /\ reader[r].pc = "load" /\ reader[r].view # 0
  BY DEF TypeOK, Load
<1>3. UNCHANGED <<db, entry, up, conn, healthy, writer, spoiled>>
      /\ reader' = [reader EXCEPT ![r].pc = "store", ![r].ver = db]
  BY DEF Load
<1>4. reader' \in [Reader -> R]
  BY <1>1, <1>2, <1>3
<1>5. \A x \in Reader : reader'[x].pc = "idle" <=> reader'[x].view = 0
  BY <1>2, <1>3 DEF TypeOK
<1> QED BY <1>3, <1>4, <1>5 DEF TypeOK

LEMMA StoreType == ASSUME TypeOK, NEW r \in Reader, Store(r)  PROVE TypeOK'
<1>1. healthy' \in BOOLEAN
  BY DEF TypeOK, Store, Answers, Fails, TimesOut
<1>2. /\ reader[r].pc = "store" /\ reader' = [reader EXCEPT ![r] = NoRead]
      /\ UNCHANGED <<db, up, conn, writer>>
      /\ UNCHANGED <<entry, spoiled>> \/ Put(r)
  BY DEF Store
<1>3. /\ entry' \in [View -> Entry \cup {NoEntry}]
      /\ \A j \in View : entry'[j] # NoEntry => entry'[j].ver <= db
      /\ spoiled' \subseteq View
  BY <1>2, PutType DEF TypeOK
<1>4. db \in Nat
  BY DEF TypeOK
<1> QED BY <1>1, <1>2, <1>3, <1>4 DEF TypeOK, NoRead

LEMMA WriteType ==
  ASSUME TypeOK, BareWrite \/ (\E w \in Writer : Write(w) \/ RequestFails(w))  PROVE TypeOK'
<1>1. db \in Nat /\ \A k \in View : entry[k] # NoEntry => entry[k].ver \in Nat
  BY DEF TypeOK, Entry
<1>2. CASE BareWrite
  BY <1>1, <1>2 DEF TypeOK, BareWrite, Entry
<1>3. ASSUME NEW w \in Writer, Write(w)  PROVE TypeOK'
  BY <1>1, <1>3 DEF TypeOK, Write, Entry
<1>4. ASSUME NEW w \in Writer, RequestFails(w)  PROVE TypeOK'
  BY <1>4 DEF TypeOK, RequestFails, Fault, NoWrite
<1> QED BY <1>2, <1>3, <1>4

LEMMA ScanType == ASSUME TypeOK, NEW w \in Writer, Scan(w)  PROVE TypeOK'
<1>1. healthy' \in BOOLEAN
  BY DEF TypeOK, Scan, Answers, Fails, TimesOut
<1>2. writer[w].pc = "scan" /\ writer[w].view \in View
  BY DEF TypeOK, Scan, View
<1>3. UNCHANGED <<db, entry, up, conn, reader>> /\ spoiled' \subseteq View
  BY <1>2 DEF TypeOK, Scan
<1>4. /\ writer' \in [Writer -> [pc : {"idle", "scan", "del"}, view : 0..NView, found : BOOLEAN]]
      /\ \A x \in Writer : writer'[x].pc = "idle" <=> writer'[x].view = 0
  <2>1. CASE NextPrefix(w)
    BY <1>2, <2>1, NextPrefixType
  <2>2. CASE writer' = [writer EXCEPT ![w].pc = "del",
                                      ![w].found = (entry[writer[w].view] # NoEntry)]
    BY <1>2, <2>2 DEF TypeOK, View
  <2> QED BY <2>1, <2>2 DEF Scan
<1> QED BY <1>1, <1>3, <1>4 DEF TypeOK

LEMMA DelType == ASSUME TypeOK, NEW w \in Writer, Del(w)  PROVE TypeOK'
<1>1. healthy' \in BOOLEAN
  BY DEF TypeOK, Del, Answers, Fails, TimesOut
<1>2. writer[w].pc = "del" /\ writer[w].view \in View /\ NextPrefix(w)
  BY DEF TypeOK, Del, View
<1>3. UNCHANGED <<db, up, conn, reader>>
      /\ \/ UNCHANGED <<entry, spoiled>>
         \/ UNCHANGED entry /\ spoiled' = spoiled \cup {writer[w].view}
         \/ Drop(writer[w].view)
  BY DEF Del
<1>4. /\ entry' \in [View -> Entry \cup {NoEntry}]
      /\ \A j \in View : entry'[j] # NoEntry => entry'[j].ver <= db
      /\ spoiled' \subseteq View
  BY <1>2, <1>3, DropType DEF TypeOK
<1>5. /\ writer' \in [Writer -> [pc : {"idle", "scan", "del"}, view : 0..NView, found : BOOLEAN]]
      /\ \A x \in Writer : writer'[x].pc = "idle" <=> writer'[x].view = 0
  BY <1>2, NextPrefixType
<1> QED BY <1>1, <1>3, <1>4, <1>5 DEF TypeOK

LEMMA RedisType ==
  ASSUME TypeOK,
         \/ \E k \in View : Expire(k)
         \/ GoDown \/ ComeBack \/ Disconnect \/ Reconnect \/ Probe \/ Crash
  PROVE  TypeOK'
<1>1. ASSUME NEW k \in View, Expire(k)  PROVE TypeOK'
  <2>1. Drop(k) /\ UNCHANGED <<db, up, conn, healthy, reader, writer>>
    BY <1>1 DEF Expire
  <2> QED BY <2>1, DropType DEF TypeOK
<1>2. CASE GoDown
  BY <1>2 DEF TypeOK, GoDown
<1>3. CASE ComeBack
  BY <1>3 DEF TypeOK, ComeBack
<1>4. CASE Disconnect \/ Reconnect \/ Probe
  BY <1>4 DEF TypeOK, Disconnect, Reconnect, Probe
<1>5. CASE Crash
  <2>1. db \in Nat
    BY DEF TypeOK
  <2>2. /\ UNCHANGED <<db, entry, up>> /\ spoiled' \subseteq View
        /\ reader' = [r \in Reader |-> NoRead] /\ writer' = [w \in Writer |-> NoWrite]
        /\ healthy' = up /\ conn' \in {"ready", "ended"}
    BY <1>5 DEF Crash, TypeOK
  <2> QED BY <2>1, <2>2 DEF TypeOK, NoRead, NoWrite
<1> QED BY <1>1, <1>2, <1>3, <1>4, <1>5

LEMMA NextType == TypeOK /\ [Next]_vars => TypeOK'
<1> SUFFICES ASSUME TypeOK, [Next]_vars PROVE TypeOK'
  OBVIOUS
<1>1. CASE UNCHANGED vars
  BY <1>1 DEF TypeOK, vars
<1>2. ASSUME NEW r \in Reader, NEW k \in View, Hit(r, k)  PROVE TypeOK'
  BY <1>2 DEF Hit, TypeOK, vars
<1> QED BY <1>1, <1>2, MissType, LoadType, StoreType, WriteType, ScanType, DelType, RedisType
        DEF Next, ReaderStep, WriterStep

\* TypeOK: the variables keep their types, and neither a stored answer nor one about to be
\* stored knows of more writes than MongoDB has seen.
THEOREM TypeCorrect == Spec => []TypeOK
BY InitType, NextType, PTL DEF Spec

-----------------------------------------------------------------------------
(* Staleness.  A view is accounted for when it is spoiled or a writer is on its way. *)

Accounted(k) == k \in spoiled \/ Coming(k)

\* A writer that stays where it is goes on coming.
LEMMA ComingStays ==
  ASSUME UNCHANGED writer, NEW k \in View, Coming(k)  PROVE Coming(k)'
BY DEF Coming

\* A writer that is done with its prefix, in either way, comes for the later ones, and the
\* others for what they came for.
LEMMA ComingAfterPrefix ==
  ASSUME TypeOK, NEW w \in Writer, writer[w].pc # "idle", NextPrefix(w),
         NEW k \in View, Coming(k), k # writer[w].view
  PROVE  Coming(k)'
<1>1. writer \in [Writer -> [pc : {"idle", "scan", "del"}, view : 0..NView, found : BOOLEAN]]
      /\ k \in 1..NView /\ NView \in Nat
  BY DEF TypeOK, View
<1>2. PICK x \in Writer : \/ writer[x].pc = "scan" /\ writer[x].view <= k
                          \/ writer[x].pc = "del" /\ writer[x].view < k
                          \/ writer[x].pc = "del" /\ writer[x].view = k /\ writer[x].found
  BY DEF Coming
<1>3. CASE x # w
  BY <1>1, <1>2, <1>3 DEF Coming, NextPrefix
<1>4. CASE x = w
  <2>1. writer[w].view < k /\ writer[w].view < NView
    BY <1>1, <1>2, <1>4
  <2>2. writer'[w] = [pc |-> "scan", view |-> writer[w].view + 1, found |-> FALSE]
    BY <1>1, <2>1 DEF NextPrefix
  <2>3. writer'[w].view <= k
    BY <1>1, <2>1, <2>2
  <2> QED BY <2>2, <2>3 DEF Coming
<1> QED BY <1>3, <1>4

LEMMA ReaderStale ==
  ASSUME Inv, NEW r \in Reader, ReaderStep(r)  PROVE StaleHasACause'
<1> SUFFICES ASSUME NEW k \in View, Stale(k)'  PROVE Accounted(k)'
  BY DEF StaleHasACause, Accounted
<1>1. UNCHANGED <<db, writer>>
  BY DEF ReaderStep, Hit, Miss, Load, Store, vars
<1>2. CASE UNCHANGED <<entry, spoiled>>
  BY <1>1, <1>2, ComingStays DEF Inv, StaleHasACause, Accounted, Stale
<1>3. ASSUME Put(r), reader[r].pc = "store"  PROVE Accounted(k)'
  <2> DEFINE j == reader[r].view  v == reader[r].ver
  <2>1. j \in View /\ v \in 0..db /\ db \in Nat /\ entry \in [View -> Entry \cup {NoEntry}]
    BY <1>3 DEF Inv, TypeOK, View
  <2>2. entry' = [entry EXCEPT ![j] = Stored(v)]
        /\ spoiled' = IF v < db THEN spoiled \cup {j} ELSE spoiled \ {j}
    BY <1>3 DEF Put
  <2>3. Stored(v).ver = v
    BY DEF Stored
  <2>4. CASE k = j
    BY <1>1, <2>1, <2>2, <2>3, <2>4 DEF Stale, Accounted
  <2>5. CASE k # j
    <3>1. Stale(k)
      BY <1>1, <2>1, <2>2, <2>5 DEF Stale
    <3>2. Accounted(k)
      BY <3>1 DEF Inv, StaleHasACause, Accounted
    <3> QED BY <1>1, <2>2, <2>5, <3>2, ComingStays DEF Accounted
  <2> QED BY <2>4, <2>5
<1>4. UNCHANGED <<entry, spoiled>> \/ (Put(r) /\ reader[r].pc = "store")
  BY DEF ReaderStep, Hit, Miss, Load, Store, vars
<1> QED BY <1>2, <1>3, <1>4

LEMMA WriteStale ==
  ASSUME Inv, BareWrite \/ (\E w \in Writer : Write(w) \/ RequestFails(w))
  PROVE  StaleHasACause'
<1>1. CASE BareWrite
  BY <1>1 DEF BareWrite, StaleHasACause
<1>2. ASSUME NEW w \in Writer, Write(w)  PROVE StaleHasACause'
  <2>1. writer' = [writer EXCEPT ![w] = [pc |-> "scan", view |-> 1, found |-> FALSE]]
        /\ writer \in [Writer -> [pc : {"idle", "scan", "del"}, view : 0..NView, found : BOOLEAN]]
    BY <1>2 DEF Write, Inv, TypeOK
  <2>2. writer'[w].pc = "scan" /\ writer'[w].view = 1
    BY <2>1
  <2>3. \A k \in View : writer'[w].view <= k
    BY <2>2 DEF View
  <2> QED BY <2>2, <2>3 DEF StaleHasACause, Coming
<1>3. ASSUME NEW w \in Writer, RequestFails(w)  PROVE StaleHasACause'
  BY <1>3 DEF RequestFails, StaleHasACause
<1> QED BY <1>1, <1>2, <1>3

LEMMA ScanStale ==
  ASSUME Inv, NEW w \in Writer, Scan(w)  PROVE StaleHasACause'
<1> DEFINE j == writer[w].view
<1> SUFFICES ASSUME NEW k \in View, Stale(k)'  PROVE Accounted(k)'
  BY DEF StaleHasACause, Accounted
<1>1. UNCHANGED <<db, entry>> /\ writer[w].pc = "scan" /\ j \in View
      /\ writer \in [Writer -> [pc : {"idle", "scan", "del"}, view : 0..NView, found : BOOLEAN]]
  BY DEF Scan, Inv, TypeOK, View
<1>2. Stale(k) /\ Accounted(k)
  BY <1>1 DEF Stale, Inv, StaleHasACause, Accounted
<1>3. CASE spoiled' = spoiled \cup {j} /\ NextPrefix(w)
  <2>1. Coming(k) /\ k # j => Coming(k)'
    BY <1>1, <1>3, ComingAfterPrefix DEF Inv
  <2> QED BY <1>2, <1>3, <2>1 DEF Accounted
<1>4. CASE /\ UNCHANGED spoiled
           /\ writer' = [writer EXCEPT ![w].pc = "del", ![w].found = (entry[j] # NoEntry)]
  <2>1. writer'[w].pc = "del" /\ writer'[w].view = j /\ writer'[w].found = (entry[j] # NoEntry)
        /\ \A x \in Writer : x # w => writer'[x] = writer[x]
    BY <1>1, <1>4
  <2>2. entry[k] # NoEntry /\ k \in Nat /\ j \in Nat
    BY <1>1, <1>2 DEF Stale, View
  <2>3. CASE k \in spoiled
    BY <1>4, <2>3 DEF Accounted
  <2>4. CASE Coming(k)
    <3>1. PICK x \in Writer : \/ writer[x].pc = "scan" /\ writer[x].view <= k
                              \/ writer[x].pc = "del" /\ writer[x].view < k
                              \/ writer[x].pc = "del" /\ writer[x].view = k /\ writer[x].found
      BY <2>4 DEF Coming
    <3>2. CASE x # w
      <4>1. writer'[x] = writer[x]
        BY <2>1, <3>2
      <4>2. Coming(k)'
        BY <3>1, <4>1 DEF Coming
      <4> QED BY <4>2 DEF Accounted
    <3>3. CASE x = w
      <4>1. j <= k
        BY <1>1, <3>1, <3>3
      <4>2. writer'[w].view < k \/ (writer'[w].view = k /\ writer'[w].found)
        <5>1. CASE k = j
          <6>1. writer'[w].found = TRUE
            BY <2>1, <2>2, <5>1
          <6> QED BY <2>1, <5>1, <6>1
        <5>2. CASE k # j
          BY <2>1, <2>2, <4>1, <5>2
        <5> QED BY <5>1, <5>2
      <4>3. Coming(k)'
        BY <2>1, <4>2 DEF Coming
      <4> QED BY <4>3 DEF Accounted
    <3> QED BY <3>2, <3>3
  <2> QED BY <1>2, <2>3, <2>4 DEF Accounted
<1> QED BY <1>3, <1>4 DEF Scan

\* What a deletion leaves of another view.
LEMMA DropStale ==
  ASSUME Inv, NEW j \in View, Drop(j), UNCHANGED db, NEW k \in View, Stale(k)'
  PROVE  k # j /\ Stale(k) /\ (k \in spoiled => k \in spoiled')
BY DEF Inv, TypeOK, Drop, Stale

LEMMA DelStale ==
  ASSUME Inv, NEW w \in Writer, Del(w)  PROVE StaleHasACause'
<1> DEFINE j == writer[w].view
<1> SUFFICES ASSUME NEW k \in View, Stale(k)'  PROVE Accounted(k)'
  BY DEF StaleHasACause, Accounted
<1>1. UNCHANGED db /\ writer[w].pc = "del" /\ j \in View /\ NextPrefix(w)
      /\ writer \in [Writer -> [pc : {"idle", "scan", "del"}, view : 0..NView, found : BOOLEAN]]
  BY DEF Del, Inv, TypeOK, View
<1>2. Coming(k) /\ k # j => Coming(k)'
  BY <1>1, ComingAfterPrefix DEF Inv
<1>3. CASE Drop(j)
  <2>1. k # j /\ Stale(k) /\ (k \in spoiled => k \in spoiled')
    BY <1>1, <1>3, DropStale
  <2> QED BY <1>2, <2>1 DEF Inv, StaleHasACause, Accounted
<1>4. CASE UNCHANGED entry /\ spoiled' = spoiled \cup {j}
  <2>1. Stale(k)
    BY <1>1, <1>4 DEF Stale
  <2> QED BY <1>2, <1>4, <2>1 DEF Inv, StaleHasACause, Accounted
<1>5. CASE ~writer[w].found /\ UNCHANGED <<entry, spoiled>>
  <2>1. Stale(k)
    BY <1>1, <1>5 DEF Stale
  <2>2. k \in spoiled \/ Coming(k)
    BY <2>1 DEF Inv, StaleHasACause
  <2>3. CASE k \in spoiled
    BY <1>5, <2>3 DEF Accounted
  <2>4. CASE Coming(k)
    <3>1. PICK x \in Writer : \/ writer[x].pc = "scan" /\ writer[x].view <= k
                              \/ writer[x].pc = "del" /\ writer[x].view < k
                              \/ writer[x].pc = "del" /\ writer[x].view = k /\ writer[x].found
      BY <2>4 DEF Coming
    <3>2. CASE x = w
      <4>1. k # j
        BY <1>1, <1>5, <3>1, <3>2 DEF View
      <4> QED BY <1>2, <2>4, <4>1 DEF Accounted
    <3>3. CASE x # w
      <4>1. writer'[x] = writer[x]
        BY <1>1, <3>3 DEF NextPrefix
      <4>2. Coming(k)'
        BY <3>1, <4>1 DEF Coming
      <4> QED BY <4>2 DEF Accounted
    <3> QED BY <3>2, <3>3
  <2> QED BY <2>2, <2>3, <2>4
<1> QED BY <1>3, <1>4, <1>5 DEF Del

LEMMA RedisStale ==
  ASSUME Inv,
         \/ \E k \in View : Expire(k)
         \/ GoDown \/ ComeBack \/ Disconnect \/ Reconnect \/ Probe \/ Crash
  PROVE  StaleHasACause'
<1> SUFFICES ASSUME NEW k \in View, Stale(k)'  PROVE Accounted(k)'
  BY DEF StaleHasACause, Accounted
<1>1. ASSUME NEW j \in View, Expire(j)  PROVE Accounted(k)'
  <2>1. Drop(j) /\ UNCHANGED <<db, writer>>
    BY <1>1 DEF Expire
  <2>2. k # j /\ Stale(k) /\ (k \in spoiled => k \in spoiled')
    BY <2>1, DropStale
  <2> QED BY <2>1, <2>2, ComingStays DEF Inv, StaleHasACause, Accounted
<1>2. CASE UNCHANGED <<db, entry, spoiled, writer>>
  BY <1>2, ComingStays DEF Stale, Inv, StaleHasACause, Accounted
<1>3. CASE ComeBack
  <2>1. CASE entry' = [x \in View |-> NoEntry]
    BY <2>1 DEF Stale
  <2>2. CASE UNCHANGED <<entry, spoiled>>
    BY <1>2, <1>3, <2>2 DEF ComeBack
  <2> QED BY <1>3, <2>1, <2>2 DEF ComeBack
<1>4. CASE Crash
  BY <1>4 DEF Crash, Stale, Inv, StaleHasACause, Accounted
<1>5. CASE GoDown \/ Disconnect \/ Reconnect \/ Probe
  BY <1>2, <1>5 DEF GoDown, Disconnect, Reconnect, Probe
<1> QED BY <1>1, <1>3, <1>4, <1>5

LEMMA NextStale == Inv /\ [Next]_vars => StaleHasACause'
<1> SUFFICES ASSUME Inv, [Next]_vars  PROVE StaleHasACause'
  OBVIOUS
<1>1. CASE UNCHANGED vars
  BY <1>1 DEF Inv, StaleHasACause, Stale, Coming, vars
<1> QED BY <1>1, ReaderStale, WriteStale, ScanStale, DelStale, RedisStale DEF Next, WriterStep

\* StaleHasACause: an answer that misses a write is about to be deleted or has one of the
\* listed causes, for any number of readers and writers and whatever Redis does.
THEOREM StalenessHasACause == Spec => []StaleHasACause
<1>1. Init => Inv
  BY InitType DEF Inv, Init, StaleHasACause, Stale
<1>2. Inv /\ [Next]_vars => Inv'
  BY NextType, NextStale DEF Inv
<1>3. Inv => StaleHasACause
  BY DEF Inv
<1> QED BY <1>1, <1>2, <1>3, PTL DEF Spec
=============================================================================
