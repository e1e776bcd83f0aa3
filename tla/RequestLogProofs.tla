-------------------------- MODULE RequestLogProofs --------------------------
(***************************************************************************)
(* Proofs about the request log, for any number of messages, flows,        *)
(* viewers, crashes and rows.                                              *)
(***************************************************************************)
EXTENDS RequestLog, FiniteSetTheorems, TLAPS

LEMMA NoEntryIsNoEntry == NoEntry \notin Entry
BY LogAssumption DEF NoEntry, Entry

LEMMA PatternsDiffer ==
    Business # LogCreate /\ Business # LogQuery /\ LogCreate # LogQuery
BY DEF Business, LogCreate, LogQuery

(* A message that was sent belongs to a flow, its own if to no other. *)
LEMMA CorrelationType ==
    ASSUME NEW m \in Messages, msg[m] \in Msg
    PROVE  CorrelationOf(m) \in Flows \union Messages
BY DEF CorrelationOf, Msg

(* Handing over an entry keeps the log's books well formed. *)
LEMMA StartWriteType ==
    ASSUME TypeOK, NEW m \in Messages, msg[m] \in Msg,
           NEW failed \in BOOLEAN, StartWrite(m, failed)
    PROVE  /\ entry' \in [Messages -> Entry \union {NoEntry}]
           /\ write' \in [Messages -> {"none", "waiting", "shown", "warned",
                                       "died"}]
           /\ insert' \in [Messages -> {"none", "sent", "stored", "refused"}]
           /\ entry'[m] \in Entry /\ entry'[m].hop = m
           /\ entry'[m].failed = failed
           /\ write'[m] = "waiting" /\ insert'[m] = "sent"
           /\ \A q \in Messages \ {m} :
                 /\ entry'[q] = entry[q]
                 /\ write'[q] = write[q] /\ insert'[q] = insert[q]
<1> DEFINE e == [hop |-> m, flow |-> CorrelationOf(m), failed |-> failed]
<1>1. e \in Entry
    BY CorrelationType DEF Entry
<1>2. e.hop = m /\ e.failed = failed
    OBVIOUS
<1> HIDE DEF e
<1>3. entry' = [entry EXCEPT ![m] = e]
    BY DEF StartWrite, e
<1>4. /\ write' = [write EXCEPT ![m] = "waiting"]
      /\ insert' = [insert EXCEPT ![m] = "sent"]
    BY DEF StartWrite
<1> QED
    BY <1>1, <1>2, <1>3, <1>4 DEF TypeOK

(* What an action does not touch keeps its part of the invariant. *)
LEMMA HopUntouched ==
    ASSUME NEW q \in Messages, HopInv(q), msg'[q] = msg[q], hop'[q] = hop[q],
           entry'[q] = entry[q], write'[q] = write[q], insert'[q] = insert[q]
    PROVE  HopInv(q)'
BY DEF HopInv

(* A row stays right as long as entries and executed inserts stay. *)
LEMMA RowsUntouched ==
    ASSUME RowsInv, rows' = rows,
           \A q \in Messages : insert[q] = "stored" =>
               entry'[q] = entry[q] /\ insert'[q] = "stored",
           \A q \in Messages : insert'[q] = "stored" => insert[q] = "stored",
           \A i \in DOMAIN rows : rows[i].hop \in Messages
    PROVE  RowsInv'
BY DEF RowsInv

LEMMA FeedUntouched ==
    ASSUME NEW v \in Viewers, FeedInv(v), feed'[v] = feed[v],
           viewer'[v] = viewer[v],
           \A q \in Messages : write[q] = "shown" =>
               entry'[q] = entry[q] /\ write'[q] = "shown",
           \A i \in DOMAIN feed[v] : feed[v][i].hop \in Messages
    PROVE  FeedInv(v)'
BY DEF FeedInv

(* Rows and broadcasts name hops. *)
LEMMA HopsNamed ==
    ASSUME TypeOK
    PROVE  /\ \A i \in DOMAIN rows : rows[i] \in Entry /\ rows[i].hop \in Messages
           /\ \A v \in Viewers : \A i \in DOMAIN feed[v] :
                 feed[v][i] \in Entry /\ feed[v][i].hop \in Messages
<1>1. \A i \in DOMAIN rows : rows[i] \in Entry
    BY DEF TypeOK
<1>2. \A v \in Viewers : feed[v] \in Seq(Entry)
    BY DEF TypeOK
<1>3. \A v \in Viewers : \A i \in DOMAIN feed[v] : feed[v][i] \in Entry
    BY <1>2
<1>4. \A e \in Entry : e.hop \in Messages
    BY DEF Entry
<1> QED
    BY <1>1, <1>3, <1>4
-----------------------------------------------------------------------------
LEMMA InitInv == Init => LogInv
<1> SUFFICES ASSUME Init PROVE LogInv
    OBVIOUS
<1>1. TypeOK
  <2>1. NoPage \in Page
      BY DEF NoPage, Page
  <2>2. rows \in Seq(Entry) /\ \A v \in Viewers : feed[v] \in Seq(Entry)
      BY DEF Init
  <2> QED
      BY <2>1, <2>2, LogAssumption DEF Init, TypeOK
<1>2. \A m \in Messages : HopInv(m)
    BY DEF Init, HopInv
<1>3. RowsInv
    BY DEF Init, RowsInv
<1>4. \A v \in Viewers : FeedInv(v)
    BY DEF Init, FeedInv
<1> QED
    BY <1>1, <1>2, <1>3, <1>4 DEF LogInv
-----------------------------------------------------------------------------
(* A message enters the queue. *)
LEMMA SendInv ==
    ASSUME LogInv, NEW m \in Messages, Send(m) PROVE LogInv'
<1> USE DEF LogInv
<1>1. PICK p \in Msg : msg' = [msg EXCEPT ![m] = p]
    BY DEF Send, Msg
<1>2. hop' = [hop EXCEPT ![m] = "queued"] /\ hop[m] = "unsent"
    BY DEF Send
<1>3. UNCHANGED <<up, entry, write, insert, rows, page, viewer, feed, faults>>
    BY DEF Send
<1>4. TypeOK'
    BY <1>1, <1>2, <1>3 DEF TypeOK
<1>5. ASSUME NEW q \in Messages PROVE HopInv(q)'
  <2>1. CASE q = m
    <3>1. HopInv(m)
        OBVIOUS
    <3>2. msg'[m] \in Msg /\ hop'[m] = "queued"
        BY <1>1, <1>2 DEF TypeOK
    <3>3. /\ entry[m] = NoEntry /\ entry'[m] = NoEntry
          /\ write'[m] = write[m] /\ insert'[m] = insert[m]
          /\ write[m] = "none" /\ insert[m] = "none"
        BY <1>2, <1>3, <3>1 DEF HopInv
    <3> QED
        BY <2>1, <3>2, <3>3 DEF HopInv
  <2>2. CASE q # m
      BY <2>2, <1>1, <1>2, <1>3, HopUntouched DEF TypeOK
  <2> QED
      BY <2>1, <2>2
<1>6. RowsInv'
    BY <1>3, RowsUntouched, HopsNamed
<1>7. ASSUME NEW v \in Viewers PROVE FeedInv(v)'
    BY <1>3, FeedUntouched, HopsNamed
<1> QED
    BY <1>4, <1>5, <1>6, <1>7

(* A hop hands over its entry, when it starts or when it ends, or keeps    *)
(* quiet.  Both ways the rest of the log is not disturbed.                 *)
LEMMA HandOverInv ==
    ASSUME LogInv, NEW m \in Messages, msg[m] \in Msg,
           NEW status \in {"running", "returned", "threw"},
           NEW failed \in BOOLEAN,
           hop' = [hop EXCEPT ![m] = status],
           entry[m] = NoEntry, StartWrite(m, failed), page' \in [Messages -> Page],
           UNCHANGED <<up, msg, rows, viewer, feed, faults>>,
           msg[m].pattern # LogQuery,
           status = "running" => msg[m].pattern = LogCreate,
           status # "running" => (failed <=> status = "threw")
    PROVE  LogInv'
<1> USE DEF LogInv
<1>1. /\ entry' \in [Messages -> Entry \union {NoEntry}]
      /\ write' \in [Messages -> {"none", "waiting", "shown", "warned", "died"}]
      /\ insert' \in [Messages -> {"none", "sent", "stored", "refused"}]
      /\ entry'[m] \in Entry /\ entry'[m].hop = m /\ entry'[m].failed = failed
      /\ write'[m] = "waiting" /\ insert'[m] = "sent"
      /\ \A q \in Messages \ {m} :
            entry'[q] = entry[q] /\ write'[q] = write[q] /\ insert'[q] = insert[q]
    BY StartWriteType
<1>2. TypeOK'
    BY <1>1 DEF TypeOK
<1>3. HopInv(m) /\ write[m] = "none" /\ insert[m] = "none"
    BY DEF HopInv
<1>4. ASSUME NEW q \in Messages PROVE HopInv(q)'
  <2>1. CASE q = m
      BY <2>1, <1>1, NoEntryIsNoEntry, PatternsDiffer DEF HopInv, TypeOK
  <2>2. CASE q # m
      BY <2>2, <1>1, HopUntouched DEF TypeOK
  <2> QED
      BY <2>1, <2>2
<1>5. RowsInv'
    BY <1>1, <1>3, RowsUntouched, HopsNamed
<1>6. ASSUME NEW v \in Viewers PROVE FeedInv(v)'
    BY <1>1, <1>3, FeedUntouched, HopsNamed
<1> QED
    BY <1>2, <1>4, <1>5, <1>6

(* A hop that hands over nothing only changes its own status. *)
LEMMA QuietInv ==
    ASSUME LogInv, NEW m \in Messages, msg[m] \in Msg,
           NEW status \in {"running", "returned", "threw"},
           hop' = [hop EXCEPT ![m] = status],
           page' \in [Messages -> Page],
           UNCHANGED <<up, msg, entry, write, insert, rows, viewer, feed, faults>>,
           status = "running" => entry[m] = NoEntry,
           status # "running" => msg[m].pattern # Business
    PROVE  LogInv'
<1> USE DEF LogInv
<1>1. TypeOK'
    BY DEF TypeOK
<1>2. ASSUME NEW q \in Messages PROVE HopInv(q)'
  <2>1. CASE q = m
      BY <2>1 DEF HopInv, TypeOK
  <2>2. CASE q # m
      BY <2>2, HopUntouched DEF TypeOK
  <2> QED
      BY <2>1, <2>2
<1>3. RowsInv'
    BY RowsUntouched, HopsNamed
<1>4. ASSUME NEW v \in Viewers PROVE FeedInv(v)'
    BY FeedUntouched, HopsNamed
<1> QED
    BY <1>1, <1>2, <1>3, <1>4

(* A delivered message runs; the handler of log.create is the write. *)
LEMMA DeliverInv ==
    ASSUME LogInv, NEW m \in Messages, Deliver(m) PROVE LogInv'
<1>1. HopInv(m) /\ msg[m] \in Msg /\ entry[m] = NoEntry
    BY DEF LogInv, HopInv, Deliver
<1>2. hop' = [hop EXCEPT ![m] = "running"] /\ page' \in [Messages -> Page]
    BY DEF Deliver, LogInv, TypeOK
<1>3. CASE msg[m].pattern = LogCreate
    BY <1>1, <1>2, <1>3, HandOverInv, PatternsDiffer DEF Deliver
<1>4. CASE msg[m].pattern # LogCreate
    BY <1>1, <1>2, <1>4, QuietInv DEF Deliver
<1> QED
    BY <1>3, <1>4

(* The interceptor's callbacks. *)
LEMMA FinishInv ==
    ASSUME LogInv, NEW m \in Messages, hop[m] = "running",
           msg[m].pattern \in {Business, LogQuery},
           NEW outcome \in {"returned", "threw"}, Finish(m, outcome),
           page' \in [Messages -> Page],
           UNCHANGED <<up, msg, rows, viewer, feed, faults>>
    PROVE  LogInv'
<1>1. HopInv(m) /\ msg[m] \in Msg /\ entry[m] = NoEntry
    BY PatternsDiffer DEF LogInv, HopInv
<1>2. hop' = [hop EXCEPT ![m] = outcome]
    BY DEF Finish
<1>3. CASE msg[m].pattern = Business
  <2>1. StartWrite(m, outcome = "threw")
      BY <1>3, PatternsDiffer DEF Finish, IsLogPattern
  <2>2. (outcome = "threw") \in BOOLEAN
      OBVIOUS
  <2> QED
      BY <1>1, <1>2, <1>3, <2>1, <2>2, HandOverInv, PatternsDiffer
<1>4. CASE msg[m].pattern = LogQuery
  <2>1. UNCHANGED <<entry, write, insert>>
      BY <1>4 DEF Finish, IsLogPattern
  <2> QED
      BY <1>1, <1>2, <1>4, <2>1, QuietInv, PatternsDiffer
<1> QED
    BY <1>3, <1>4

LEMMA HandleInv ==
    ASSUME LogInv, NEW m \in Messages, Handle(m) PROVE LogInv'
BY FinishInv DEF Handle, LogInv, TypeOK

(* How many rows match, and how many a page shows, are natural numbers. *)
LEMMA MatchingType ==
    ASSUME TypeOK, NEW flow PROVE Matching(flow) \in Nat
<1> DEFINE S == {i \in DOMAIN rows : flow = NoFlow \/ rows[i].flow = flow}
<1>1. Len(rows) \in Nat /\ DOMAIN rows = 1 .. Len(rows)
    BY DEF TypeOK
<1>2. IsFiniteSet(1 .. Len(rows))
    BY <1>1, FS_Interval
<1>3. IsFiniteSet(S)
    BY <1>1, <1>2, FS_Subset
<1> QED
    BY <1>3, FS_CardinalityType DEF Matching

LEMMA RowsOnPageType ==
    ASSUME NEW n \in Nat, NEW number \in Nat PROVE RowsOnPage(n, number) \in Nat
<1> DEFINE left == n - (number - 1) * PageLimit
<1>1. left \in Int /\ PageLimit \in Nat
    BY LogAssumption
<1>2. RowsOnPage(n, number) =
          IF left < 0 THEN 0 ELSE IF left > PageLimit THEN PageLimit ELSE left
    BY DEF RowsOnPage
<1> HIDE DEF left
<1> QED
    BY <1>1, <1>2

(* The two statements of a query, and its failure. *)
LEMMA FindAllInv ==
    ASSUME LogInv, NEW m \in Messages, FindAll(m) \/ FindAllFails(m)
    PROVE  LogInv'
<1>1. /\ TypeOK /\ HopInv(m) /\ hop[m] = "running"
      /\ msg[m].pattern = LogQuery /\ msg[m] \in Msg
    BY DEF LogInv, HopInv, FindAll, FindAllFails, CountMatching, SelectPage,
           Reading
<1>2. PICK n \in Nat : n = Matching(msg[m].flow)
    BY <1>1, MatchingType
<1>3. PICK k \in Nat : k = RowsOnPage(n, msg[m].number)
  <2>1. msg[m].number \in 1 .. 2
      BY <1>1 DEF Msg
  <2>2. msg[m].number \in Nat
      BY <2>1
  <2> QED
      BY <2>2, RowsOnPageType
<1>4. CASE CountMatching(m)
  <2>1. page' = [page EXCEPT ![m].total = n]
      BY <1>2, <1>4 DEF CountMatching
  <2>2. page' \in [Messages -> Page]
      BY <1>1, <2>1 DEF TypeOK, Page
  <2>3. hop' = [hop EXCEPT ![m] = "running"]
      BY <1>1, <1>4 DEF CountMatching, TypeOK
  <2>4. entry[m] = NoEntry
      BY <1>1, PatternsDiffer DEF HopInv
  <2> QED
      BY <1>1, <1>4, <2>2, <2>3, <2>4, QuietInv DEF CountMatching
<1>5. CASE SelectPage(m)
  <2>1. page' = [page EXCEPT ![m].got = k]
      BY <1>2, <1>3, <1>5 DEF SelectPage
  <2>2. page' \in [Messages -> Page]
      BY <1>1, <2>1 DEF TypeOK, Page
  <2> QED
      BY <1>1, <1>5, <2>2, FinishInv DEF SelectPage
<1>6. CASE FindAllFails(m)
    BY <1>1, <1>6, FinishInv DEF FindAllFails, TypeOK
<1> QED
    BY <1>4, <1>5, <1>6 DEF FindAll

(* Postgres stores the entry once, or refuses it. *)
LEMMA InsertRowInv ==
    ASSUME LogInv, NEW m \in Messages, InsertRow(m) PROVE LogInv'
<1> USE DEF LogInv
<1>1. /\ insert[m] = "sent" /\ entry[m] \in Entry /\ entry[m].hop = m
      /\ write[m] # "shown" /\ write[m] # "none"
    BY DEF InsertRow, HopInv, TypeOK
<1>2. UNCHANGED <<up, msg, hop, entry, write, page, viewer, feed, faults>>
    BY DEF InsertRow
<1>3. PICK fate \in {"stored", "refused"} :
          /\ insert' = [insert EXCEPT ![m] = fate]
          /\ rows' = IF fate = "stored" THEN Append(rows, entry[m]) ELSE rows
    BY DEF InsertRow
<1>4. TypeOK'
    BY <1>1, <1>2, <1>3 DEF TypeOK
<1>5. ASSUME NEW q \in Messages PROVE HopInv(q)'
  <2>1. CASE q = m
      BY <2>1, <1>1, <1>2, <1>3 DEF HopInv, TypeOK
  <2>2. CASE q # m
      BY <2>2, <1>2, <1>3, HopUntouched DEF TypeOK
  <2> QED
      BY <2>1, <2>2
<1>6. RowsInv'
  <2>1. CASE fate = "stored"
    <3>1. /\ rows' = Append(rows, entry[m]) /\ rows \in Seq(Entry)
          /\ insert'[m] = "stored"
          /\ \A q \in Messages \ {m} : insert'[q] = insert[q]
        BY <2>1, <1>3 DEF TypeOK
    <3>2. /\ DOMAIN rows' = DOMAIN rows \union {Len(rows) + 1}
          /\ rows'[Len(rows) + 1] = entry[m]
          /\ \A i \in DOMAIN rows : rows'[i] = rows[i]
        BY <3>1, <1>1
    <3>3. \A i \in DOMAIN rows' : /\ rows'[i] = entry[rows'[i].hop]
                                  /\ insert'[rows'[i].hop] = "stored"
        BY <3>1, <3>2, <1>1, HopsNamed DEF RowsInv
    <3>4. \A q \in Messages : insert'[q] = "stored" =>
              \E i \in DOMAIN rows' : rows'[i] = entry[q]
        BY <3>1, <3>2 DEF RowsInv
    <3> QED
        BY <3>3, <3>4, <1>2 DEF RowsInv
  <2>2. CASE fate = "refused"
      BY <2>2, <1>1, <1>2, <1>3, RowsUntouched, HopsNamed DEF TypeOK
  <2> QED
      BY <2>1, <2>2
<1>7. ASSUME NEW v \in Viewers PROVE FeedInv(v)'
    BY <1>2, FeedUntouched, HopsNamed
<1> QED
    BY <1>4, <1>5, <1>6, <1>7

(* The broadcast of a stored row. *)
LEMMA CreateResolvesInv ==
    ASSUME LogInv, NEW m \in Messages, CreateResolves(m) PROVE LogInv'
<1> USE DEF LogInv
<1>1. /\ write[m] = "waiting" /\ insert[m] = "stored"
      /\ entry[m] \in Entry /\ entry[m].hop = m
    BY DEF CreateResolves, HopInv, TypeOK
<1>2. UNCHANGED <<up, msg, entry, insert, rows, page, viewer, faults>>
    BY DEF CreateResolves
<1>3. /\ write' = [write EXCEPT ![m] = "shown"]
      /\ hop' = [hop EXCEPT ![m] = IF @ = "running" THEN "returned" ELSE @]
    BY DEF CreateResolves, EndWrite
<1>4. \A v \in Viewers : feed[v] \in Seq(Entry)
    BY DEF TypeOK
<1>5. \A v \in Viewers :
          feed'[v] = IF viewer[v] = "away" THEN feed[v]
                                           ELSE Append(feed[v], entry[m])
    BY DEF CreateResolves, EmitNewLog
<1>6. TypeOK'
  <2>1. feed' \in [Viewers -> Seq(Entry)]
    <3>1. ASSUME NEW v \in Viewers PROVE feed'[v] \in Seq(Entry)
      <4>1. feed[v] \in Seq(Entry) /\ entry[m] \in Entry
          BY <1>1, <1>4
      <4>2. Append(feed[v], entry[m]) \in Seq(Entry)
          BY <4>1
      <4> QED
          BY <4>1, <4>2, <1>5
    <3>2. feed' = [v \in Viewers |-> feed'[v]]
        BY DEF CreateResolves, EmitNewLog
    <3> QED
        BY <3>1, <3>2
  <2> QED
      BY <1>2, <1>3, <2>1 DEF TypeOK
<1>7. ASSUME NEW q \in Messages PROVE HopInv(q)'
  <2>1. CASE q = m
    <3>1. hop[m] = "running" => msg[m].pattern = LogCreate
        BY <1>1 DEF HopInv
    <3>2. /\ write'[m] = "shown" /\ insert'[m] = "stored"
          /\ entry'[m] = entry[m] /\ msg'[m] = msg[m]
          /\ hop'[m] = IF hop[m] = "running" THEN "returned" ELSE hop[m]
        BY <1>1, <1>2, <1>3 DEF TypeOK
    <3> QED
        BY <2>1, <1>1, <3>1, <3>2, PatternsDiffer DEF HopInv
  <2>2. CASE q # m
      BY <2>2, <1>2, <1>3, HopUntouched DEF TypeOK
  <2> QED
      BY <2>1, <2>2
<1>8. RowsInv'
    BY <1>2, RowsUntouched, HopsNamed
<1>9. ASSUME NEW v \in Viewers PROVE FeedInv(v)'
  <2>1. \A q \in Messages : write[q] = "shown" =>
            entry'[q] = entry[q] /\ write'[q] = "shown"
      BY <1>2, <1>3 DEF TypeOK
  <2>2. CASE viewer[v] = "away"
      BY <2>1, <2>2, <1>2, <1>5, FeedUntouched, HopsNamed
  <2>3. CASE viewer[v] # "away"
    <3>1. /\ feed'[v] = Append(feed[v], entry[m]) /\ feed[v] \in Seq(Entry)
        BY <2>3, <1>4, <1>5
    <3>2. /\ DOMAIN feed'[v] = DOMAIN feed[v] \union {Len(feed[v]) + 1}
          /\ feed'[v][Len(feed[v]) + 1] = entry[m]
          /\ \A i \in DOMAIN feed[v] : feed'[v][i] = feed[v][i]
        BY <3>1, <1>1
    <3>3. write'[m] = "shown" /\ entry'[m] = entry[m]
        BY <1>2, <1>3 DEF TypeOK
    <3>4. \A i \in DOMAIN feed'[v] :
              /\ write'[feed'[v][i].hop] = "shown"
              /\ entry'[feed'[v][i].hop] = feed'[v][i]
        BY <2>1, <3>2, <3>3, <1>1, HopsNamed DEF FeedInv
    <3> QED
        BY <2>3, <3>4, <1>2 DEF FeedInv
  <2> QED
      BY <2>2, <2>3
<1> QED
    BY <1>6, <1>7, <1>8, <1>9

(* A write that ends with a warning. *)
LEMMA CreateRejectsInv ==
    ASSUME LogInv, NEW m \in Messages, CreateRejects(m) PROVE LogInv'
<1> USE DEF LogInv
<1>1. write[m] = "waiting"
    BY DEF CreateRejects
<1>2. UNCHANGED <<up, msg, entry, insert, rows, page, viewer, feed, faults>>
    BY DEF CreateRejects
<1>3. /\ write' = [write EXCEPT ![m] = "warned"]
      /\ hop' = [hop EXCEPT ![m] = IF @ = "running" THEN "returned" ELSE @]
    BY DEF CreateRejects, EndWrite
<1>4. TypeOK'
    BY <1>2, <1>3 DEF TypeOK
<1>5. ASSUME NEW q \in Messages PROVE HopInv(q)'
  <2>1. CASE q = m
    <3>1. hop[m] = "running" => msg[m].pattern = LogCreate
        BY <1>1 DEF HopInv
    <3>2. /\ write'[m] = "warned" /\ insert'[m] = insert[m]
          /\ entry'[m] = entry[m] /\ msg'[m] = msg[m]
          /\ hop'[m] = IF hop[m] = "running" THEN "returned" ELSE hop[m]
        BY <1>1, <1>2, <1>3 DEF TypeOK
    <3> QED
        BY <2>1, <1>1, <3>1, <3>2, PatternsDiffer DEF HopInv
  <2>2. CASE q # m
      BY <2>2, <1>2, <1>3, HopUntouched DEF TypeOK
  <2> QED
      BY <2>1, <2>2
<1>6. RowsInv'
    BY <1>2, RowsUntouched, HopsNamed
<1>7. ASSUME NEW v \in Viewers PROVE FeedInv(v)'
    BY <1>1, <1>2, <1>3, FeedUntouched, HopsNamed DEF TypeOK
<1> QED
    BY <1>4, <1>5, <1>6, <1>7

(* Sockets come and go without touching the log. *)
LEMMA ViewerInv ==
    ASSUME LogInv, NEW v \in Viewers, Connect(v) \/ Lookup(v) \/ Disconnect(v)
    PROVE  LogInv'
<1> USE DEF LogInv
<1>1. UNCHANGED <<up, msg, hop, entry, write, insert, rows, page, faults>>
    BY DEF Connect, Lookup, Disconnect
<1>2. \/ /\ viewer' = [viewer EXCEPT ![v] = "checking"] /\ v \in Admins
         /\ viewer[v] = "away" /\ feed' = feed
      \/ /\ viewer' = [viewer EXCEPT ![v] = "joined"] /\ viewer[v] = "checking"
         /\ feed' = feed
      \/ Part({v})
    BY DEF Connect, Lookup, Disconnect
<1>3. TypeOK' /\ \A w \in Viewers : FeedInv(w)'
  <2>1. CASE /\ viewer' = [viewer EXCEPT ![v] = "checking"] /\ v \in Admins
             /\ viewer[v] = "away" /\ feed' = feed
      BY <1>1, <2>1 DEF TypeOK, FeedInv
  <2>2. CASE /\ viewer' = [viewer EXCEPT ![v] = "joined"]
             /\ viewer[v] = "checking" /\ feed' = feed
      BY <1>1, <2>2 DEF TypeOK, FeedInv
  <2>3. CASE Part({v})
    <3>1. TypeOK'
        BY <1>1, <2>3 DEF TypeOK, Part
    <3>2. ASSUME NEW w \in Viewers PROVE FeedInv(w)'
        BY <1>1, <2>3 DEF FeedInv, Part
    <3> QED
        BY <3>1, <3>2
  <2> QED
      BY <1>2, <2>1, <2>2, <2>3
<1>4. ASSUME NEW q \in Messages PROVE HopInv(q)'
    BY <1>1, HopUntouched
<1>5. RowsInv'
    BY <1>1, RowsUntouched, HopsNamed
<1> QED
    BY <1>3, <1>4, <1>5

(* The service or the broker dies. *)
LEMMA CrashInv ==
    ASSUME LogInv, Crash PROVE LogInv'
<1> USE DEF LogInv
<1>1. /\ UNCHANGED <<msg, entry, insert, rows, page>> /\ up' = FALSE
      /\ faults' = faults + 1 /\ faults < MaxFaults
    BY DEF Crash
<1>2. /\ hop' = [m \in Messages |-> IF hop[m] = "running" THEN "lost" ELSE hop[m]]
      /\ write' = [m \in Messages |-> IF write[m] = "waiting" THEN "died"
                                                              ELSE write[m]]
    BY DEF Crash
<1>3. /\ viewer' = [v \in Viewers |-> "away"] /\ feed' = [v \in Viewers |-> <<>>]
    BY DEF Crash, Part
<1>4. TypeOK'
  <2>1. faults' \in 0 .. MaxFaults
      BY <1>1, LogAssumption DEF TypeOK
  <2>2. feed' \in [Viewers -> Seq(Entry)]
    <3>1. <<>> \in Seq(Entry)
        OBVIOUS
    <3> QED
        BY <3>1, <1>3
  <2> QED
      BY <1>1, <1>2, <1>3, <2>1, <2>2 DEF TypeOK
<1>5. ASSUME NEW q \in Messages PROVE HopInv(q)'
    BY <1>1, <1>2 DEF HopInv
<1>6. RowsInv'
    BY <1>1, RowsUntouched, HopsNamed
<1>7. ASSUME NEW v \in Viewers PROVE FeedInv(v)'
    BY <1>3 DEF FeedInv
<1> QED
    BY <1>4, <1>5, <1>6, <1>7

LEMMA RestartInv ==
    ASSUME LogInv, Restart \/ BrokerRestart PROVE LogInv'
<1> USE DEF LogInv
<1>1. /\ UNCHANGED <<msg, entry, write, insert, rows, page, viewer, feed>>
      /\ up' \in BOOLEAN
    BY DEF Restart, BrokerRestart, TypeOK
<1>2. /\ hop' \in [Messages -> {"unsent", "queued", "running", "returned",
                                "threw", "lost"}]
      /\ \A m \in Messages : \/ hop'[m] = hop[m]
                             \/ hop[m] = "queued" /\ hop'[m] = "lost"
    BY DEF Restart, BrokerRestart, TypeOK
<1>3. faults' \in 0 .. MaxFaults
    BY LogAssumption DEF Restart, BrokerRestart, TypeOK
<1>4. TypeOK'
    BY <1>1, <1>2, <1>3 DEF TypeOK
<1>5. ASSUME NEW q \in Messages PROVE HopInv(q)'
    BY <1>1, <1>2 DEF HopInv
<1>6. RowsInv'
    BY <1>1, RowsUntouched, HopsNamed
<1>7. ASSUME NEW v \in Viewers PROVE FeedInv(v)'
    BY <1>1, FeedUntouched, HopsNamed
<1> QED
    BY <1>4, <1>5, <1>6, <1>7

LEMMA StutterInv ==
    ASSUME LogInv, UNCHANGED vars PROVE LogInv'
BY DEF LogInv, TypeOK, HopInv, RowsInv, FeedInv, CorrelationOf, vars
-----------------------------------------------------------------------------
LEMMA NextInv == LogInv /\ [Next]_vars => LogInv'
<1> SUFFICES ASSUME LogInv, [Next]_vars PROVE LogInv'
    OBVIOUS
<1>1. ASSUME NEW m \in Messages, Send(m) PROVE LogInv'
    BY <1>1, SendInv
<1>2. ASSUME NEW m \in Messages, Deliver(m) PROVE LogInv'
    BY <1>2, DeliverInv
<1>3. ASSUME NEW m \in Messages, Handle(m) PROVE LogInv'
    BY <1>3, HandleInv
<1>4. ASSUME NEW m \in Messages, FindAll(m) \/ FindAllFails(m) PROVE LogInv'
    BY <1>4, FindAllInv
<1>5. ASSUME NEW m \in Messages, InsertRow(m) PROVE LogInv'
    BY <1>5, InsertRowInv
<1>6. ASSUME NEW m \in Messages, CreateResolves(m) PROVE LogInv'
    BY <1>6, CreateResolvesInv
<1>7. ASSUME NEW m \in Messages, CreateRejects(m) PROVE LogInv'
    BY <1>7, CreateRejectsInv
<1>8. ASSUME NEW v \in Viewers, Connect(v) \/ Lookup(v) \/ Disconnect(v)
      PROVE  LogInv'
    BY <1>8, ViewerInv
<1>9. CASE Crash
    BY <1>9, CrashInv
<1>10. CASE Restart \/ BrokerRestart
    BY <1>10, RestartInv
<1>11. CASE UNCHANGED vars
    BY <1>11, StutterInv
<1> QED
    BY <1>1, <1>2, <1>3, <1>4, <1>5, <1>6, <1>7, <1>8, <1>9, <1>10, <1>11 DEF Next

LEMMA LogInvariant == Spec => []LogInv
BY InitInv, NextInv, PTL DEF Spec

(* The log's state is well formed in every reachable state. *)
THEOREM LogTypeCorrect == Spec => []TypeOK
<1>1. LogInv => TypeOK
    BY DEF LogInv
<1> QED
    BY <1>1, LogInvariant, PTL

(* A business hop that ended is accounted for, by a row that tells its     *)
(* outcome, a write under way, a warning or the death of the service       *)
(* (trace-context.interceptor.ts, log.service.ts).                         *)
THEOREM NoSilentLossCorrect == Spec => []NoSilentLoss
<1>1. LogInv => NoSilentLoss
  <2> SUFFICES ASSUME LogInv, NEW m \in Messages,
                      hop[m] \in {"returned", "threw"}, msg[m].pattern = Business,
                      write[m] \notin {"waiting", "warned", "died"}
               PROVE  \E i \in DOMAIN rows :
                         rows[i].hop = m /\ (rows[i].failed <=> hop[m] = "threw")
      BY DEF NoSilentLoss
  <2>1. /\ entry[m] # NoEntry /\ (entry[m].failed <=> hop[m] = "threw")
        /\ entry[m].hop = m
      BY DEF LogInv, HopInv
  <2>2. write[m] = "shown"
      BY <2>1 DEF LogInv, HopInv, TypeOK
  <2>3. PICK i \in DOMAIN rows : rows[i] = entry[m]
      BY <2>2 DEF LogInv, HopInv, RowsInv
  <2> QED
      BY <2>1, <2>3
<1> QED
    BY <1>1, LogInvariant, PTL

(* Only sockets that proved to be an admin's receive rows                  *)
(* (log.gateway.ts handleConnection, emitNewLog).                          *)
THEOREM FeedOnlyToAdminsCorrect == Spec => []FeedOnlyToAdmins
<1>1. LogInv => FeedOnlyToAdmins
    BY DEF LogInv, FeedInv, FeedOnlyToAdmins
<1> QED
    BY <1>1, LogInvariant, PTL
-----------------------------------------------------------------------------
(* The refinement.  The reported entries are those that a hop handed over. *)
LEMMA ReportedGrows ==
    ASSUME NEW m \in Messages, entry[m] = NoEntry, entry'[m] # NoEntry,
           \A q \in Messages \ {m} : entry'[q] = entry[q]
    PROVE  Reported' = Reported \union {entry'[m]}
BY DEF Reported

LEMMA ReportStep ==
    ASSUME LogInv, NEW m \in Messages, msg[m] \in Msg, entry[m] = NoEntry,
           NEW failed \in BOOLEAN, StartWrite(m, failed), UNCHANGED <<rows, feed>>
    PROVE  Journal!Next
<1>1. /\ entry'[m] \in Entry /\ entry'[m].hop = m
      /\ \A q \in Messages \ {m} : entry'[q] = entry[q]
    BY StartWriteType DEF LogInv
<1>2. Reported' = Reported \union {entry'[m]}
    BY <1>1, ReportedGrows, NoEntryIsNoEntry
<1>3. entry'[m] \notin Reported
  <2>1. \A q \in Messages : entry[q] # NoEntry => entry[q].hop = q /\ q # m
      BY DEF LogInv, HopInv
  <2> QED
      BY <1>1, <2>1 DEF Reported
<1>4. Journal!Report(entry'[m])
    BY <1>2, <1>3 DEF Journal!Report
<1> QED
    BY <1>1, <1>4 DEF Journal!Next

LEMMA FinishStep ==
    ASSUME LogInv, NEW m \in Messages, hop[m] = "running",
           msg[m].pattern \in {Business, LogQuery},
           NEW outcome \in {"returned", "threw"}, Finish(m, outcome),
           UNCHANGED <<rows, feed>>
    PROVE  Journal!Next \/ UNCHANGED Journal!journalVars
<1>1. msg[m] \in Msg /\ entry[m] = NoEntry
    BY PatternsDiffer DEF LogInv, HopInv
<1>2. CASE UNCHANGED entry
    BY <1>2 DEF Journal!journalVars, Reported
<1>3. CASE StartWrite(m, outcome = "threw")
  <2>1. (outcome = "threw") \in BOOLEAN
      OBVIOUS
  <2> QED
      BY <1>1, <1>3, <2>1, ReportStep
<1> QED
    BY <1>2, <1>3 DEF Finish

(* An executed insert records an entry that was not recorded before. *)
LEMMA RecordStep ==
    ASSUME LogInv, NEW m \in Messages, InsertRow(m)
    PROVE  Journal!Next \/ UNCHANGED Journal!journalVars
<1>1. /\ insert[m] = "sent" /\ entry[m] \in Entry /\ entry[m].hop = m
      /\ entry[m] # NoEntry
    BY NoEntryIsNoEntry DEF InsertRow, LogInv, HopInv, TypeOK
<1>2. UNCHANGED <<entry, feed>> /\ Reported' = Reported
    BY DEF InsertRow, Reported
<1>3. CASE rows' = Append(rows, entry[m])
  <2>1. entry[m] \in Reported
      BY <1>1 DEF Reported
  <2>2. entry[m] \notin Journal!ToSet(rows)
    <3>1. \A i \in DOMAIN rows : rows[i] # entry[m]
        BY <1>1 DEF LogInv, RowsInv
    <3> QED
        BY <3>1 DEF Journal!ToSet
  <2>3. Journal!Record(entry[m])
      BY <1>2, <1>3, <2>1, <2>2 DEF Journal!Record
  <2> QED
      BY <1>1, <2>3 DEF Journal!Next
<1>4. CASE rows' = rows
    BY <1>2, <1>4 DEF Journal!journalVars
<1> QED
    BY <1>3, <1>4 DEF InsertRow

(* A broadcast shows a recorded entry to the connected sockets, none of    *)
(* which has seen it.                                                      *)
LEMMA ShowStep ==
    ASSUME LogInv, NEW m \in Messages, CreateResolves(m) PROVE Journal!Next
<1> DEFINE watching == {v \in Viewers : viewer[v] # "away"}
<1>1. /\ write[m] = "waiting" /\ insert[m] = "stored"
      /\ entry[m] \in Entry /\ entry[m].hop = m
    BY NoEntryIsNoEntry DEF CreateResolves, LogInv, HopInv, TypeOK
<1>2. UNCHANGED <<entry, rows>> /\ Reported' = Reported
    BY DEF CreateResolves, Reported
<1>3. entry[m] \in Journal!ToSet(rows)
    BY <1>1 DEF LogInv, RowsInv, Journal!ToSet
<1>4. \A v \in watching : entry[m] \notin Journal!ToSet(feed[v])
  <2>1. \A v \in Viewers : \A i \in DOMAIN feed[v] : feed[v][i] # entry[m]
      BY <1>1 DEF LogInv, FeedInv
  <2> QED
      BY <2>1 DEF Journal!ToSet
<1>5. feed' = [v \in Viewers |-> IF v \in watching THEN Append(feed[v], entry[m])
                                                   ELSE feed[v]]
    BY DEF CreateResolves, EmitNewLog
<1>6. watching \in SUBSET Viewers
    OBVIOUS
<1> HIDE DEF watching
<1>7. Journal!Show(entry[m], watching)
    BY <1>2, <1>3, <1>4, <1>5 DEF Journal!Show
<1> QED
    BY <1>1, <1>6, <1>7 DEF Journal!Next

LEMMA PartStep ==
    ASSUME NEW leaving \in SUBSET Viewers, Part(leaving), UNCHANGED <<entry, rows>>
    PROVE  Journal!Next
<1>1. Journal!Part(leaving)
    BY DEF Part, Journal!Part, Reported
<1> QED
    BY <1>1 DEF Journal!Next

LEMMA JournalStep ==
    LogInv /\ [Next]_vars => [Journal!Next]_(Journal!journalVars)
<1> SUFFICES ASSUME LogInv, [Next]_vars
             PROVE  Journal!Next \/ UNCHANGED Journal!journalVars
    OBVIOUS
<1>1. CASE UNCHANGED <<entry, rows, feed>>
    BY <1>1 DEF Journal!journalVars, Reported
<1>2. ASSUME NEW m \in Messages, Deliver(m), ~UNCHANGED entry
      PROVE  Journal!Next
  <2>1. msg[m] \in Msg /\ entry[m] = NoEntry
      BY <1>2 DEF Deliver, LogInv, HopInv
  <2>2. StartWrite(m, FALSE) /\ UNCHANGED <<rows, feed>>
      BY <1>2 DEF Deliver
  <2> QED
      BY <2>1, <2>2, ReportStep
<1>3. ASSUME NEW m \in Messages, Handle(m)
      PROVE  Journal!Next \/ UNCHANGED Journal!journalVars
    BY <1>3, FinishStep DEF Handle
<1>4. ASSUME NEW m \in Messages, SelectPage(m) \/ FindAllFails(m)
      PROVE  Journal!Next \/ UNCHANGED Journal!journalVars
    BY <1>4, FinishStep DEF SelectPage, FindAllFails, Reading
<1>5. ASSUME NEW m \in Messages, InsertRow(m)
      PROVE  Journal!Next \/ UNCHANGED Journal!journalVars
    BY <1>5, RecordStep
<1>6. ASSUME NEW m \in Messages, CreateResolves(m) PROVE Journal!Next
    BY <1>6, ShowStep
<1>7. ASSUME NEW v \in Viewers, Lookup(v) \/ Disconnect(v), ~UNCHANGED feed
      PROVE  Journal!Next
  <2>1. Part({v}) /\ UNCHANGED <<entry, rows>> /\ {v} \in SUBSET Viewers
      BY <1>7 DEF Lookup, Disconnect
  <2> QED
      BY <2>1, PartStep
<1>8. CASE Crash
  <2>1. Part(Viewers) /\ UNCHANGED <<entry, rows>> /\ Viewers \in SUBSET Viewers
      BY <1>8 DEF Crash
  <2> QED
      BY <2>1, PartStep
<1>9. ASSUME NEW m \in Messages,
             \/ Send(m) \/ CountMatching(m) \/ CreateRejects(m)
             \/ Deliver(m) /\ UNCHANGED entry
      PROVE  UNCHANGED <<entry, rows, feed>>
    BY <1>9 DEF Send, CountMatching, CreateRejects, Deliver
<1>10. ASSUME NEW v \in Viewers,
              \/ Connect(v)
              \/ (Lookup(v) \/ Disconnect(v)) /\ UNCHANGED feed
       PROVE  UNCHANGED <<entry, rows, feed>>
    BY <1>10 DEF Connect, Lookup, Disconnect
<1>11. ASSUME Restart \/ BrokerRestart \/ UNCHANGED vars
       PROVE  UNCHANGED <<entry, rows, feed>>
    BY <1>11 DEF Restart, BrokerRestart, vars
<1> QED
    BY <1>1, <1>2, <1>3, <1>4, <1>5, <1>6, <1>7, <1>8, <1>9, <1>10, <1>11
       DEF Next, FindAll

(* The request log keeps the promises of RequestJournal: at most one row   *)
(* per entry, after it was reported, and nothing on a screen that is not   *)
(* in the table, through crashes, late inserts and lost answers.           *)
THEOREM JournalRefined == Spec => JournalSpec
<1>1. Init => Journal!Init
    BY DEF Init, Journal!Init, Reported
<1>2. LogInv /\ [Next]_vars => [Journal!Next]_(Journal!journalVars)
    BY JournalStep
<1> QED
    BY <1>1, <1>2, LogInvariant, PTL DEF Spec, JournalSpec, Journal!Spec
-----------------------------------------------------------------------------
(* Pages.  What was counted is still there: a page that is not the last    *)
(* announced one is full.                                                  *)
PageInv(m) ==
    /\ hop[m] = "unsent" => page[m] = NoPage
    /\ page[m].total <= Matching(msg[m].flow)
    /\ page[m].got >= 0 /\ msg[m].number * PageLimit < page[m].total
          => page[m].got = PageLimit

(* Rows only arrive, so what a flow has does not shrink.                   *)
LEMMA MatchingGrows ==
    ASSUME TypeOK, TypeOK', NEW flow,
           rows' = rows \/ \E e \in Entry : rows' = Append(rows, e)
    PROVE  /\ Matching(flow) \in Nat /\ Matching(flow)' \in Nat
           /\ Matching(flow) <= Matching(flow)'
<1> DEFINE S == {i \in DOMAIN rows : flow = NoFlow \/ rows[i].flow = flow}
           T == {i \in DOMAIN rows' : flow = NoFlow \/ rows'[i].flow = flow}
<1>1. /\ Len(rows') \in Nat /\ DOMAIN rows' = 1 .. Len(rows')
      /\ Len(rows) \in Nat /\ DOMAIN rows = 1 .. Len(rows)
      /\ rows \in Seq(Entry)
    BY DEF TypeOK
<1>2. PICK n \in Nat : n = Len(rows')
    BY <1>1
<1>3. IsFiniteSet(T)
  <2>1. IsFiniteSet(1 .. n)
      BY FS_Interval
  <2> QED
      BY <1>1, <1>2, <2>1, FS_Subset
<1>4. \A i \in DOMAIN rows : i \in DOMAIN rows' /\ rows'[i] = rows[i]
  <2>1. CASE rows' = rows
      BY <2>1
  <2>2. ASSUME NEW e \in Entry, rows' = Append(rows, e)
        PROVE  \A i \in DOMAIN rows : i \in DOMAIN rows' /\ rows'[i] = rows[i]
    <3>1. rows \in Seq(Entry) /\ rows' = Append(rows, e)
        BY <1>1, <2>2
    <3>2. Len(rows') = Len(rows) + 1
        BY <3>1
    <3>3. \A i \in 1 .. Len(rows) : rows'[i] = rows[i]
        BY <3>1
    <3>4. 1 .. Len(rows) \subseteq 1 .. Len(rows')
        BY <1>1, <3>2
    <3> QED
        BY <1>1, <3>3, <3>4
  <2> QED
      BY <2>1, <2>2
<1>5. S \subseteq T
    BY <1>4
<1>6. Matching(flow) = Cardinality(S) /\ Matching(flow)' = Cardinality(T)
    BY DEF Matching
<1> HIDE DEF S, T
<1>7. Cardinality(S) <= Cardinality(T)
    BY <1>3, <1>5, FS_Subset
<1>8. Cardinality(S) \in Nat /\ Cardinality(T) \in Nat
    BY <1>3, <1>5, FS_Subset, FS_CardinalityType
<1> QED
    BY <1>6, <1>7, <1>8

(* A page before the last of n rows is full.                               *)
LEMMA FullPage ==
    ASSUME NEW n \in Nat, NEW total \in Int, NEW number \in Nat,
           number * PageLimit < total, total <= n
    PROVE  RowsOnPage(n, number) = PageLimit
<1> DEFINE x == number * PageLimit
<1>1. (number - 1) * PageLimit = x - PageLimit /\ x \in Nat /\ PageLimit \in Nat
    BY LogAssumption
<1> HIDE DEF x
<1>2. x < total
    BY DEF x
<1>3. n - (number - 1) * PageLimit > PageLimit
    BY <1>1, <1>2
<1> QED
    BY <1>1, <1>3 DEF RowsOnPage

(* Steps that read nothing leave the pages alone.                          *)
LEMMA PageUntouched ==
    ASSUME TypeOK, TypeOK', NEW q \in Messages, PageInv(q), page'[q] = page[q],
           rows' = rows \/ \E e \in Entry : rows' = Append(rows, e),
           \/ msg'[q] = msg[q] /\ (hop'[q] = "unsent" => hop[q] = "unsent")
           \/ hop[q] = "unsent" /\ hop'[q] # "unsent"
    PROVE  PageInv(q)'
<1>1. CASE hop[q] = "unsent" /\ hop'[q] # "unsent"
  <2>1. page'[q] = NoPage
      BY <1>1 DEF PageInv
  <2>2. PICK flow : flow = msg'[q].flow
      OBVIOUS
  <2>3. Matching(flow)' \in Nat
      BY MatchingGrows
  <2>4. /\ page'[q].total = -1 /\ page'[q].got = -1
        /\ -1 <= Matching(flow)'
      BY <2>1, <2>3 DEF NoPage
  <2> QED
      BY <1>1, <2>1, <2>2, <2>4 DEF PageInv
<1>2. CASE msg'[q] = msg[q] /\ (hop'[q] = "unsent" => hop[q] = "unsent")
  <2>1. PICK flow : flow = msg[q].flow
      OBVIOUS
  <2>2. Matching(flow) \in Nat /\ Matching(flow)' \in Nat
        /\ Matching(flow) <= Matching(flow)'
      BY MatchingGrows
  <2>3. page[q].total \in Int
      BY DEF TypeOK, Page
  <2>4. page'[q].total <= Matching(flow)'
      BY <2>1, <2>2, <2>3 DEF PageInv
  <2> QED
      BY <1>2, <2>1, <2>4 DEF PageInv
<1> QED
    BY <1>1, <1>2

(* The two statements of a query: the second finds what the first counted. *)
LEMMA CountKeepsPages ==
    ASSUME LogInv, LogInv', NEW m \in Messages, CountMatching(m),
           NEW q \in Messages, PageInv(q)
    PROVE  PageInv(q)'
<1>1. /\ UNCHANGED <<msg, hop, rows>> /\ hop[m] = "running"
      /\ page[m] = NoPage
      /\ page' = [page EXCEPT ![m].total = Matching(msg[m].flow)]
    BY DEF CountMatching, Reading
<1>2. TypeOK /\ TypeOK' /\ page \in [Messages -> Page]
    BY DEF LogInv, TypeOK
<1>3. CASE q = m
  <2>1. PICK flow : flow = msg[m].flow
      OBVIOUS
  <2>2. page'[m].total = Matching(flow) /\ page'[m].got = -1
      BY <1>1, <1>2, <2>1 DEF NoPage, Page
  <2>3. Matching(flow)' = Matching(flow) /\ Matching(flow) \in Nat
      BY <1>1, <1>2, MatchingType DEF Matching
  <2>4. page'[m].total <= Matching(flow)'
      BY <2>2, <2>3
  <2> QED
      BY <1>1, <1>3, <2>1, <2>2, <2>4 DEF PageInv
<1>4. CASE q # m
  <2>1. page'[q] = page[q]
      BY <1>1, <1>2, <1>4
  <2> QED
      BY <1>1, <1>2, <2>1, PageUntouched
<1> QED
    BY <1>3, <1>4

LEMMA SelectKeepsPages ==
    ASSUME LogInv, LogInv', NEW m \in Messages, SelectPage(m),
           NEW q \in Messages, PageInv(m), PageInv(q)
    PROVE  PageInv(q)'
<1>1. /\ UNCHANGED <<msg, rows>> /\ hop[m] = "running"
      /\ hop' = [hop EXCEPT ![m] = "returned"]
      /\ page' = [page EXCEPT ![m].got =
                     RowsOnPage(Matching(msg[m].flow), msg[m].number)]
    BY DEF SelectPage, Reading, Finish
<1>2. /\ TypeOK /\ TypeOK' /\ page \in [Messages -> Page]
      /\ hop \in [Messages -> {"unsent", "queued", "running", "returned",
                               "threw", "lost"}]
    BY DEF LogInv, TypeOK
<1>3. CASE q = m
  <2>1. PICK flow : flow = msg[m].flow
      OBVIOUS
  <2>2. Matching(flow)' = Matching(flow) /\ Matching(flow) \in Nat
      BY <1>1, <1>2, MatchingType DEF Matching
  <2>3. PICK n \in Nat : n = Matching(flow)
      BY <2>2
  <2>4. msg[m].number \in 1 .. 2
    <3>1. msg[m] \in Msg
        BY <1>1 DEF LogInv, HopInv
    <3> QED
        BY <3>1 DEF Msg
  <2>5. PICK number \in Nat : number = msg[m].number
      BY <2>4
  <2>6. /\ page'[m].got = RowsOnPage(n, number)
        /\ page'[m].total = page[m].total /\ page[m].total \in Int
      BY <1>1, <1>2, <2>1, <2>3, <2>5 DEF Page
  <2>7. page[m].total <= n
      BY <2>1, <2>3 DEF PageInv
  <2>8. number * PageLimit < page'[m].total => page'[m].got = PageLimit
      BY <2>6, <2>7, FullPage
  <2>9. page'[m].total <= Matching(flow)'
      BY <2>2, <2>3, <2>6, <2>7
  <2>10. hop'[m] = "returned" /\ msg'[m].flow = flow /\ msg'[m].number = number
      BY <1>1, <1>2, <2>1, <2>5
  <2> QED
      BY <1>3, <2>8, <2>9, <2>10 DEF PageInv
<1>4. CASE q # m
  <2>1. page'[q] = page[q] /\ hop'[q] = hop[q]
      BY <1>1, <1>2, <1>4
  <2> QED
      BY <1>1, <1>2, <2>1, PageUntouched
<1> QED
    BY <1>3, <1>4

LEMMA PagesStep ==
    LogInv /\ LogInv' /\ (\A m \in Messages : PageInv(m)) /\ [Next]_vars
      => \A m \in Messages : PageInv(m)'
<1> SUFFICES ASSUME LogInv, LogInv', \A m \in Messages : PageInv(m), [Next]_vars,
                    NEW q \in Messages
             PROVE  PageInv(q)'
    OBVIOUS
<1>1. TypeOK /\ TypeOK' /\ PageInv(q)
    BY DEF LogInv
<1>2. ASSUME NEW m \in Messages, CountMatching(m) PROVE PageInv(q)'
    BY <1>1, <1>2, CountKeepsPages
<1>3. ASSUME NEW m \in Messages, SelectPage(m) PROVE PageInv(q)'
    BY <1>1, <1>3, SelectKeepsPages
<1>4. ASSUME NEW m \in Messages, Send(m) PROVE PageInv(q)'
  <2>1. /\ UNCHANGED <<page, rows>> /\ hop[m] = "unsent"
        /\ hop' = [hop EXCEPT ![m] = "queued"]
      BY <1>4 DEF Send
  <2>2. q # m => msg'[q] = msg[q] /\ hop'[q] = hop[q]
      BY <1>1, <1>4 DEF Send, TypeOK
  <2>3. hop'[m] # "unsent"
      BY <1>1, <2>1 DEF TypeOK
  <2> QED
      BY <1>1, <2>1, <2>2, <2>3, PageUntouched
<1>5. ASSUME NEW m \in Messages, InsertRow(m) PROVE PageInv(q)'
  <2>1. UNCHANGED <<page, msg, hop>>
      BY <1>5 DEF InsertRow
  <2>2. entry[m] \in Entry
      BY <1>5 DEF InsertRow, LogInv, HopInv, TypeOK
  <2>3. rows' = rows \/ \E e \in Entry : rows' = Append(rows, e)
      BY <1>5, <2>2 DEF InsertRow
  <2> QED
      BY <1>1, <2>1, <2>3, PageUntouched
<1>6. ASSUME UNCHANGED <<page, rows, msg>>,
             hop'[q] = "unsent" => hop[q] = "unsent"
      PROVE  PageInv(q)'
    BY <1>1, <1>6, PageUntouched
<1>7. ASSUME NEW m \in Messages,
             \/ Deliver(m) \/ Handle(m) \/ FindAllFails(m)
             \/ CreateResolves(m) \/ CreateRejects(m)
      PROVE  PageInv(q)'
  <2>1. UNCHANGED <<page, rows, msg>>
      BY <1>7 DEF Deliver, Handle, FindAllFails, CreateResolves, CreateRejects
  <2>2. hop'[q] = "unsent" => hop[q] = "unsent"
      BY <1>1, <1>7 DEF Deliver, Handle, FindAllFails, CreateResolves,
         CreateRejects, Finish, EndWrite, TypeOK
  <2> QED
      BY <1>6, <2>1, <2>2
<1>8. ASSUME NEW v \in Viewers, Connect(v) \/ Lookup(v) \/ Disconnect(v)
      PROVE  PageInv(q)'
  <2>1. UNCHANGED <<page, rows, msg, hop>>
      BY <1>8 DEF Connect, Lookup, Disconnect
  <2> QED
      BY <1>6, <2>1
<1>9. CASE Crash \/ Restart \/ BrokerRestart \/ UNCHANGED vars
  <2>1. UNCHANGED <<page, rows, msg>>
      BY <1>9 DEF Crash, Restart, BrokerRestart, vars
  <2>2. hop'[q] = "unsent" => hop[q] = "unsent"
      BY <1>9 DEF Crash, Restart, BrokerRestart, vars
  <2> QED
      BY <1>6, <2>1, <2>2
<1> QED
    BY <1>2, <1>3, <1>4, <1>5, <1>7, <1>8, <1>9 DEF Next, FindAll

(* Although rows arrive between the count and the select, a page that is   *)
(* not the last one announced is full, for any page size                   *)
(* (log.repository.ts findAll).                                            *)
THEOREM PagesAreFullCorrect == Spec => []PagesAreFull
<1> DEFINE Fit == \A m \in Messages : PageInv(m)
<1>1. Init => Fit
  <2> SUFFICES ASSUME Init, NEW m \in Messages PROVE PageInv(m)
      OBVIOUS
  <2>1. TypeOK
      BY InitInv DEF LogInv
  <2>2. PICK flow : flow = msg[m].flow
      OBVIOUS
  <2>3. Matching(flow) \in Nat
      BY <2>1, MatchingType
  <2>4. page[m].total = -1 /\ page[m].got = -1 /\ page[m] = NoPage
      BY DEF Init, NoPage
  <2>5. page[m].total <= Matching(flow)
      BY <2>3, <2>4
  <2> QED
      BY <2>2, <2>4, <2>5 DEF PageInv
<1>2. LogInv /\ LogInv' /\ Fit /\ [Next]_vars => Fit'
    BY PagesStep
<1>3. Fit => PagesAreFull
    BY DEF PageInv, PagesAreFull
<1> HIDE DEF Fit
<1> QED
    BY <1>1, <1>2, <1>3, LogInvariant, PTL DEF Spec
=============================================================================
