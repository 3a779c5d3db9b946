--------------------------- MODULE CaseStoreProofs ---------------------------
(***************************************************************************)
(* Type correctness of the case store: one lemma per operation's step.     *)
(***************************************************************************)
EXTENDS CaseStoreProperties, SequenceTheorems, TLAPS

LEMMA Tabulated ==
    ASSUME NEW S, NEW n \in Nat, NEW f, f \in [1..n -> S]
    PROVE  f \in Seq(S) /\ Len(f) = n
  BY SeqDef, LenProperties

LEMMA LocalType ==
    ASSUME TypeOK, NEW w \in Worker
    PROVE  /\ loc[w] \in Local
           /\ loc[w].op \in Op /\ loc[w].adding \in SUBSET Batch
           /\ loc[w].mem \in Meta /\ loc[w].recs \in Seq(Rec)
           /\ loc[w].start \in Nat /\ loc[w].done \in Nat /\ loc[w].seen \in Nat
           /\ loc[w].inc \in Nat /\ loc[w].todo \in SUBSET Entry
  <1>1. loc[w] \in Local BY DEF TypeOK, WorkerTypeOK
  <1> QED BY <1>1 DEF Local

\* The rows an INSERT adds have a natural id and a record each.
LEMMA NthRecord ==
    ASSUME TypeOK, NEW w \in Worker, NEW k \in Nat, NEW i \in 1..k,
           loc[w].done + k <= Len(loc[w].recs)
    PROVE  /\ loc[w].start + (loc[w].done + i) - 1 \in Nat
           /\ loc[w].done + i \in 1..Len(loc[w].recs)
           /\ loc[w].recs[loc[w].done + i] \in Rec
  <1>1. loc[w].start \in Nat /\ loc[w].done \in Nat /\ loc[w].recs \in Seq(Rec)
    BY LocalType
  <1>2. Len(loc[w].recs) \in Nat BY <1>1
  <1>3. loc[w].done + i \in 1..Len(loc[w].recs) BY <1>1, <1>2
  <1>4. loc[w].recs[loc[w].done + i] \in Rec BY <1>1, <1>3, ElementOfSeq
  <1>5. loc[w].start + (loc[w].done + i) - 1 \in Nat BY <1>1
  <1> QED BY <1>3, <1>4, <1>5

LEMMA RawRowsType ==
    ASSUME TypeOK, NEW w \in Worker, NEW k \in Nat,
           loc[w].done + k <= Len(loc[w].recs)
    PROVE  RawRows(w, k) \in Seq(RawRow) /\ Len(RawRows(w, k)) = k
  <1>1. ASSUME NEW i \in 1..k
        PROVE  [id |-> loc[w].start + (loc[w].done + i) - 1,
                rec |-> loc[w].recs[loc[w].done + i]] \in RawRow
    BY NthRecord DEF RawRow
  <1>2. RawRows(w, k) \in [1..k -> RawRow] BY <1>1 DEF RawRows
  <1> QED BY <1>2, Tabulated

LEMMA EventRowsType ==
    ASSUME TypeOK, NEW w \in Worker, NEW k \in Nat,
           loc[w].done + k <= Len(loc[w].recs)
    PROVE  EventRows(w, k) \in Seq(EventRow) /\ Len(EventRows(w, k)) = k
  <1>1. ASSUME NEW i \in 1..k
        PROVE  [id |-> loc[w].start + (loc[w].done + i) - 1,
                rec |-> loc[w].recs[loc[w].done + i], timed |-> FALSE] \in EventRow
    BY NthRecord DEF EventRow
  <1>2. EventRows(w, k) \in [1..k -> EventRow] BY <1>1 DEF EventRows
  <1> QED BY <1>2, Tabulated

LEMMA OrdersType ==
    ASSUME NEW rows \in Seq(RawRow), NEW s \in Orders(rows)
    PROVE  /\ s \in Seq(Rec) /\ Len(s) = Len(rows)
           /\ \A i \in 1..Len(s) : \E j \in 1..Len(rows) : rows[j].rec = s[i]
  <1>1. PICK p \in [1..Len(rows) -> 1..Len(rows)] : s = [i \in 1..Len(rows) |-> rows[p[i]].rec]
    <2>1. CASE Ascending(rows)
      <3> DEFINE id == [j \in 1..Len(rows) |-> j]
      <3>1. s = [i \in 1..Len(rows) |-> rows[i].rec] BY <2>1 DEF Orders
      <3>2. id \in [1..Len(rows) -> 1..Len(rows)] OBVIOUS
      <3>3. s = [i \in 1..Len(rows) |-> rows[id[i]].rec] BY <3>1
      <3> HIDE DEF id
      <3> QED BY <3>2, <3>3
    <2>2. CASE ~Ascending(rows)
      BY <2>2 DEF Orders, SortedBy
    <2> QED BY <2>1, <2>2
  <1>2. \A i \in 1..Len(rows) : rows[p[i]].rec \in Rec
    <2> TAKE i \in 1..Len(rows)
    <2>1. p[i] \in 1..Len(rows) OBVIOUS
    <2>2. rows[p[i]] \in RawRow BY <2>1, ElementOfSeq
    <2> QED BY <2>2 DEF RawRow
  <1>3. s \in [1..Len(rows) -> Rec] BY <1>1, <1>2
  <1>4. Len(rows) \in Nat OBVIOUS
  <1>5. s \in Seq(Rec) /\ Len(s) = Len(rows) BY <1>3, <1>4, Tabulated
  <1> QED BY <1>1, <1>5


LEMMA NewMetaType ==
    ASSUME NEW layout \in Layout
    PROVE  NewMeta(layout) \in Meta
  BY IpListAssumption DEF NewMeta, Meta

LEMMA NoLocalType == NoLocal \in Local
  <1>1. NewMeta({}) \in Meta BY NewMetaType DEF Layout
  <1> QED BY <1>1 DEF NoLocal, Local, Op, Entry

LEMMA CodeType == ASSUME NEW w \in Worker PROVE Code(w) \in Layout
  BY WorkerAssumption, ColumnsAssumption DEF Code, Layout

LEMMA RecsOfType ==
    ASSUME NEW b \in Batch
    PROVE  RecsOf(b) \in Seq(Rec) /\ Len(RecsOf(b)) = SizeOf[b]
  <1>1. RecsOf(b) \in [1..SizeOf[b] -> Rec] BY BatchAssumption DEF RecsOf, Rec
  <1> QED BY <1>1, BatchAssumption, Tabulated

LEMMA ReturnType ==
    ASSUME WorkerTypeOK, NEW w \in Worker, Return(w)
    PROVE  WorkerTypeOK'
  BY NoLocalType, BoundAssumption DEF WorkerTypeOK, Return, PC

LEMMA OpenType ==
    ASSUME TypeOK, NEW w \in Worker, NEW f \in File, Open(w, f)
    PROVE  cur' \in 0..MaxFiles /\ made' \in 0..MaxFiles
  BY BoundAssumption DEF TypeOK, DbTypeOK, Open, File

LEMMA InitType == Init => TypeOK
  <1> SUFFICES ASSUME Init PROVE TypeOK OBVIOUS
  <1>1. WorkerTypeOK BY NoLocalType, BoundAssumption DEF Init, WorkerTypeOK, PC
  <1>2. CounterTypeOK BY DEF Init, CounterTypeOK
  <1>3. EmptyFile \in DbFile BY DEF EmptyFile, DbFile, Table, Layout
  <1>4. CASE NoCase
    <2>1. MetaTypeOK BY <1>4, NewMetaType DEF Init, NoCase, MetaTypeOK, MetaState, Layout
    <2>2. DbTypeOK BY <1>3, <1>4, BoundAssumption DEF NoCase, DbTypeOK
    <2> QED BY <1>1, <1>2, <2>1, <2>2 DEF TypeOK
  <1>5. CASE \E b \in Batch, layout \in OldLayouts : EarlierCase(b, layout)
    <2> PICK b \in Batch, layout \in OldLayouts : EarlierCase(b, layout) BY <1>5
    <2> DEFINE raw    == [i \in 1..SizeOf[b] |-> [id |-> i - 1, rec |-> RecsOf(b)[i]]]
               events == [i \in 1..SizeOf[b] |->
                            [id |-> i - 1, rec |-> RecsOf(b)[i], timed |-> TRUE]]
    <2>1. layout \in Layout BY ColumnsAssumption DEF Layout
    <2>2. SizeOf[b] \in Nat BY BatchAssumption
    <2>3. MetaTypeOK
      <3>1. NewMeta(layout) \in Meta BY <2>1, NewMetaType
      <3>2. <<b>> \in Seq(Batch) OBVIOUS
      <3>3. meta \in Meta BY <2>2, <3>1, <3>2 DEF EarlierCase, Meta
      <3> QED BY <3>3 DEF Init, EarlierCase, MetaTypeOK, MetaState
    <2>4. \A i \in 1..SizeOf[b] : RecsOf(b)[i] \in Rec BY RecsOfType, ElementOfSeq
    <2>5. raw \in Seq(RawRow)
      <3>1. raw \in [1..SizeOf[b] -> RawRow] BY <2>2, <2>4 DEF RawRow
      <3> QED BY <2>2, <3>1, Tabulated
    <2>6. events \in Seq(EventRow)
      <3>1. events \in [1..SizeOf[b] -> EventRow] BY <2>2, <2>4 DEF EventRow
      <3> QED BY <2>2, <3>1, Tabulated
    <2>7. EarlierFile(b, layout) \in DbFile
      BY <2>1, <2>5, <2>6 DEF EarlierFile, DbFile
    <2>8. DbTypeOK BY <1>3, <2>7, BoundAssumption DEF EarlierCase, DbTypeOK
    <2> QED BY <1>1, <1>2, <2>3, <2>8 DEF TypeOK
  <1> QED BY <1>4, <1>5 DEF Init

-----------------------------------------------------------------------------
(* Type correctness of a step.  Most actions move one worker: what they do  *)
(* to the worker is WorkerTypeOK', to case.json MetaTypeOK', and so on.      *)

LEMMA BeginType ==
    ASSUME TypeOK, NEW w \in Worker, Begin(w)
    PROVE  DbTypeOK' /\ CounterTypeOK'
  BY DEF TypeOK, DbTypeOK, CounterTypeOK, Begin, dbVars

LEMMA AppendRecordsType ==
    ASSUME TypeOK, NEW w \in Worker, NEW b \in Batch, NEW force, AppendRecords(w, b, force)
    PROVE  TypeOK'
  <1>1. DbTypeOK' /\ CounterTypeOK' BY BeginType DEF AppendRecords
  <1>2. MetaTypeOK' BY DEF TypeOK, MetaTypeOK, AppendRecords, metaVars
  <1>3. [NoLocal EXCEPT !.op = "append", !.adding = {b}, !.mem = meta, !.recs = RecsOf(b)] \in Local
    BY NoLocalType, RecsOfType DEF TypeOK, MetaTypeOK, Local, Op
  <1>4. WorkerTypeOK'
    BY <1>3 DEF TypeOK, WorkerTypeOK, AppendRecords, Begin, Goto, PC
  <1> QED BY <1>1, <1>2, <1>4 DEF TypeOK

LEMMA OpenDbType ==
    ASSUME TypeOK, NEW w \in Worker, NEW from, NEW to \in PC, OpenDb(w, from, to)
    PROVE  TypeOK'
  <1>1. MetaTypeOK' /\ CounterTypeOK'
    BY DEF TypeOK, MetaTypeOK, CounterTypeOK, OpenDb, metaVars
  <1>2. DbTypeOK' BY OpenType DEF TypeOK, DbTypeOK, OpenDb
  <1>3. WorkerTypeOK'
    BY BoundAssumption DEF TypeOK, WorkerTypeOK, OpenDb, Goto, File
  <1> QED BY <1>1, <1>2, <1>3 DEF TypeOK

LEMMA InDbType ==
    ASSUME TypeOK, NEW w \in Worker, NEW label, InDb(w, label)
    PROVE  /\ MetaTypeOK' /\ CounterTypeOK'
           /\ handle[w] \in File /\ db[handle[w]] \in DbFile
           /\ cur' = cur /\ made' = made
  BY DEF TypeOK, MetaTypeOK, CounterTypeOK, DbTypeOK, WorkerTypeOK, InDb, metaVars, File

LEMMA AppendStartType ==
    ASSUME TypeOK, NEW w \in Worker, AppendStart(w)
    PROVE  TypeOK'
  <1>1. MetaTypeOK' /\ CounterTypeOK' BY InDbType DEF AppendStart
  <1>2. DbTypeOK' BY DEF TypeOK, DbTypeOK, AppendStart, InDb
  <1>3. PICK n \in 0..MaxRowId : loc' = [loc EXCEPT ![w].start = n] BY DEF AppendStart
  <1>4. n \in Nat BY BoundAssumption
  <1>5. [loc[w] EXCEPT !.start = n] \in Local BY <1>4, LocalType DEF Local
  <1>6. WorkerTypeOK'
    BY <1>3, <1>5 DEF TypeOK, WorkerTypeOK, AppendStart, RawFirst, Goto, PC
  <1> QED BY <1>1, <1>2, <1>6 DEF TypeOK

LEMMA AppendRawType ==
    ASSUME TypeOK, NEW w \in Worker, AppendRaw(w)
    PROVE  TypeOK'
  <1>1. MetaTypeOK' /\ CounterTypeOK' BY InDbType DEF AppendRaw
  <1>2. handle[w] \in File /\ db[handle[w]] \in DbFile /\ cur' = cur /\ made' = made
    BY InDbType DEF AppendRaw
  <1>3. PICK k \in 1..(Len(loc[w].recs) - loc[w].done) :
          /\ db' = [db EXCEPT ![handle[w]].raw = @ \o RawRows(w, k)]
          /\ IF loc[w].done + k = Len(loc[w].recs)
             THEN /\ loc' = [loc EXCEPT ![w].done = 0]
                  /\ Goto(w, "insert")
             ELSE /\ loc' = [loc EXCEPT ![w].done = @ + k]
                  /\ UNCHANGED pc
    BY DEF AppendRaw
  <1>4. Len(loc[w].recs) \in Nat /\ loc[w].done \in Nat BY LocalType
  <1>5. k \in Nat /\ loc[w].done + k <= Len(loc[w].recs) BY <1>4
  <1>6. DbTypeOK'
    <2>1. db[handle[w]].raw \o RawRows(w, k) \in Seq(RawRow)
      BY <1>2, <1>5, RawRowsType, ConcatProperties DEF DbFile
    <2>2. [db[handle[w]] EXCEPT !.raw = @ \o RawRows(w, k)] \in DbFile
      BY <1>2, <2>1 DEF DbFile
    <2> QED BY <1>2, <1>3, <2>2 DEF TypeOK, DbTypeOK
  <1>7. WorkerTypeOK'
    <2>1. loc[w].done + k \in Nat BY <1>4, <1>5
    <2>2. [loc[w] EXCEPT !.done = 0] \in Local BY LocalType DEF Local
    <2>3. [loc[w] EXCEPT !.done = @ + k] \in Local BY <2>1, LocalType DEF Local
    <2> QED BY <1>3, <2>2, <2>3 DEF TypeOK, WorkerTypeOK, AppendRaw, Goto, PC
  <1> QED BY <1>1, <1>6, <1>7 DEF TypeOK

LEMMA InsertRecordsType ==
    ASSUME TypeOK, NEW w \in Worker, InsertRecords(w)
    PROVE  TypeOK'
  <1>1. MetaTypeOK' /\ CounterTypeOK' BY InDbType DEF InsertRecords
  <1>2. handle[w] \in File /\ db[handle[w]] \in DbFile /\ cur' = cur /\ made' = made
    BY InDbType DEF InsertRecords
  <1>3. PICK k \in 1..(Len(loc[w].recs) - loc[w].done) :
          /\ db' = [db EXCEPT ![handle[w]].events = @ \o EventRows(w, k)]
          /\ loc' = [loc EXCEPT ![w].done = @ + k]
    BY DEF InsertRecords
  <1>4. Len(loc[w].recs) \in Nat /\ loc[w].done \in Nat BY LocalType
  <1>5. k \in Nat /\ loc[w].done + k <= Len(loc[w].recs) BY <1>4
  <1>6. DbTypeOK'
    <2>1. db[handle[w]].events \o EventRows(w, k) \in Seq(EventRow)
      BY <1>2, <1>5, EventRowsType, ConcatProperties DEF DbFile
    <2>2. [db[handle[w]] EXCEPT !.events = @ \o EventRows(w, k)] \in DbFile
      BY <1>2, <2>1 DEF DbFile
    <2> QED BY <1>2, <1>3, <2>2 DEF TypeOK, DbTypeOK
  <1>7. WorkerTypeOK'
    <2>1. [loc[w] EXCEPT !.done = @ + k] \in Local
      BY <1>4, <1>5, LocalType DEF Local
    <2> QED BY <1>3, <2>1 DEF TypeOK, WorkerTypeOK, InsertRecords, Goto, PC
  <1> QED BY <1>1, <1>6, <1>7 DEF TypeOK

LEMMA CreateType ==
    ASSUME TypeOK, NEW w \in Worker, Create(w)
    PROVE  TypeOK'
  <1>1. DbTypeOK' /\ CounterTypeOK' BY BeginType DEF Create
  <1>2. MetaTypeOK' BY DEF TypeOK, MetaTypeOK, Create
  <1>3. [loc[w] EXCEPT !.op = "create"] \in Local BY LocalType DEF Local, Op
  <1>4. WorkerTypeOK'
    BY <1>3 DEF TypeOK, WorkerTypeOK, Create, Begin, Goto, PC
  <1> QED BY <1>1, <1>2, <1>4 DEF TypeOK

LEMMA CreateTablesType ==
    ASSUME TypeOK, NEW w \in Worker, CreateTables(w)
    PROVE  TypeOK'
  <1>1. MetaTypeOK' /\ CounterTypeOK'
    BY DEF TypeOK, MetaTypeOK, CounterTypeOK, CreateTables, metaVars
  <1>2. PICK f \in File :
          /\ Open(w, f)
          /\ db' = [db EXCEPT ![f] = [db[f] EXCEPT
                       !.tables = Table,
                       !.layout = LayoutUsed(w, f)]]
    BY DEF CreateTables
  <1>3. DbTypeOK'
    <2>1. db[f] \in DbFile BY DEF TypeOK, DbTypeOK
    <2>2. [db[f] EXCEPT !.tables = Table,
                        !.layout = LayoutUsed(w, f)] \in DbFile
      BY <2>1, CodeType DEF DbFile, LayoutUsed
    <2>3. db' \in [File -> DbFile]
      BY <1>2, <2>2 DEF TypeOK, DbTypeOK
    <2> QED BY <1>2, <2>3, OpenType DEF TypeOK, DbTypeOK
  <1>4. [loc[w] EXCEPT !.mem = NewMeta(Code(w))] \in Local
    BY LocalType, CodeType, NewMetaType DEF Local
  <1>5. WorkerTypeOK'
    BY <1>4 DEF TypeOK, WorkerTypeOK, CreateTables, Goto, PC
  <1> QED BY <1>1, <1>3, <1>5 DEF TypeOK

LEMMA AppendCountType ==
    ASSUME TypeOK, NEW w \in Worker, AppendCount(w)
    PROVE  TypeOK'
  <1>1. MetaTypeOK' /\ CounterTypeOK' BY InDbType DEF AppendCount
  <1>2. DbTypeOK' BY DEF TypeOK, DbTypeOK, AppendCount, InDb
  <1>3. PICK b \in loc[w].adding : loc' = [loc EXCEPT ![w].mem = WithSource(w, b)]
    BY DEF AppendCount
  <1>4. Len(db[handle[w]].events) \in Nat BY InDbType DEF AppendCount, DbFile
  <1>5. Append(loc[w].mem.sources, b) \in Seq(Batch) BY LocalType DEF Meta
  <1>6. WithSource(w, b) \in Meta
    BY <1>4, <1>5, LocalType DEF WithSource, Meta
  <1>7. [loc[w] EXCEPT !.mem = WithSource(w, b)] \in Local
    BY <1>6, LocalType DEF Local
  <1>8. loc' = [loc EXCEPT ![w] = [loc[w] EXCEPT !.mem = WithSource(w, b)]]
    BY <1>3, LocalType DEF TypeOK, WorkerTypeOK, Local
  <1>9. WorkerTypeOK'
    <2>1. loc' \in [Worker -> Local] BY <1>7, <1>8 DEF TypeOK, WorkerTypeOK
    <2>2. pc' \in [Worker -> PC] BY DEF TypeOK, WorkerTypeOK, AppendCount, Goto, PC
    <2>3. handle' \in [Worker -> 0..MaxFiles]
      BY BoundAssumption DEF TypeOK, WorkerTypeOK, AppendCount
    <2> QED BY <2>1, <2>2, <2>3 DEF WorkerTypeOK
  <1> QED BY <1>1, <1>2, <1>9 DEF TypeOK

LEMMA StampedType ==
    ASSUME NEW rows \in Seq(EventRow), NEW start \in Nat
    PROVE  Stamped(rows, start) \in Seq(EventRow) /\ Len(Stamped(rows, start)) = Len(rows)
  <1>1. ASSUME NEW i \in 1..Len(rows)
        PROVE  [rows[i] EXCEPT !.timed = @ \/ rows[i].id >= start] \in EventRow
    <2>1. rows[i] \in EventRow BY ElementOfSeq
    <2>2. (rows[i].timed \/ rows[i].id >= start) \in BOOLEAN OBVIOUS
    <2> QED BY <2>1, <2>2 DEF EventRow
  <1>2. Stamped(rows, start) \in [1..Len(rows) -> EventRow] BY <1>1 DEF Stamped
  <1>3. Len(rows) \in Nat OBVIOUS
  <1> QED BY <1>2, <1>3, Tabulated

LEMMA StampTimesType ==
    ASSUME TypeOK, NEW w \in Worker, StampTimes(w)
    PROVE  TypeOK'
  <1>1. MetaTypeOK' /\ CounterTypeOK' BY InDbType DEF StampTimes
  <1>2. handle[w] \in File /\ db[handle[w]] \in DbFile /\ cur' = cur /\ made' = made
    BY InDbType DEF StampTimes
  <1>3. Stamped(db[handle[w]].events, loc[w].start) \in Seq(EventRow)
    BY <1>2, LocalType, StampedType DEF DbFile
  <1>4. [db[handle[w]] EXCEPT !.events = Stamped(db[handle[w]].events, loc[w].start)] \in DbFile
    BY <1>2, <1>3 DEF DbFile
  <1>5. db' = [db EXCEPT ![handle[w]] = [db[handle[w]] EXCEPT !.events = Stamped(db[handle[w]].events, loc[w].start)]]
    BY <1>2 DEF StampTimes, TypeOK, DbTypeOK
  <1>7. DbTypeOK' BY <1>2, <1>4, <1>5 DEF TypeOK, DbTypeOK
  <1>8. WorkerTypeOK' BY DEF TypeOK, WorkerTypeOK, StampTimes, Goto, PC
  <1> QED BY <1>1, <1>7, <1>8 DEF TypeOK

LEMMA ConnectType ==
    ASSUME TypeOK, NEW w \in Worker, Connect(w)
    PROVE  TypeOK'
  <1>1. DbTypeOK' /\ CounterTypeOK' BY BeginType DEF Connect
  <1>2. MetaTypeOK' BY DEF TypeOK, MetaTypeOK, Connect, metaVars
  <1>3. [NoLocal EXCEPT !.op = "analyze", !.mem = meta] \in Local
    BY NoLocalType DEF TypeOK, MetaTypeOK, Local, Op
  <1>4. WorkerTypeOK'
    BY <1>3 DEF TypeOK, WorkerTypeOK, Connect, Begin, Goto, PC
  <1> QED BY <1>1, <1>2, <1>4 DEF TypeOK

LEMMA RebuildReadType ==
    ASSUME TypeOK, NEW w \in Worker, RebuildRead(w)
    PROVE  TypeOK'
  <1>1. MetaTypeOK' /\ CounterTypeOK' BY InDbType DEF RebuildRead
  <1>2. DbTypeOK' BY DEF TypeOK, DbTypeOK, RebuildRead, InDb
  <1>3. PICK recs \in Orders(db[handle[w]].raw) :
          loc' = [loc EXCEPT ![w] = [@ EXCEPT !.recs = recs, !.start = 0, !.done = 0]]
    BY DEF RebuildRead
  <1>4. recs \in Seq(Rec) BY InDbType, OrdersType DEF RebuildRead, DbFile
  <1>5. [loc[w] EXCEPT !.recs = recs, !.start = 0, !.done = 0] \in Local
    BY <1>4, LocalType DEF Local
  <1>6. loc' = [loc EXCEPT ![w] = [loc[w] EXCEPT !.recs = recs, !.start = 0, !.done = 0]]
    BY <1>3, LocalType DEF TypeOK, WorkerTypeOK, Local
  <1>7. WorkerTypeOK'
    BY <1>5, <1>6 DEF TypeOK, WorkerTypeOK, RebuildRead, Goto, PC
  <1> QED BY <1>1, <1>2, <1>7 DEF TypeOK

LEMMA RebuildTablesType ==
    ASSUME TypeOK, NEW w \in Worker, RebuildDrop(w) \/ RebuildCreate(w)
    PROVE  TypeOK'
  <1>1. MetaTypeOK' /\ CounterTypeOK' /\ handle[w] \in File /\ db[handle[w]] \in DbFile
        /\ cur' = cur /\ made' = made
    BY InDbType DEF RebuildDrop, RebuildCreate
  <1>2. [db[handle[w]] EXCEPT !.tables = db[handle[w]].tables \ {"events"},
                               !.events = <<>>] \in DbFile
    <2>1. db[handle[w]].tables \ {"events"} \in SUBSET Table BY <1>1 DEF DbFile
    <2>2. <<>> \in Seq(EventRow) BY EmptySeq
    <2> QED BY <1>1, <2>1, <2>2 DEF DbFile
  <1>3. [db[handle[w]] EXCEPT !.tables = db[handle[w]].tables \cup {"events"},
           !.layout = LayoutUsed(w, handle[w])] \in DbFile
    BY <1>1, CodeType DEF DbFile, Table, LayoutUsed
  <1>4. DbTypeOK'
    <2>1. CASE RebuildDrop(w)
      <3>1. db' \in [File -> DbFile]
        BY <1>1, <1>2, <2>1 DEF RebuildDrop, TypeOK, DbTypeOK
      <3> QED BY <1>1, <3>1 DEF TypeOK, DbTypeOK
    <2>2. CASE RebuildCreate(w)
      <3>1. db' \in [File -> DbFile]
        BY <1>1, <1>3, <2>2 DEF RebuildCreate, TypeOK, DbTypeOK
      <3> QED BY <1>1, <3>1 DEF TypeOK, DbTypeOK
    <2> QED BY <2>1, <2>2
  <1>5. WorkerTypeOK'
    BY DEF TypeOK, WorkerTypeOK, RebuildDrop, RebuildCreate, Goto, PC
  <1> QED BY <1>1, <1>4, <1>5 DEF TypeOK

LEMMA LoadType ==
    ASSUME TypeOK, NEW w \in Worker, RebuildLoad(w) \/ DigestLoad(w)
    PROVE  TypeOK'
  <1>1. MetaTypeOK' /\ DbTypeOK' /\ CounterTypeOK'
    BY DEF TypeOK, MetaTypeOK, DbTypeOK, CounterTypeOK, RebuildLoad, DigestLoad, metaVars, dbVars
  <1>2. CASE Return(w)
    <2>1. WorkerTypeOK' BY <1>2, ReturnType DEF TypeOK
    <2> QED BY <1>1, <2>1 DEF TypeOK
  <1>3. CASE RebuildLoad(w) /\ ~Return(w)
    <2>1. Len(loc[w].recs) \in Nat BY LocalType
    <2>2. [meta EXCEPT !.fingerprint = Code(w), !.record_count = Len(loc[w].recs)] \in Meta
      BY <2>1, CodeType DEF TypeOK, MetaTypeOK, Meta
    <2>3. [loc[w] EXCEPT !.mem = [meta EXCEPT !.fingerprint = Code(w),
                                     !.record_count = Len(loc[w].recs)]] \in Local
      BY <2>2, LocalType DEF Local
    <2>4. WorkerTypeOK' BY <1>3, <2>3 DEF TypeOK, WorkerTypeOK, RebuildLoad, Goto, PC
    <2> QED BY <1>1, <2>4 DEF TypeOK
  <1>4. CASE DigestLoad(w) /\ ~Return(w)
    <2>1. [meta EXCEPT !.digest = loc[w].seen] \in Meta
      BY LocalType DEF TypeOK, MetaTypeOK, Meta
    <2>2. [loc[w] EXCEPT !.mem = [meta EXCEPT !.digest = loc[w].seen]] \in Local
      BY <2>1, LocalType DEF Local
    <2>3. WorkerTypeOK' BY <1>4, <2>2 DEF TypeOK, WorkerTypeOK, DigestLoad, Goto, PC
    <2> QED BY <1>1, <2>3 DEF TypeOK
  <1> QED BY <1>2, <1>3, <1>4

LEMMA CloseType ==
    ASSUME TypeOK, NEW w \in Worker, RebuildClose(w) \/ AnalyzeRead(w)
    PROVE  TypeOK'
  <1>1. MetaTypeOK' /\ CounterTypeOK' BY InDbType DEF RebuildClose, AnalyzeRead
  <1>2. DbTypeOK' BY DEF TypeOK, DbTypeOK, RebuildClose, AnalyzeRead, InDb
  <1>3. WorkerTypeOK'
    <2>1. CASE RebuildClose(w)
      BY <2>1, BoundAssumption DEF TypeOK, WorkerTypeOK, RebuildClose, Goto, PC
    <2>2. CASE AnalyzeRead(w) /\ Return(w)
      BY <2>2, ReturnType DEF TypeOK
    <2>3. CASE AnalyzeRead(w) /\ ~Return(w)
      <3>1. Len(db[handle[w]].events) \in Nat BY <2>3, InDbType DEF AnalyzeRead, DbFile
      <3>2. [loc[w] EXCEPT !.op = "digest", !.seen = Len(db[handle[w]].events)] \in Local
        BY <3>1, LocalType DEF Local, Op
      <3>3. loc' = [loc EXCEPT ![w] =
                      [loc[w] EXCEPT !.op = "digest", !.seen = Len(db[handle[w]].events)]]
        BY <2>3, LocalType DEF AnalyzeRead, TypeOK, WorkerTypeOK, Local
      <3>4. pc' = [pc EXCEPT ![w] = "digest_load"] /\ handle' = [handle EXCEPT ![w] = 0]
        BY <2>3 DEF AnalyzeRead, Goto
      <3> QED BY <3>2, <3>3, <3>4, BoundAssumption DEF TypeOK, WorkerTypeOK, PC
    <2> QED BY <2>1, <2>2, <2>3
  <1> QED BY <1>1, <1>2, <1>3 DEF TypeOK

LEMMA EditType ==
    ASSUME TypeOK, NEW w \in Worker, NEW op \in Op, NEW doc \in Meta, Edit(w, op, doc)
    PROVE  TypeOK'
  <1>1. DbTypeOK' /\ CounterTypeOK' BY BeginType DEF Edit
  <1>2. MetaTypeOK' BY DEF TypeOK, MetaTypeOK, Edit, metaVars
  <1>3. [NoLocal EXCEPT !.op = op, !.mem = doc] \in Local BY NoLocalType DEF Local
  <1>4. WorkerTypeOK' BY <1>3 DEF TypeOK, WorkerTypeOK, Edit, Begin, Goto, PC
  <1> QED BY <1>1, <1>2, <1>4 DEF TypeOK

LEMMA NoteType ==
    ASSUME TypeOK, NEW w \in Worker, NEW text \in Text, Note(w, text)
    PROVE  TypeOK'
  <1>1. Append(meta.notes, text) \in Seq(Text) BY DEF TypeOK, MetaTypeOK, Meta
  <1>2. [meta EXCEPT !.notes = Append(@, text)] \in Meta
    BY <1>1 DEF TypeOK, MetaTypeOK, Meta
  <1> QED BY <1>2, EditType DEF Note, Op

LEMMA SetInfrastructureIpsType ==
    ASSUME TypeOK, NEW w \in Worker, NEW ips \in IpList, SetInfrastructureIps(w, ips)
    PROVE  TypeOK'
  <1>1. [meta EXCEPT !.infrastructure_ips = ips] \in Meta
    BY DEF TypeOK, MetaTypeOK, Meta
  <1> QED BY <1>1, EditType DEF SetInfrastructureIps, Op

LEMMA TruncateType ==
    ASSUME TypeOK, NEW w \in Worker, Truncate(w)
    PROVE  TypeOK'
  <1>1. DbTypeOK' /\ CounterTypeOK' BY DEF TypeOK, DbTypeOK, CounterTypeOK, Truncate, dbVars
  <1>2. MetaTypeOK' BY DEF TypeOK, MetaTypeOK, MetaState, Truncate
  <1>3. WorkerTypeOK'
    <2>1. CASE dir
      <3>1. [loc[w] EXCEPT !.inc = metaInc] \in Local
        BY LocalType DEF TypeOK, MetaTypeOK, Local
      <3> QED BY <2>1, <3>1 DEF TypeOK, WorkerTypeOK, Truncate, Goto, PC
    <2>2. CASE ~dir
      BY <2>2, ReturnType DEF TypeOK, Truncate
    <2> QED BY <2>1, <2>2
  <1> QED BY <1>1, <1>2, <1>3 DEF TypeOK

LEMMA WriteType ==
    ASSUME TypeOK, NEW w \in Worker, Write(w)
    PROVE  TypeOK'
  <1>1. DbTypeOK' /\ CounterTypeOK' BY DEF TypeOK, DbTypeOK, CounterTypeOK, Write, dbVars
  <1>2. MetaTypeOK' BY LocalType DEF TypeOK, MetaTypeOK, MetaState, Write
  <1>3. WorkerTypeOK'
    <2>1. CASE loc[w].op = "analyze"
      BY <2>1 DEF TypeOK, WorkerTypeOK, Write, Goto, PC
    <2>2. CASE loc[w].op # "analyze"
      BY <2>2, ReturnType DEF TypeOK, Write
    <2> QED BY <2>1, <2>2
  <1> QED BY <1>1, <1>2, <1>3 DEF TypeOK

LEMMA DeleteType ==
    ASSUME TypeOK, NEW w \in Worker, Delete(w)
    PROVE  TypeOK'
  <1>1. DbTypeOK' /\ CounterTypeOK' BY BeginType DEF Delete
  <1>2. MetaTypeOK' BY DEF TypeOK, MetaTypeOK, Delete, metaVars
  <1>3. PICK todo \in SUBSET Entry :
          loc' = [loc EXCEPT ![w] = [NoLocal EXCEPT !.op = "delete", !.todo = todo]]
    BY DEF Delete
  <1>4. [NoLocal EXCEPT !.op = "delete", !.todo = todo] \in Local
    BY NoLocalType DEF Local, Op
  <1>5. WorkerTypeOK' BY <1>3, <1>4 DEF TypeOK, WorkerTypeOK, Delete, Begin, Goto, PC
  <1> QED BY <1>1, <1>2, <1>5 DEF TypeOK

LEMMA UnlinkType ==
    ASSUME TypeOK, NEW w \in Worker, Unlink(w)
    PROVE  TypeOK'
  <1>1. CounterTypeOK' BY DEF TypeOK, CounterTypeOK, Unlink
  <1>2. MetaTypeOK' BY DEF TypeOK, MetaTypeOK, MetaState, Unlink
  <1>3. DbTypeOK' BY BoundAssumption DEF TypeOK, DbTypeOK, Unlink
  <1>4. WorkerTypeOK'
    <2>1. CASE Return(w) BY <2>1, ReturnType DEF TypeOK
    <2>2. CASE ~Return(w)
      <3>1. PICK e \in loc[w].todo : loc' = [loc EXCEPT ![w].todo = @ \ {e}]
        BY <2>2 DEF Unlink
      <3>2. [loc[w] EXCEPT !.todo = @ \ {e}] \in Local BY LocalType DEF Local
      <3> QED BY <2>2, <3>1, <3>2 DEF TypeOK, WorkerTypeOK, Unlink
    <2> QED BY <2>1, <2>2
  <1> QED BY <1>1, <1>2, <1>3, <1>4 DEF TypeOK

LEMMA EndType ==
    ASSUME TypeOK, NEW w \in Worker,
           RmDir(w) \/ OpenRefused(w) \/ DbError(w) \/ Fail(w)
    PROVE  TypeOK'
  <1>1. WorkerTypeOK'
    BY ReturnType DEF TypeOK, RmDir, OpenRefused, DbError, Fail
  <1>2. CASE RmDir(w)
    <2>1. MetaTypeOK' BY <1>2 DEF TypeOK, MetaTypeOK, RmDir
    <2>2. DbTypeOK' /\ CounterTypeOK'
      BY <1>2 DEF TypeOK, DbTypeOK, CounterTypeOK, RmDir, dbVars
    <2> QED BY <1>1, <2>1, <2>2 DEF TypeOK
  <1>3. CASE OpenRefused(w) \/ DbError(w) \/ Fail(w)
    <2>1. MetaTypeOK' /\ DbTypeOK'
      BY <1>3 DEF TypeOK, MetaTypeOK, DbTypeOK, OpenRefused, DbError, Fail, metaVars, dbVars
    <2>2. CounterTypeOK'
      BY <1>3 DEF TypeOK, CounterTypeOK, OpenRefused, DbError, Fail
    <2> QED BY <1>1, <2>1, <2>2 DEF TypeOK
  <1> QED BY <1>2, <1>3

LEMMA StepType == ASSUME TypeOK, NEW w \in Worker, Step(w) PROVE TypeOK'
  <1>1. CASE Create(w) \/ CreateTables(w)
    BY <1>1, CreateType, CreateTablesType
  <1>2. CASE \E b \in Batch, force \in {FALSE, ForceAllowed} : AppendRecords(w, b, force)
    BY <1>2, AppendRecordsType
  <1>3. CASE AppendOpen(w) \/ RebuildOpen(w) \/ AnalyzeOpen(w)
    BY <1>3, OpenDbType DEF AppendOpen, RebuildOpen, AnalyzeOpen, PC
  <1>4. CASE AppendStart(w) \/ AppendRaw(w) \/ AppendCount(w)
    BY <1>4, AppendStartType, AppendRawType, AppendCountType
  <1>5. CASE InsertRecords(w) \/ StampTimes(w)
    BY <1>5, InsertRecordsType, StampTimesType
  <1>6. CASE Connect(w) \/ RebuildRead(w) \/ RebuildDrop(w) \/ RebuildCreate(w)
    BY <1>6, ConnectType, RebuildReadType, RebuildTablesType
  <1>7. CASE RebuildClose(w) \/ RebuildLoad(w) \/ AnalyzeRead(w) \/ DigestLoad(w)
    BY <1>7, CloseType, LoadType
  <1>8. CASE \E text \in Text : Note(w, text)
    BY <1>8, NoteType
  <1>9. CASE \E ips \in IpList : SetInfrastructureIps(w, ips)
    BY <1>9, SetInfrastructureIpsType
  <1>10. CASE Truncate(w) \/ Write(w)
    BY <1>10, TruncateType, WriteType
  <1>11. CASE Delete(w) \/ Unlink(w)
    BY <1>11, DeleteType, UnlinkType
  <1>12. CASE RmDir(w) \/ OpenRefused(w) \/ DbError(w) \/ Fail(w)
    BY <1>12, EndType
  <1> QED
    BY <1>1, <1>2, <1>3, <1>4, <1>5, <1>6, <1>7, <1>8, <1>9, <1>10, <1>11, <1>12 DEF Step

LEMMA StutterType == ASSUME TypeOK, UNCHANGED vars PROVE TypeOK'
  BY DEF TypeOK, MetaTypeOK, DbTypeOK, WorkerTypeOK, CounterTypeOK, vars, metaVars, dbVars

\* Whatever the workers, processes and failures, the case's files and the
\* operations on them keep the types the code gives them: in particular
\* case.json, when complete, is always a whole document of the store.
THEOREM TypeCorrect == Spec => []TypeOK
  <1>1. Init => TypeOK BY InitType
  <1>2. TypeOK /\ [Next]_vars => TypeOK' BY StepType, StutterType DEF Next
  <1> QED BY <1>1, <1>2, PTL DEF Spec

=============================================================================
