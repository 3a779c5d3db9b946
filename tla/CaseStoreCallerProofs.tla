------------------------ MODULE CaseStoreCallerProofs ------------------------
(***************************************************************************)
(* A case with one caller at a time.  What it finds in case.json and in    *)
(* the tables when nothing fails (CountsAgree), what an analysis sees when *)
(* things do (AnalysisSeesEverySource), and that a store nothing fails in  *)
(* is the ledger of CaseLedger.                                            *)
(***************************************************************************)
EXTENDS CaseStoreSafetyProofs, FiniteSetTheorems

\* Operations of a case follow one another.
OneCaller == \A v, w \in Worker : v = w

\* A connection is open in the sections only, and to the file at the path.
Holds(w) == handle[w] = IF InSection(w) THEN cur ELSE 0

\* Files that were never opened are empty.
Fresh == cur <= made /\ \A f \in File : f > made => db[f] = EmptyFile

\* What a lone worker has open, and that nobody shares it.
LEMMA HeldFile ==
    ASSUME OneCaller, TypeOK, WorkersOK, NEW w \in Worker, Holds(w)
    PROVE  /\ InSection(w) => handle[w] = cur /\ cur \in File /\ cur # 0 /\ db[cur] \in DbFile
           /\ ~InSection(w) => Shared(w) = {} /\ handle[w] = 0
           /\ cur # 0 => cur \in File /\ db[cur] \in DbFile
           /\ cur \in 0..MaxFiles
  <1>1. cur # 0 => cur \in File /\ db[cur] \in DbFile BY DEF TypeOK, DbTypeOK, File
  <1>2. ~InSection(w) => Shared(w) = {} /\ handle[w] = 0
    <2> SUFFICES ASSUME ~InSection(w) PROVE Shared(w) = {} /\ handle[w] = 0 OBVIOUS
    <2>1. handle[w] = 0 BY DEF Holds
    <2>2. \A v \in Worker : handle[v] = 0 BY <2>1 DEF OneCaller
    <2> QED BY <2>1, <2>2 DEF Shared
  <1>3. InSection(w) => handle[w] = cur /\ cur \in File /\ cur # 0
    <2> SUFFICES ASSUME InSection(w) PROVE handle[w] = cur /\ cur \in File /\ cur # 0 OBVIOUS
    <2>1. handle[w] = cur BY DEF Holds
    <2>2. handle[w] \in File BY DEF WorkersOK, HandleOK
    <2> QED BY <2>1, <2>2 DEF File
  <1> QED BY <1>1, <1>2, <1>3 DEF TypeOK, DbTypeOK

\* Writing to the file of the case leaves the files to come alone.
LEMMA FreshFile ==
    ASSUME TypeOK, Fresh, cur' = cur, made' = made, \A f \in File : f # cur => db'[f] = db[f]
    PROVE  Fresh'
  <1>1. cur \in Nat /\ made \in Nat /\ cur <= made BY DEF Fresh, TypeOK, DbTypeOK
  <1>2. \A f \in File : f > made => f # cur BY <1>1 DEF File
  <1> QED BY <1>1, <1>2 DEF Fresh

-----------------------------------------------------------------------------
(* Nothing fails: case.json counts the rows                                 *)

Found   == Readable /\ dir /\ cur # 0
InOrder == Found /\ db[cur].tables = Table /\ meta.record_count = Len(db[cur].events)
Gone    == metaState = "absent" /\ cur = 0

AtRest == (\A w \in Worker : pc[w] = "idle") => InOrder \/ Gone

\* The statements before which an operation has changed no row of events.
Before == {"append_open", "append_start", "append_raw", "rebuild_open", "rebuild_read",
           "rebuild_drop", "analyze_open", "analyze_read", "digest_load"}

\* Where an operation has left the case so far.
InHand(w) ==
    /\ Holds(w)
    /\ pc[w] \in Before => InOrder
    /\ pc[w] = "create_tables" => Gone /\ dir
    /\ pc[w] \in {"rebuild_drop", "rebuild_create"} => loc[w].done = 0
    /\ pc[w] = "rebuild_create" =>
         Found /\ db[cur].tables = {"raw_records"} /\ db[cur].events = <<>>
    /\ pc[w] \in {"insert", "stamp", "append_count", "rebuild_close", "rebuild_load"} =>
         Found /\ db[cur].tables = Table
    /\ pc[w] = "insert" /\ loc[w].op = "append" =>
         /\ Len(db[cur].events) = meta.record_count + loc[w].done
         /\ loc[w].done > 0 => Code(w) \subseteq db[cur].layout
    /\ pc[w] = "insert" /\ loc[w].op = "analyze" =>
         Len(db[cur].events) = loc[w].done /\ db[cur].layout = Code(w)
    /\ (pc[w] = "stamp" /\ loc[w].op = "analyze") \/ pc[w] \in {"rebuild_close", "rebuild_load"} =>
         Len(db[cur].events) = Len(loc[w].recs)
    /\ pc[w] \in {"truncate", "write"} =>
         dir /\ cur # 0 /\ db[cur].tables = Table /\ loc[w].mem.record_count = Len(db[cur].events)
    /\ pc[w] = "truncate" => metaState \in {"absent", "ok"}
    /\ pc[w] = "write" => metaState = "empty" /\ loc[w].inc = metaInc
    /\ pc[w] = "rm" => /\ "case.json" \in loc[w].todo <=> Readable
                       /\ "case.json" \notin loc[w].todo <=> metaState = "absent"
                       /\ "case.duckdb" \in loc[w].todo <=> cur # 0
                       /\ dir

Orderly(w) == Fresh /\ AtRest /\ InHand(w)

CountInv == TypeOK /\ WorkersOK /\ Fresh /\ AtRest /\ \A w \in Worker : InHand(w)

\* The case as a worker finds it.
LEMMA Finds ==
    ASSUME OneCaller, TypeOK, WorkersOK, AtRest, NEW w \in Worker, InHand(w)
    PROVE  /\ pc[w] = "idle" => InOrder \/ Gone
           /\ pc[w] \in ConnectPC => loc[w].op = "analyze"
           /\ pc[w] \in {"append_open", "append_start", "append_raw", "append_count"} =>
                loc[w].op = "append"
           /\ InSection(w) => handle[w] = cur /\ cur \in File /\ db[cur] \in DbFile
           /\ ~InSection(w) => Shared(w) = {} /\ handle[w] = 0
           /\ cur # 0 => cur \in File /\ db[cur] \in DbFile
           /\ cur \in 0..MaxFiles
  <1>1. Holds(w) BY DEF InHand
  <1>2. pc[w] = "idle" => InOrder \/ Gone
    <2>1. \A v \in Worker : v = w BY DEF OneCaller
    <2> QED BY <2>1 DEF AtRest
  <1> QED BY <1>1, <1>2, HeldFile DEF WorkersOK, AppendOK

\* A worker that is not idle afterwards owes nothing to AtRest.
LEMMA NotAtRest ==
    ASSUME NEW w \in Worker, pc'[w] # "idle"
    PROVE  AtRest'
  BY DEF AtRest

\* An operation that ends with the case as it should be, or gone.
LEMMA Ends ==
    ASSUME OneCaller, TypeOK, NEW w \in Worker, Return(w), Fresh', (InOrder \/ Gone)'
    PROVE  Orderly(w)'
  <1>1. pc'[w] = "idle" /\ handle'[w] = 0 /\ loc'[w] = NoLocal
    BY DEF Return, TypeOK, WorkerTypeOK
  <1>2. InHand(w)' BY <1>1 DEF InHand, Holds, InSection, Before
  <1>3. AtRest' BY DEF AtRest
  <1> QED BY <1>2, <1>3 DEF Orderly

\* An operation that has loaded case.json and touched nothing.
LEMMA Starts ==
    ASSUME OneCaller, TypeOK, WorkersOK, Fresh, AtRest, NEW w \in Worker, InHand(w), Begin(w),
           Readable, UNCHANGED metaVars,
           \/ pc'[w] \in {"append_open", "rebuild_open", "analyze_open"}
           \/ pc'[w] = "truncate" /\ loc'[w].mem.record_count = meta.record_count
    PROVE  Orderly(w)'
  <1>1. InOrder /\ handle[w] = 0
    BY Finds DEF Begin, InSection, Readable, Gone
  <1>2. UNCHANGED <<dir, metaState, meta, metaInc, cur, made, db, handle>>
    BY DEF Begin, metaVars, dbVars
  <1>3. Fresh' /\ InOrder' BY <1>1, <1>2 DEF Fresh, InOrder, Found, Readable
  <1>4. AtRest' BY NotAtRest
  <1>5. InHand(w)'
    BY <1>1, <1>2, <1>3 DEF InHand, Holds, InSection, Before, InOrder, Found, Readable
  <1> QED BY <1>3, <1>4, <1>5 DEF Orderly

LEMMA CreateCounts ==
    ASSUME OneCaller, TypeOK, WorkersOK, Fresh, AtRest, NEW w \in Worker, InHand(w), Create(w)
    PROVE  Orderly(w)'
  <1>1. Gone /\ handle[w] = 0
    BY Finds DEF Create, Begin, InSection, Readable, InOrder, Found
  <1>2. UNCHANGED <<metaState, meta, metaInc, cur, made, db, handle>> /\ dir' = TRUE
    BY DEF Create, Begin, dbVars
  <1>3. pc'[w] = "create_tables" BY DEF Create, Goto, TypeOK, WorkerTypeOK
  <1>4. Fresh' BY <1>2 DEF Fresh
  <1>5. AtRest' BY <1>3, NotAtRest
  <1>6. InHand(w)' BY <1>1, <1>2, <1>3 DEF InHand, Holds, InSection, Before, Gone
  <1> QED BY <1>4, <1>5, <1>6 DEF Orderly

LEMMA CreateTablesCounts ==
    ASSUME OneCaller, TypeOK, WorkersOK, Fresh, AtRest, NEW w \in Worker, InHand(w), CreateTables(w)
    PROVE  Orderly(w)'
  <1>1. pc[w] = "create_tables" /\ handle[w] = 0 /\ handle' = handle /\ Gone /\ dir /\ Shared(w) = {}
    <2>1. pc[w] = "create_tables" /\ handle' = handle BY DEF CreateTables
    <2>2. ~InSection(w) BY <2>1 DEF InSection
    <2> QED BY <2>1, <2>2, Finds DEF InHand
  <1>2. PICK f \in File :
          /\ Open(w, f)
          /\ db' = [db EXCEPT ![f] = [db[f] EXCEPT
                       !.tables = Table, !.layout = LayoutUsed(w, f)]]
    BY DEF CreateTables
  <1>3. f = made + 1 /\ cur' = f /\ made' = f BY <1>1, <1>2 DEF Open, Gone
  <1>4. made \in Nat /\ f \in Nat BY DEF TypeOK, DbTypeOK, File
  <1>5. db[f] = EmptyFile BY <1>3, <1>4 DEF Fresh
  <1>6. db'[f].tables = Table /\ db'[f].events = <<>>
    BY <1>2, <1>5 DEF EmptyFile, TypeOK, DbTypeOK
  <1>7. UNCHANGED <<dir, metaState, meta, metaInc>> BY DEF CreateTables, metaVars
  <1>8. pc'[w] = "truncate" /\ loc'[w].mem = NewMeta(Code(w))
    BY DEF CreateTables, Goto, TypeOK, WorkerTypeOK, Local
  <1>9. loc'[w].mem.record_count = Len(db'[f].events) BY <1>6, <1>8, EmptySeq DEF NewMeta
  <1>10. Fresh'
    <2>1. \A g \in File : g > f => db'[g] = db[g] BY <1>2, <1>4 DEF TypeOK, DbTypeOK, File
    <2>2. \A g \in File : g > f => g > made BY <1>3, <1>4 DEF File
    <2> QED BY <1>3, <1>4, <2>1, <2>2 DEF Fresh
  <1>11. AtRest' BY <1>8, NotAtRest
  <1>12. InHand(w)'
    BY <1>1, <1>3, <1>4, <1>6, <1>7, <1>8, <1>9 DEF InHand, Holds, InSection, Before, Gone, File
  <1> QED BY <1>10, <1>11, <1>12 DEF Orderly

\* Opening finds the case where it is.
LEMMA OpenCounts ==
    ASSUME OneCaller, TypeOK, WorkersOK, Fresh, AtRest, NEW w \in Worker, InHand(w),
           AppendOpen(w) \/ RebuildOpen(w) \/ AnalyzeOpen(w)
    PROVE  Orderly(w)'
  <1>1. /\ pc[w] \in {"append_open", "rebuild_open", "analyze_open"}
        /\ pc'[w] \in {"append_start", "rebuild_read", "analyze_read"}
        /\ UNCHANGED <<dir, metaState, meta, metaInc, db, loc>>
        /\ \E f \in File : Open(w, f) /\ handle'[w] = f
    BY DEF AppendOpen, RebuildOpen, AnalyzeOpen, OpenDb, Goto, metaVars, TypeOK, WorkerTypeOK
  <1>2. InOrder /\ Shared(w) = {} BY <1>1, Finds DEF InHand, Holds, Before, InSection
  <1>3. cur' = cur /\ made' = made /\ handle'[w] = cur
    BY <1>1, <1>2 DEF Open, InOrder, Found
  <1>4. Fresh' /\ InOrder' BY <1>1, <1>2, <1>3 DEF Fresh, InOrder, Found, Readable
  <1>5. AtRest' BY <1>1, NotAtRest
  <1>6. InHand(w)' BY <1>1, <1>3, <1>4 DEF InHand, Holds, InSection, Before
  <1> QED BY <1>4, <1>5, <1>6 DEF Orderly

\* What the statements of a section leave alone.
LEMMA Statement ==
    ASSUME OneCaller, TypeOK, WorkersOK, AtRest, NEW w \in Worker, InHand(w), NEW label,
           label \in {"append_start", "append_raw", "insert", "stamp", "append_count",
                      "rebuild_read", "rebuild_drop", "rebuild_create", "rebuild_close",
                      "analyze_read"},
           InDb(w, label)
    PROVE  /\ pc[w] = label /\ handle[w] = cur /\ cur \in File /\ cur # 0 /\ db[cur] \in DbFile
           /\ UNCHANGED <<dir, metaState, meta, metaInc, cur, made>>
  BY Finds DEF InDb, InSection, metaVars, File

\* A statement that reads, or that writes raw rows, changes nothing a count
\* depends on.
LEMMA ReadCounts ==
    ASSUME OneCaller, TypeOK, WorkersOK, Fresh, AtRest, NEW w \in Worker, InHand(w),
           AppendStart(w) \/ AppendRaw(w) \/ RebuildRead(w)
    PROVE  Orderly(w)'
  <1>1. /\ pc[w] \in {"append_start", "append_raw", "rebuild_read"}
        /\ handle[w] = cur /\ cur \in File /\ cur # 0 /\ db[cur] \in DbFile
        /\ UNCHANGED <<dir, metaState, meta, metaInc, cur, made, handle>>
    BY Statement DEF AppendStart, AppendRaw, RebuildRead
  <1>2. InOrder BY <1>1 DEF InHand, Holds, Before
  <1>3. /\ db'[cur].tables = db[cur].tables /\ db'[cur].events = db[cur].events
        /\ \A f \in File : f # cur => db'[f] = db[f]
    <2>1. CASE AppendStart(w) \/ RebuildRead(w) BY <2>1 DEF AppendStart, RebuildRead
    <2>2. CASE AppendRaw(w)
      <3>1. PICK k \in 1..(Len(loc[w].recs) - loc[w].done) :
              db' = [db EXCEPT ![cur].raw = @ \o RawRows(w, k)]
        BY <1>1, <2>2 DEF AppendRaw
      <3> QED BY <1>1, <3>1 DEF TypeOK, DbTypeOK, DbFile
    <2> QED BY <2>1, <2>2
  <1>4. InOrder' BY <1>1, <1>2, <1>3 DEF InOrder, Found, Readable
  <1>5. Fresh' BY <1>1, <1>3, FreshFile
  <1>6. /\ pc'[w] \in {"append_count", "append_raw", "insert", "rebuild_drop"}
        /\ pc'[w] \in {"append_count", "append_raw", "insert"} => pc[w] \in {"append_start", "append_raw"}
        /\ pc'[w] = "insert" => loc'[w].done = 0 /\ loc'[w].op = loc[w].op
        /\ pc'[w] = "rebuild_drop" => loc'[w].done = 0
    <2>1. CASE AppendStart(w) \/ RebuildRead(w)
      BY <2>1 DEF AppendStart, RebuildRead, RawFirst, InDb, Goto, TypeOK, WorkerTypeOK, Local
    <2>2. CASE AppendRaw(w)
      <3>1. pc[w] = "append_raw" BY <2>2 DEF AppendRaw, InDb
      <3>2. PICK k \in 1..(Len(loc[w].recs) - loc[w].done) :
              IF loc[w].done + k = Len(loc[w].recs)
              THEN loc' = [loc EXCEPT ![w].done = 0] /\ Goto(w, "insert")
              ELSE loc' = [loc EXCEPT ![w].done = @ + k] /\ UNCHANGED pc
        BY <2>2 DEF AppendRaw
      <3> QED BY <3>1, <3>2 DEF Goto, TypeOK, WorkerTypeOK, Local
    <2> QED BY <2>1, <2>2
  <1>7. AtRest' BY <1>6, NotAtRest
  <1>8. pc'[w] = "insert" => loc'[w].op = "append" BY <1>1, <1>6, Finds
  <1>9. meta.record_count \in Nat BY DEF TypeOK, MetaTypeOK, Meta
  <1>10. InHand(w)'
    BY <1>1, <1>4, <1>6, <1>8, <1>9 DEF InHand, Holds, InSection, Before, InOrder, Found
  <1> QED BY <1>5, <1>7, <1>10 DEF Orderly

\* An append's count, a rebuild's close, an analysis.
LEMMA CloseCounts ==
    ASSUME OneCaller, TypeOK, WorkersOK, Fresh, AtRest, NEW w \in Worker, InHand(w),
           AppendCount(w) \/ RebuildClose(w) \/ AnalyzeRead(w)
    PROVE  Orderly(w)'
  <1>1. /\ pc[w] \in {"append_count", "rebuild_close", "analyze_read"}
        /\ handle[w] = cur /\ cur \in File /\ cur # 0 /\ db[cur] \in DbFile
        /\ UNCHANGED <<dir, metaState, meta, metaInc, cur, made, db>>
    BY Statement DEF AppendCount, RebuildClose, AnalyzeRead
  <1>2. Fresh' BY <1>1 DEF Fresh
  <1>3. CASE AppendCount(w)
    <2>1. pc[w] = "append_count" BY <1>3 DEF AppendCount, InDb
    <2>2. Found /\ db[cur].tables = Table BY <2>1 DEF InHand
    <2>3. pc'[w] = "truncate" /\ handle'[w] = 0
      BY <1>3 DEF AppendCount, Goto, TypeOK, WorkerTypeOK
    <2>4. PICK b \in loc[w].adding : loc' = [loc EXCEPT ![w].mem = WithSource(w, b)]
      BY <1>3 DEF AppendCount
    <2>5. loc'[w].mem.record_count = Len(db[cur].events)
      BY <1>1, <2>4, LocalType DEF WithSource, TypeOK, WorkerTypeOK, Local, Meta
    <2>6. AtRest' BY <2>3, NotAtRest
    <2>7. InHand(w)' BY <1>1, <2>2, <2>3, <2>5 DEF InHand, Holds, InSection, Before, Found, Readable
    <2> QED BY <1>2, <2>6, <2>7 DEF Orderly
  <1>4. CASE RebuildClose(w)
    <2>1. pc[w] = "rebuild_close" BY <1>4 DEF RebuildClose, InDb
    <2>2. Found /\ db[cur].tables = Table /\ Len(db[cur].events) = Len(loc[w].recs)
      BY <2>1 DEF InHand
    <2>3. pc'[w] = "rebuild_load" /\ handle'[w] = 0 /\ loc' = loc
      BY <1>4 DEF RebuildClose, Goto, TypeOK, WorkerTypeOK
    <2>4. AtRest' BY <2>3, NotAtRest
    <2>5. InHand(w)' BY <1>1, <2>2, <2>3 DEF InHand, Holds, InSection, Before, Found, Readable
    <2> QED BY <1>2, <2>4, <2>5 DEF Orderly
  <1>5. CASE AnalyzeRead(w)
    <2>1. pc[w] = "analyze_read" BY <1>5 DEF AnalyzeRead, InDb
    <2>2. InOrder' BY <1>1, <2>1 DEF InHand, Holds, Before, InOrder, Found, Readable
    <2>3. CASE Return(w) BY <1>2, <2>2, <2>3, Ends
    <2>4. CASE pc'[w] = "digest_load" /\ handle'[w] = 0
      <3>1. AtRest' BY <2>4, NotAtRest
      <3>2. InHand(w)' BY <2>2, <2>4 DEF InHand, Holds, InSection, Before
      <3> QED BY <1>2, <3>1, <3>2 DEF Orderly
    <2> QED BY <1>5, <2>3, <2>4 DEF AnalyzeRead, Goto, TypeOK, WorkerTypeOK
  <1> QED BY <1>3, <1>4, <1>5

LEMMA InsertCounts ==
    ASSUME OneCaller, TypeOK, WorkersOK, Fresh, AtRest, NEW w \in Worker, InHand(w),
           InsertRecords(w)
    PROVE  Orderly(w)'
  <1>1. /\ pc[w] = "insert" /\ handle[w] = cur /\ cur \in File /\ cur # 0 /\ db[cur] \in DbFile
        /\ UNCHANGED <<dir, metaState, meta, metaInc, cur, made>>
    BY Statement DEF InsertRecords
  <1>2. PICK k \in 1..(Len(loc[w].recs) - loc[w].done) :
             /\ k \in Nat
             /\ db[cur].events \in Seq(EventRow)
             /\ EventRows(w, k) \in Seq(EventRow) /\ Len(EventRows(w, k)) = k
             /\ db'[cur] = [db[cur] EXCEPT !.events = @ \o EventRows(w, k)]
             /\ handle'[w] = handle[w]
             /\ loc'[w] = [loc[w] EXCEPT !.done = @ + k]
             /\ pc'[w] = IF loc[w].done + k = Len(loc[w].recs) THEN "stamp" ELSE "insert"
    BY <1>1, EventsInserted
  <1>3. /\ db'[cur].events = db[cur].events \o EventRows(w, k)
        /\ db'[cur].tables = db[cur].tables /\ db'[cur].layout = db[cur].layout
    BY <1>1, <1>2 DEF DbFile
  <1>4. Len(db'[cur].events) = Len(db[cur].events) + k
    BY <1>2, <1>3, ConcatProperties
  <1>5. \A f \in File : f # cur => db'[f] = db[f]
    BY <1>1 DEF InsertRecords, TypeOK, DbTypeOK
  <1>6. Fresh' BY <1>1, <1>5, FreshFile
  <1>7. loc'[w].done = loc[w].done + k /\ loc'[w].recs = loc[w].recs /\ loc'[w].op = loc[w].op
    BY <1>2, LocalType DEF Local
  <1>8. Code(w) \subseteq db[cur].layout BY <1>1 DEF InsertRecords, InDb, Runs
  <1>9. AtRest' BY <1>2, NotAtRest
  <1>10. Found /\ db[cur].tables = Table BY <1>1 DEF InHand
  <1>11. loc[w].done \in Nat /\ k \in Nat /\ meta.record_count \in Nat /\ k > 0
    BY <1>2, LocalType DEF TypeOK, MetaTypeOK, Meta
  <1>12. InSection(w)' /\ handle'[w] = cur' /\ (pc'[w] \in {"insert", "stamp"})
    BY <1>1, <1>2 DEF InSection
  <1>13. Found' /\ db'[cur'].tables = Table BY <1>1, <1>3, <1>10 DEF Found, Readable
  <1>14. loc'[w].op = "append" =>
           /\ Len(db'[cur'].events) = meta'.record_count + loc'[w].done
           /\ Code(w)' \subseteq db'[cur'].layout
    <2> SUFFICES ASSUME loc[w].op = "append"
                 PROVE  Len(db'[cur].events) = meta.record_count + (loc[w].done + k)
      BY <1>1, <1>3, <1>7, <1>8 DEF Code
    <2>1. Len(db[cur].events) = meta.record_count + loc[w].done BY <1>1 DEF InHand
    <2> QED BY <1>4, <1>11, <2>1
  <1>15. loc'[w].op = "analyze" =>
           /\ Len(db'[cur'].events) = loc'[w].done /\ db'[cur'].layout = Code(w)'
           /\ pc'[w] = "stamp" => Len(db'[cur'].events) = Len(loc'[w].recs)
    <2> SUFFICES ASSUME loc[w].op = "analyze"
                 PROVE  Len(db'[cur].events) = loc[w].done + k /\ db[cur].layout = Code(w)
      BY <1>1, <1>2, <1>3, <1>7 DEF Code
    <2>1. Len(db[cur].events) = loc[w].done /\ db[cur].layout = Code(w) BY <1>1 DEF InHand
    <2> QED BY <1>4, <1>11, <2>1
  <1>16. InHand(w)' BY <1>12, <1>13, <1>14, <1>15 DEF InHand, Holds, Before
  <1> QED BY <1>6, <1>9, <1>16 DEF Orderly

LEMMA StampCounts ==
    ASSUME OneCaller, TypeOK, WorkersOK, Fresh, AtRest, NEW w \in Worker, InHand(w),
           StampTimes(w)
    PROVE  Orderly(w)'
  <1>1. /\ pc[w] = "stamp" /\ handle[w] = cur /\ cur \in File /\ cur # 0 /\ db[cur] \in DbFile
        /\ UNCHANGED <<dir, metaState, meta, metaInc, cur, made>>
    BY Statement DEF StampTimes
  <1>2. /\ db'[cur] = [db[cur] EXCEPT !.events = Stamped(@, loc[w].start)]
        /\ Len(db'[cur].events) = Len(db[cur].events)
        /\ pc'[w] = IF loc[w].op = "append" THEN "append_count" ELSE "rebuild_close"
    BY <1>1, EventsStamped
  <1>3. db'[cur].tables = db[cur].tables BY <1>1, <1>2 DEF DbFile
  <1>4. /\ \A f \in File : f # cur => db'[f] = db[f]
        /\ loc' = loc /\ handle' = handle
    BY <1>1 DEF StampTimes, TypeOK, DbTypeOK
  <1>5. Fresh' BY <1>1, <1>4, FreshFile
  <1>6. AtRest' BY <1>2, NotAtRest
  <1>7. Found /\ db[cur].tables = Table /\ loc[w].op \in {"append", "analyze"}
        /\ (loc[w].op = "analyze" => Len(db[cur].events) = Len(loc[w].recs))
    BY <1>1 DEF InHand, Holds, WorkersOK, AppendOK
  <1>8. InHand(w)'
    BY <1>1, <1>2, <1>3, <1>4, <1>7 DEF InHand, Holds, InSection, Before, Found, Readable
  <1> QED BY <1>5, <1>6, <1>8 DEF Orderly

LEMMA RebuildCounts ==
    ASSUME OneCaller, TypeOK, WorkersOK, Fresh, AtRest, NEW w \in Worker, InHand(w),
           RebuildDrop(w) \/ RebuildCreate(w)
    PROVE  Orderly(w)'
  <1>1. /\ pc[w] \in {"rebuild_drop", "rebuild_create"}
        /\ handle[w] = cur /\ cur \in File /\ cur # 0 /\ db[cur] \in DbFile
        /\ UNCHANGED <<dir, metaState, meta, metaInc, cur, made, handle, loc>>
        /\ \A f \in File : f # cur => db'[f] = db[f]
    BY Statement DEF RebuildDrop, RebuildCreate, TypeOK, DbTypeOK
  <1>2. Fresh' BY <1>1, FreshFile
  <1>3. loc[w].op = "analyze" BY <1>1, Finds DEF ConnectPC
  <1>4. CASE RebuildDrop(w)
    <2>1. pc[w] = "rebuild_drop" BY <1>4 DEF RebuildDrop, InDb
    <2>2. InOrder /\ loc[w].done = 0 BY <2>1 DEF InHand, Holds, Before
    <2>3. db'[cur].tables = {"raw_records"} /\ db'[cur].events = <<>> /\ pc'[w] = "rebuild_create"
      BY <1>1, <1>4, <2>2, EventsDropped DEF InOrder, Table
    <2>4. AtRest' BY <2>3, NotAtRest
    <2>5. InHand(w)'
      BY <1>1, <1>3, <2>2, <2>3 DEF InHand, Holds, InSection, Before, InOrder, Found, Readable
    <2> QED BY <1>2, <2>4, <2>5 DEF Orderly
  <1>5. CASE RebuildCreate(w)
    <2>1. pc[w] = "rebuild_create" BY <1>5 DEF RebuildCreate, InDb
    <2>2. Found /\ db[cur].tables = {"raw_records"} /\ db[cur].events = <<>> /\ loc[w].done = 0
      BY <2>1 DEF InHand
    <2>3. /\ db'[cur].tables = Table /\ db'[cur].events = <<>>
          /\ db'[cur].layout = Code(w)
      BY <1>1, <1>5, <2>2 DEF RebuildCreate, LayoutUsed, Table, TypeOK, DbTypeOK, DbFile
    <2>4. pc'[w] = IF loc[w].recs = <<>> THEN "rebuild_close" ELSE "insert"
      BY <1>5 DEF RebuildCreate, Goto, TypeOK, WorkerTypeOK
    <2>5. AtRest' BY <2>4, NotAtRest
    <2>6. Len(db'[cur].events) = 0 BY <2>3, EmptySeq
    <2>7. loc[w].recs = <<>> => Len(loc[w].recs) = 0 BY EmptySeq
    <2>8. InHand(w)'
      BY <1>1, <1>3, <2>2, <2>3, <2>4, <2>6, <2>7
         DEF InHand, Holds, InSection, Before, Found, Readable, Code
    <2> QED BY <1>2, <2>5, <2>8 DEF Orderly
  <1> QED BY <1>4, <1>5

\* Loading case.json again after a rebuild, or for the digest.
LEMMA LoadCounts ==
    ASSUME OneCaller, TypeOK, WorkersOK, Fresh, AtRest, NEW w \in Worker, InHand(w),
           RebuildLoad(w) \/ DigestLoad(w)
    PROVE  Orderly(w)'
  <1>1. /\ pc[w] \in {"rebuild_load", "digest_load"}
        /\ UNCHANGED <<dir, metaState, meta, metaInc, cur, made, db>>
    BY DEF RebuildLoad, DigestLoad, metaVars, dbVars
  <1>2. Fresh' BY <1>1 DEF Fresh
  <1>3. handle[w] = 0 BY <1>1, Finds DEF InSection
  <1>4. Found /\ db[cur].tables = Table BY <1>1 DEF InHand, Holds, Before, InOrder
  <1>5. pc'[w] = "truncate" /\ handle' = handle
    BY <1>4 DEF RebuildLoad, DigestLoad, Goto, Found, TypeOK, WorkerTypeOK
  <1>6. loc'[w].mem.record_count = Len(db[cur].events)
    <2>1. CASE RebuildLoad(w)
      <3>1. loc' = [loc EXCEPT ![w].mem = [meta EXCEPT !.fingerprint = Code(w),
                                             !.record_count = Len(loc[w].recs)]]
        BY <1>4, <2>1 DEF RebuildLoad, Found
      <3>2. loc'[w].mem.record_count = Len(loc[w].recs)
        BY <3>1 DEF TypeOK, WorkerTypeOK, MetaTypeOK, Local, Meta
      <3>3. pc[w] = "rebuild_load" BY <2>1 DEF RebuildLoad
      <3> QED BY <3>2, <3>3 DEF InHand
    <2>2. CASE DigestLoad(w)
      <3>1. loc' = [loc EXCEPT ![w].mem = [meta EXCEPT !.digest = loc[w].seen]]
        BY <1>4, <2>2 DEF DigestLoad, Found
      <3>2. loc'[w].mem.record_count = meta.record_count
        BY <3>1 DEF TypeOK, WorkerTypeOK, MetaTypeOK, Local, Meta
      <3>3. pc[w] = "digest_load" BY <2>2 DEF DigestLoad
      <3> QED BY <3>2, <3>3 DEF InHand, Holds, Before, InOrder
    <2> QED BY <2>1, <2>2
  <1>7. AtRest' BY <1>5, NotAtRest
  <1>8. InHand(w)'
    BY <1>1, <1>3, <1>4, <1>5, <1>6 DEF InHand, Holds, InSection, Before, Found, Readable
  <1> QED BY <1>2, <1>7, <1>8 DEF Orderly

LEMMA TruncateCounts ==
    ASSUME OneCaller, TypeOK, WorkersOK, Fresh, AtRest, NEW w \in Worker, InHand(w), Truncate(w)
    PROVE  Orderly(w)'
  <1>1. /\ pc[w] = "truncate" /\ UNCHANGED <<dir, meta, metaInc, cur, made, db>>
        /\ dir /\ cur # 0 /\ db[cur].tables = Table
        /\ loc[w].mem.record_count = Len(db[cur].events)
    BY DEF Truncate, InHand, dbVars
  <1>2. handle[w] = 0 BY <1>1, Finds DEF InSection
  <1>3. /\ metaState' = "empty" /\ pc'[w] = "write" /\ handle' = handle
        /\ loc'[w].inc = metaInc /\ loc'[w].mem = loc[w].mem
    BY <1>1 DEF Truncate, Goto, TypeOK, WorkerTypeOK, Local
  <1>4. Fresh' BY <1>1 DEF Fresh
  <1>5. AtRest' BY <1>3, NotAtRest
  <1>6. InHand(w)' BY <1>1, <1>2, <1>3 DEF InHand, Holds, InSection, Before
  <1> QED BY <1>4, <1>5, <1>6 DEF Orderly

LEMMA WriteCounts ==
    ASSUME OneCaller, TypeOK, WorkersOK, Fresh, AtRest, NEW w \in Worker, InHand(w), Write(w)
    PROVE  Orderly(w)'
  <1>1. /\ pc[w] = "write" /\ UNCHANGED <<dir, metaInc, cur, made, db>>
        /\ dir /\ cur # 0 /\ db[cur].tables = Table
        /\ loc[w].mem.record_count = Len(db[cur].events)
        /\ metaState = "empty" /\ loc[w].inc = metaInc
    BY DEF Write, InHand, dbVars
  <1>2. handle[w] = 0 BY <1>1, Finds DEF InSection
  <1>3. meta' = loc[w].mem /\ metaState' = "ok" BY <1>1 DEF Write
  <1>4. InOrder' BY <1>1, <1>3 DEF InOrder, Found, Readable
  <1>5. Fresh' BY <1>1 DEF Fresh
  <1>6. CASE Return(w) BY <1>4, <1>5, <1>6, Ends
  <1>7. CASE pc'[w] = "analyze_open" /\ handle' = handle
    <2>1. AtRest' BY <1>7, NotAtRest
    <2>2. InHand(w)' BY <1>2, <1>4, <1>7 DEF InHand, Holds, InSection, Before
    <2> QED BY <1>5, <2>1, <2>2 DEF Orderly
  <1> QED BY <1>6, <1>7 DEF Write, Goto, TypeOK, WorkerTypeOK

LEMMA DeleteCounts ==
    ASSUME OneCaller, TypeOK, WorkersOK, Fresh, AtRest, NEW w \in Worker, InHand(w),
           Delete(w) \/ Unlink(w) \/ RmDir(w)
    PROVE  Orderly(w)'
  <1>1. CASE Delete(w)
    <2>1. (InOrder \/ Gone) /\ handle[w] = 0 /\ dir
      BY <1>1, Finds DEF Delete, Begin, InSection
    <2>2. UNCHANGED <<dir, metaState, meta, metaInc, cur, made, db, handle>>
      BY <1>1 DEF Delete, Begin, metaVars, dbVars
    <2> DEFINE all == {e \in Entry : \/ (e = "case.json" /\ metaState # "absent")
                                    \/ (e = "case.duckdb" /\ cur # 0)}
    <2>3. pc'[w] = "rm" /\ loc'[w].todo = all
      <3>1. loc' = [loc EXCEPT ![w] = [NoLocal EXCEPT !.op = "delete", !.todo = all]]
        BY <1>1 DEF Delete
      <3> HIDE DEF all
      <3>2. loc'[w].todo = all BY <3>1 DEF NoLocal, TypeOK, WorkerTypeOK
      <3> QED BY <1>1, <3>2 DEF Delete, Goto, TypeOK, WorkerTypeOK
    <2>4. Fresh' BY <2>2 DEF Fresh
    <2>5. AtRest' BY <2>3, NotAtRest
    <2>6. InHand(w)'
      BY <2>1, <2>2, <2>3 DEF InHand, Holds, InSection, Before, InOrder, Found, Gone, Readable, Entry
    <2> QED BY <2>4, <2>5, <2>6 DEF Orderly
  <1>2. CASE Unlink(w)
    <2>1. /\ pc[w] = "rm" /\ UNCHANGED <<dir, meta, made, db>>
          /\ "case.json" \in loc[w].todo <=> Readable
          /\ "case.json" \notin loc[w].todo <=> metaState = "absent"
          /\ "case.duckdb" \in loc[w].todo <=> cur # 0
          /\ dir
      BY <1>2 DEF Unlink, InHand
    <2>2. PICK e \in loc[w].todo :
         \/ /\ e = "case.json" /\ metaState # "absent"
            /\ metaState' = "absent" /\ metaInc' = metaInc + 1
            /\ loc' = [loc EXCEPT ![w].todo = @ \ {e}]
            /\ UNCHANGED <<cur, pc, handle>>
         \/ /\ e = "case.duckdb" /\ cur # 0
            /\ cur' = 0
            /\ loc' = [loc EXCEPT ![w].todo = @ \ {e}]
            /\ UNCHANGED <<metaState, metaInc, pc, handle>>
         \/ /\ \/ e = "case.json" /\ metaState = "absent"
               \/ e = "case.duckdb" /\ cur = 0
            /\ Return(w)
            /\ UNCHANGED <<metaState, metaInc, cur>>
      BY <1>2 DEF Unlink
    <2>3. handle[w] = 0 BY <2>1, Finds DEF InSection
    <2>4. (e = "case.json" => metaState # "absent") /\ (e = "case.duckdb" => cur # 0)
      BY <2>1
    <2>5. loc'[w].todo = loc[w].todo \ {e} /\ pc' = pc /\ handle' = handle
      <3>1. loc' = [loc EXCEPT ![w].todo = @ \ {e}] /\ pc' = pc /\ handle' = handle
        BY <2>2, <2>4
      <3>2. loc'[w] = [loc[w] EXCEPT !.todo = @ \ {e}] BY <3>1 DEF TypeOK, WorkerTypeOK
      <3> QED BY <3>1, <3>2, LocalType DEF Local
    <2>6. Fresh' BY <2>1, <2>2, <2>4 DEF Fresh, TypeOK, DbTypeOK
    <2>7. AtRest' BY <2>1, <2>5, NotAtRest
    <2>8. InHand(w)'
      BY <2>1, <2>2, <2>3, <2>4, <2>5 DEF InHand, Holds, InSection, Before, Readable
    <2> QED BY <2>6, <2>7, <2>8 DEF Orderly
  <1>3. CASE RmDir(w)
    <2>1. pc[w] = "rm" /\ loc[w].todo = {} /\ UNCHANGED <<metaState, cur, made, db>> /\ Return(w)
      BY <1>3 DEF RmDir, dbVars
    <2>2. Gone' BY <2>1 DEF InHand, Holds, Gone
    <2>3. Fresh' BY <2>1 DEF Fresh
    <2> QED BY <2>1, <2>2, <2>3, Ends
  <1> QED BY <1>1, <1>2, <1>3

\* Alone, a worker is refused a connection only while there is no case to
\* open, and a statement only before it changed anything.
LEMMA RefusedCounts ==
    ASSUME OneCaller, TypeOK, WorkersOK, Fresh, AtRest, NEW w \in Worker, InHand(w),
           OpenRefused(w) \/ DbError(w)
    PROVE  Orderly(w)'
  <1>1. UNCHANGED <<dir, metaState, meta, metaInc, cur, made, db>> /\ Return(w)
    BY DEF OpenRefused, DbError, metaVars, dbVars
  <1>2. Fresh' BY <1>1 DEF Fresh
  <1>3. InOrder \/ Gone
    <2>1. CASE OpenRefused(w) BY <2>1 DEF OpenRefused, InHand, Before
    <2>2. CASE DbError(w)
      <3>1. InSection(w) /\ handle[w] = cur /\ ~Runs(w)
        <4>1. handle[w] # 0 /\ ~Runs(w) BY <2>2 DEF DbError
        <4>2. InSection(w) BY <4>1, Finds
        <4> QED BY <4>1, <4>2, Finds
      <3>2. CASE pc[w] \in Before BY <3>2 DEF InHand
      <3>3. CASE pc[w] = "insert"
        <4>1. Found /\ db[cur].tables = Table /\ ~(Code(w) \subseteq db[cur].layout)
          BY <3>1, <3>3 DEF InHand, Holds, Runs, Table
        <4>2. loc[w].op = "append" BY <3>3, <4>1 DEF InHand, Holds, WorkersOK, AppendOK
        <4>3. loc[w].done \in Nat /\ meta.record_count \in Nat
          BY LocalType DEF TypeOK, MetaTypeOK, Meta
        <4>4. loc[w].done = 0 BY <3>3, <4>1, <4>2, <4>3 DEF InHand
        <4>5. Len(db[cur].events) = meta.record_count BY <3>3, <4>2, <4>3, <4>4 DEF InHand
        <4> QED BY <4>1, <4>5 DEF InOrder
      <3>4. CASE pc[w] \in {"stamp", "append_count", "rebuild_create", "rebuild_close"}
        BY <3>1, <3>4 DEF InHand, Holds, Runs, Table
      <3> QED BY <3>1, <3>2, <3>3, <3>4 DEF InSection, Before
    <2> QED BY <2>1, <2>2
  <1>4. (InOrder \/ Gone)' BY <1>1, <1>3 DEF InOrder, Gone, Found, Readable
  <1> QED BY <1>1, <1>2, <1>4, Ends

LEMMA BeginCounts ==
    ASSUME OneCaller, TypeOK, WorkersOK, Fresh, AtRest, NEW w \in Worker, InHand(w),
           \/ \E b \in Batch, force \in {FALSE, ForceAllowed} : AppendRecords(w, b, force)
           \/ Connect(w)
           \/ \E text \in Text : Note(w, text)
           \/ \E ips \in IpList : SetInfrastructureIps(w, ips)
    PROVE  Orderly(w)'
  <1> USE DEF TypeOK, WorkerTypeOK, Goto
  <1>1. CASE \E b \in Batch, force \in {FALSE, ForceAllowed} : AppendRecords(w, b, force)
    <2>1. Begin(w) /\ Readable /\ UNCHANGED metaVars /\ pc'[w] = "append_open"
      BY <1>1 DEF AppendRecords
    <2> QED BY <2>1, Starts
  <1>2. CASE Connect(w)
    <2>1. Begin(w) /\ Readable /\ UNCHANGED metaVars /\ pc'[w] \in {"analyze_open", "rebuild_open"}
      BY <1>2 DEF Connect
    <2> QED BY <2>1, Starts
  <1>3. ASSUME NEW op, NEW doc, Edit(w, op, doc), doc.record_count = meta.record_count
        PROVE  Orderly(w)'
    <2>1. Begin(w) /\ Readable /\ UNCHANGED metaVars /\ pc'[w] = "truncate" /\ loc'[w].mem = doc
      BY <1>3 DEF Edit, NoLocal
    <2> QED BY <1>3, <2>1, Starts
  <1>4. CASE \E text \in Text : Note(w, text)
    <2>1. PICK text \in Text : Edit(w, "note", [meta EXCEPT !.notes = Append(@, text)])
      BY <1>4 DEF Note
    <2>2. PICK doc : doc = [meta EXCEPT !.notes = Append(@, text)] OBVIOUS
    <2>3. doc.record_count = meta.record_count BY <2>2 DEF MetaTypeOK, Meta
    <2> QED BY <1>3, <2>1, <2>2, <2>3
  <1>5. CASE \E ips \in IpList : SetInfrastructureIps(w, ips)
    <2>1. PICK ips \in IpList : Edit(w, "infra", [meta EXCEPT !.infrastructure_ips = ips])
      BY <1>5 DEF SetInfrastructureIps
    <2>2. PICK doc : doc = [meta EXCEPT !.infrastructure_ips = ips] OBVIOUS
    <2>3. doc.record_count = meta.record_count BY <2>2 DEF MetaTypeOK, Meta
    <2> QED BY <1>3, <2>1, <2>2, <2>3
  <1> QED BY <1>1, <1>2, <1>4, <1>5

LEMMA CountInit == Init => CountInv
  <1> SUFFICES ASSUME Init PROVE CountInv OBVIOUS
  <1>1. TypeOK /\ WorkersOK BY DerivedInit DEF DerivedInv
  <1>2. \A w \in Worker : InHand(w) BY DEF Init, InHand, Holds, InSection, Before
  <1>3. CASE NoCase
    <2>1. Fresh BY <1>3 DEF NoCase, Fresh
    <2>2. AtRest BY <1>3 DEF NoCase, AtRest, Gone
    <2> QED BY <1>1, <1>2, <2>1, <2>2 DEF CountInv
  <1>4. ASSUME NEW b \in Batch, NEW layout \in OldLayouts, EarlierCase(b, layout)
        PROVE  CountInv
    <2> DEFINE file == EarlierFile(b, layout)
    <2>1. cur = 1 /\ made = 1 /\ 1 \in File /\ db[cur] = file
      BY <1>4, BoundAssumption DEF EarlierCase, File
    <2>2. Fresh BY <1>4, <2>1 DEF EarlierCase, Fresh, File
    <2>3. SizeOf[b] \in Nat BY BatchAssumption
    <2>4. Len(file.events) = SizeOf[b] BY <2>3, LenProperties DEF EarlierFile
    <2>5. file.tables = Table BY DEF EarlierFile
    <2>6. meta.record_count = SizeOf[b] BY <1>4 DEF EarlierCase, NewMeta
    <2>7. InOrder BY <1>4, <2>1, <2>4, <2>5, <2>6 DEF EarlierCase, InOrder, Found, Readable
    <2> QED BY <1>1, <1>2, <2>2, <2>7 DEF CountInv, AtRest
  <1> QED BY <1>3, <1>4 DEF Init

LEMMA CountStep ==
    ASSUME OneCaller, MaxFaults = 0, CountInv, NEW w \in Worker, Step(w)
    PROVE  CountInv'
  <1>1. TypeOK /\ WorkersOK /\ Fresh /\ AtRest /\ InHand(w) BY DEF CountInv
  <1>2. ~Fail(w) BY <1>1 DEF Fail, TypeOK, CounterTypeOK
  <1>3. Orderly(w)'
    BY <1>1, <1>2, CreateCounts, CreateTablesCounts, BeginCounts, OpenCounts, ReadCounts,
       CloseCounts, InsertCounts, StampCounts, RebuildCounts, LoadCounts, TruncateCounts,
       WriteCounts, DeleteCounts, RefusedCounts DEF Step
  <1>4. TypeOK' /\ WorkersOK' BY <1>1, StepType, WorkersStep
  <1>5. \A v \in Worker : InHand(v)' BY <1>3 DEF OneCaller, Orderly
  <1> QED BY <1>3, <1>4, <1>5 DEF Orderly, CountInv

LEMMA CountNext == OneCaller /\ MaxFaults = 0 /\ CountInv /\ [Next]_vars => CountInv'
  <1> SUFFICES ASSUME OneCaller, MaxFaults = 0, CountInv, [Next]_vars PROVE CountInv' OBVIOUS
  <1>1. CASE UNCHANGED vars
    <2> USE <1>1 DEF CountInv, vars, metaVars, dbVars
    <2>1. TypeOK' BY StutterType
    <2>2. WorkersOK' BY DEF WorkersOK, HandleOK, AppendOK, RecsOK, InSection
    <2>3. Fresh' /\ AtRest' BY DEF Fresh, AtRest, InOrder, Gone, Found, Readable
    <2>4. \A w \in Worker : InHand(w)'
      <3> TAKE w \in Worker
      <3>1. InHand(w) OBVIOUS
      <3> QED BY <3>1 DEF InHand, Holds, InSection, InOrder, Gone, Found, Readable, Code
    <2> QED BY <2>1, <2>2, <2>3, <2>4
  <1>2. ASSUME NEW w \in Worker, Step(w) PROVE CountInv' BY <1>2, CountStep
  <1> QED BY <1>1, <1>2 DEF Next

\* One caller, nothing cut short: whatever it appends, migrates, annotates and
\* deletes, record_count in case.json is the number of rows of events whenever
\* no operation runs.  The count is of the table, or of what a rebuild read.
THEOREM CountsAlwaysAgree == OneCaller /\ MaxFaults = 0 => (Spec => []CountsAgree)
  <1>1. SUFFICES ASSUME OneCaller, MaxFaults = 0 PROVE Spec => []CountsAgree OBVIOUS
  <1>2. CountInv /\ [Next]_vars => CountInv' BY <1>1, CountNext
  <1>3. CountInv => CountsAgree
    BY DEF CountInv, AtRest, InOrder, Gone, Readable, CountsAgree
  <1> QED BY <1>2, <1>3, CountInit, PTL DEF Spec

-----------------------------------------------------------------------------
(* Operations are cut short: what an analysis sees                          *)

\* The orders in which the raw records may be read leave none out.
LEMMA OrdersCover ==
    ASSUME NEW rows \in Seq(RawRow), NEW recs \in Orders(rows), NEW i \in Indices(rows)
    PROVE  \E j \in Indices(recs) : recs[j] = rows[i].rec
  <1> DEFINE n == Len(rows)
  <1>1. n \in Nat OBVIOUS
  <1>2. CASE Ascending(rows)
    <2>1. recs = [j \in 1..n |-> rows[j].rec] BY <1>2 DEF Orders
    <2>2. Len(recs) = n BY <1>1, <2>1, LenProperties
    <2> QED BY <2>1, <2>2 DEF Indices
  <1>3. CASE ~Ascending(rows)
    <2>1. PICK p \in SortedBy(rows) : recs = [j \in 1..n |-> rows[p[j]].rec]
      BY <1>3 DEF Orders
    <2>2. p \in [1..n -> 1..n] /\ \A j, k \in 1..n : j < k => p[j] # p[k]
      BY <2>1 DEF SortedBy
    <2>3. p \in Injection(1..n, 1..n)
      <3>1. \A j, k \in 1..n : p[j] = p[k] => j = k
        <4> SUFFICES ASSUME NEW j \in 1..n, NEW k \in 1..n, p[j] = p[k], j # k PROVE FALSE OBVIOUS
        <4>1. j < k \/ k < j BY <1>1
        <4> QED BY <2>2, <4>1
      <3> QED BY <2>2, <3>1 DEF Injection, IsInjective
    <2>4. IsFiniteSet(1..n) BY <1>1, FS_Interval
    <2>5. p \in Surjection(1..n, 1..n) BY <2>3, <2>4, FS_Injection
    <2>6. PICK j \in 1..n : p[j] = i BY <2>5 DEF Surjection, Indices
    <2>7. Len(recs) = n BY <1>1, <2>1, LenProperties
    <2> QED BY <2>1, <2>6, <2>7 DEF Indices
  <1> QED BY <1>2, <1>3

\* The tables of the file at the path, and what a document claims of them.
RawTable    == cur # 0 /\ "raw_records" \in db[cur].tables
EventsTable == cur # 0 /\ "events" \in db[cur].tables
InRaw(doc)  == RawTable => \A i \in Indices(doc.sources) : AllStored(doc.sources[i], db[cur].raw)
InEvents(doc) ==
    EventsTable => \A i \in Indices(doc.sources) : AllStored(doc.sources[i], db[cur].events)

\* What a save by w may write: events may lag behind the raw records only
\* under another version's fingerprint.
Honest(w, doc) == InRaw(doc) /\ (doc.fingerprint = Code(w) => InEvents(doc))
SavedHonest == Readable => \A w \in Worker : Honest(w, meta)

Inserts(w, op) == pc[w] \in {"insert", "stamp"} /\ loc[w].op = op
Appends(w) ==
    pc[w] \in {"append_open", "append_start", "append_raw", "append_count"} \/ Inserts(w, "append")
Rebuilds(w) ==
    \/ pc[w] \in {"rebuild_open", "rebuild_read", "rebuild_drop", "rebuild_create",
                  "rebuild_close", "rebuild_load"}
    \/ Inserts(w, "analyze")

\* A rebuild has read, or inserted, every raw record.
AllRead(w) ==
    RawTable /\ \A i \in Indices(db[cur].raw) :
        \E j \in Indices(loc[w].recs) : loc[w].recs[j] = db[cur].raw[i].rec
AllRebuilt ==
    RawTable /\ \A i \in Indices(db[cur].raw) : Stored(db[cur].raw[i].rec, db[cur].events)

\* How far an operation has got.
Progress(w) ==
    /\ Holds(w)
    /\ pc[w] = "create_tables" => metaState = "absent"
    /\ pc[w] = "digest_load" => loc[w].op = "digest"
    /\ Appends(w) => Readable /\ loc[w].mem = meta
    /\ Rebuilds(w) => Readable /\ meta.fingerprint # Code(w)
    /\ pc[w] = "insert" => \A i \in 1..loc[w].done : Stored(loc[w].recs[i], db[cur].events)
    /\ pc[w] \in {"stamp", "append_count"} => AllIn(loc[w].recs, db[cur].events)
    /\ pc[w] \in {"rebuild_drop", "rebuild_create"} => loc[w].done = 0
    /\ pc[w] \in {"rebuild_drop", "rebuild_create"} \/ Inserts(w, "analyze") => AllRead(w)
    /\ pc[w] \in {"rebuild_close", "rebuild_load"} => AllRebuilt
    /\ pc[w] \in {"analyze_open", "analyze_read"} => InEvents(loc[w].mem)
    /\ pc[w] \in {"truncate", "write"} =>
         /\ Honest(w, loc[w].mem)
         /\ loc[w].op = "analyze" => loc[w].mem.fingerprint = Code(w)

SeenInv == TypeOK /\ WorkersOK /\ Fresh /\ SavedHonest /\ \A w \in Worker : Progress(w)

OnCourse(w) == Fresh /\ SavedHonest /\ Progress(w)

\* Nothing claimed, nothing owed.
LEMMA NothingOwed ==
    ASSUME NEW w \in Worker, Holds(w)', pc'[w] \in {"idle", "rm"}
    PROVE  Progress(w)'
  BY DEF Progress, Appends, Rebuilds, Inserts

LEMMA NoSources ==
    ASSUME NEW w \in Worker, NEW doc, doc.sources = <<>>
    PROVE  Honest(w, doc)'
  BY EmptySeq DEF Honest, InRaw, InEvents, Indices

\* Claims outlive a step that takes no row away and creates no table.
LEMMA RawClaims ==
    ASSUME NEW doc, InRaw(doc), cur' = cur, RawTable' => RawTable,
           \A rec : Stored(rec, db[cur].raw) => Stored(rec, db'[cur].raw)
    PROVE  InRaw(doc)'
  BY DEF InRaw, AllStored

LEMMA EventClaims ==
    ASSUME NEW doc, InEvents(doc), cur' = cur, EventsTable' => EventsTable,
           \A rec : Stored(rec, db[cur].events) => Stored(rec, db'[cur].events)
    PROVE  InEvents(doc)'
  BY DEF InEvents, AllStored

LEMMA HonestStays ==
    ASSUME NEW w \in Worker, NEW doc, Honest(w, doc), cur' = cur,
           RawTable' => RawTable, \A rec : Stored(rec, db[cur].raw) => Stored(rec, db'[cur].raw),
           \/ doc.fingerprint # Code(w)
           \/ /\ EventsTable' => EventsTable
              /\ \A rec : Stored(rec, db[cur].events) => Stored(rec, db'[cur].events)
    PROVE  Honest(w, doc)'
  <1>1. InRaw(doc)' BY RawClaims DEF Honest
  <1>2. doc.fingerprint = Code(w) => InEvents(doc)' BY EventClaims DEF Honest
  <1> QED BY <1>1, <1>2 DEF Honest, Code

LEMMA SavedStays ==
    ASSUME OneCaller, SavedHonest, NEW w \in Worker, UNCHANGED <<meta, metaState, cur>>,
           RawTable' => RawTable, \A rec : Stored(rec, db[cur].raw) => Stored(rec, db'[cur].raw),
           \/ meta.fingerprint # Code(w)
           \/ /\ EventsTable' => EventsTable
              /\ \A rec : Stored(rec, db[cur].events) => Stored(rec, db'[cur].events)
    PROVE  SavedHonest'
  <1> SUFFICES ASSUME Readable, NEW v \in Worker PROVE Honest(v, meta)'
    BY DEF SavedHonest, Readable
  <1>1. v = w BY DEF OneCaller
  <1>2. PICK doc : doc = meta OBVIOUS
  <1>3. Honest(w, doc) BY <1>2 DEF SavedHonest
  <1>4. Honest(w, doc)' BY <1>2, <1>3, HonestStays
  <1> QED BY <1>1, <1>2, <1>4

\* A step that leaves case.json, the path and the tables alone.
LEMMA Quiet ==
    ASSUME Fresh, SavedHonest, UNCHANGED <<metaState, meta, cur, made, db>>
    PROVE  /\ Fresh' /\ SavedHonest'
           /\ RawTable' = RawTable /\ EventsTable' = EventsTable
           /\ \A w \in Worker : \A doc :
                 Honest(w, doc)' = Honest(w, doc) /\ InEvents(doc)' = InEvents(doc)
  <1>1. Fresh' BY DEF Fresh
  <1>2. SavedHonest' BY DEF SavedHonest, Readable, Honest, InRaw, InEvents, RawTable, EventsTable, Code
  <1>3. RawTable' = RawTable /\ EventsTable' = EventsTable BY DEF RawTable, EventsTable
  <1>4. \A w \in Worker : \A doc :
          Honest(w, doc)' = Honest(w, doc) /\ InEvents(doc)' = InEvents(doc)
    BY DEF Honest, InRaw, InEvents, RawTable, EventsTable, Code
  <1> QED BY <1>1, <1>2, <1>3, <1>4

LEMMA ReturnSeen ==
    ASSUME TypeOK, Fresh, SavedHonest, NEW w \in Worker, Return(w),
           UNCHANGED <<metaState, meta, cur, made, db>>
    PROVE  OnCourse(w)'
  <1>1. pc'[w] = "idle" /\ handle'[w] = 0 BY DEF Return, TypeOK, WorkerTypeOK
  <1>2. Progress(w)' BY <1>1, NothingOwed DEF Holds, InSection
  <1> QED BY <1>2, Quiet DEF OnCourse

\* The operations' first steps.
LEMMA BeginSeen ==
    ASSUME OneCaller, TypeOK, WorkersOK, Fresh, SavedHonest, NEW w \in Worker, Progress(w),
           \/ Create(w) \/ Connect(w) \/ Delete(w)
           \/ \E b \in Batch, force \in {FALSE, ForceAllowed} : AppendRecords(w, b, force)
    PROVE  OnCourse(w)'
  <1>1. UNCHANGED <<metaState, meta, cur, made, db, handle>> /\ handle[w] = 0
    <2>1. UNCHANGED <<metaState, meta, cur, made, db, handle>> /\ pc[w] = "idle"
      BY DEF Create, Connect, Delete, AppendRecords, Begin, metaVars, dbVars
    <2>2. Holds(w) BY DEF Progress
    <2> QED BY <2>1, <2>2 DEF Holds, InSection
  <1> USE DEF TypeOK, WorkerTypeOK, Goto
  <1>2. CASE Create(w)
    <2>1. pc'[w] = "create_tables" /\ metaState = "absent" BY <1>2 DEF Create
    <2>2. Progress(w)' BY <1>1, <2>1 DEF Progress, Holds, InSection, Appends, Rebuilds, Inserts
    <2> QED BY <1>1, <2>2, Quiet DEF OnCourse
  <1>3. CASE Delete(w)
    <2>1. pc'[w] = "rm" BY <1>3 DEF Delete
    <2>2. Progress(w)' BY <1>1, <2>1, NothingOwed DEF Holds, InSection
    <2> QED BY <1>1, <2>2, Quiet DEF OnCourse
  <1>4. CASE Connect(w)
    <2>1. /\ pc'[w] = IF meta.fingerprint = Code(w) THEN "analyze_open" ELSE "rebuild_open"
          /\ Readable /\ loc'[w].mem = meta
      BY <1>4 DEF Connect, NoLocal
    <2>2. pc'[w] = "analyze_open" => InEvents(meta) BY <2>1 DEF SavedHonest, Honest
    <2>3. pc'[w] = "analyze_open" => InEvents(loc[w].mem)'
      BY <1>1, <2>1, <2>2 DEF InEvents, EventsTable
    <2>4. Progress(w)'
      BY <1>1, <2>1, <2>3 DEF Progress, Holds, InSection, Appends, Rebuilds, Inserts, Readable, Code
    <2> QED BY <1>1, <2>4, Quiet DEF OnCourse
  <1>5. CASE \E b \in Batch, force \in {FALSE, ForceAllowed} : AppendRecords(w, b, force)
    <2>1. pc'[w] = "append_open" /\ Readable /\ loc'[w].mem = meta
      BY <1>5 DEF AppendRecords, NoLocal
    <2>2. Progress(w)'
      BY <1>1, <2>1 DEF Progress, Holds, InSection, Appends, Rebuilds, Inserts, Readable
    <2> QED BY <1>1, <2>2, Quiet DEF OnCourse
  <1> QED BY <1>2, <1>3, <1>4, <1>5

\* A save of what case.json says, with something else changed.
LEMMA SaveSeen ==
    ASSUME OneCaller, TypeOK, Fresh, SavedHonest, NEW w \in Worker, Readable,
           UNCHANGED <<metaState, meta, cur, made, db>>, handle'[w] = 0,
           pc'[w] = "truncate", loc'[w].op # "analyze",
           loc'[w].mem.sources = meta.sources, loc'[w].mem.fingerprint = meta.fingerprint
    PROVE  OnCourse(w)'
  <1>1. Honest(w, meta) BY DEF SavedHonest
  <1>2. Honest(w, loc[w].mem)'
    BY <1>1 DEF Honest, InRaw, InEvents, RawTable, EventsTable, Code
  <1>3. Progress(w)' BY <1>2 DEF Progress, Holds, InSection, Appends, Rebuilds, Inserts
  <1> QED BY <1>3, Quiet DEF OnCourse

LEMMA EditSeen ==
    ASSUME OneCaller, TypeOK, WorkersOK, Fresh, SavedHonest, NEW w \in Worker, Progress(w),
           \/ \E text \in Text : Note(w, text)
           \/ \E ips \in IpList : SetInfrastructureIps(w, ips)
    PROVE  OnCourse(w)'
  <1> USE DEF TypeOK, WorkerTypeOK, Goto
  <1>1. ASSUME NEW op \in {"note", "infra"}, NEW doc, Edit(w, op, doc),
               doc.sources = meta.sources, doc.fingerprint = meta.fingerprint
        PROVE  OnCourse(w)'
    <2>1. /\ Readable /\ UNCHANGED <<metaState, meta, cur, made, db, handle>> /\ pc[w] = "idle"
          /\ pc'[w] = "truncate" /\ loc'[w].mem = doc /\ loc'[w].op = op
      BY <1>1 DEF Edit, Begin, metaVars, dbVars, NoLocal
    <2>2. Holds(w) BY DEF Progress
    <2>3. handle'[w] = 0 BY <2>1, <2>2 DEF Holds, InSection
    <2> QED BY <1>1, <2>1, <2>3, SaveSeen
  <1>2. CASE \E text \in Text : Note(w, text)
    <2>1. PICK text \in Text : Edit(w, "note", [meta EXCEPT !.notes = Append(@, text)])
      BY <1>2 DEF Note
    <2>2. PICK doc : doc = [meta EXCEPT !.notes = Append(@, text)] OBVIOUS
    <2>3. doc.sources = meta.sources /\ doc.fingerprint = meta.fingerprint
      BY <2>2 DEF MetaTypeOK, Meta
    <2> QED BY <1>1, <2>1, <2>2, <2>3
  <1>3. CASE \E ips \in IpList : SetInfrastructureIps(w, ips)
    <2>1. PICK ips \in IpList : Edit(w, "infra", [meta EXCEPT !.infrastructure_ips = ips])
      BY <1>3 DEF SetInfrastructureIps
    <2>2. PICK doc : doc = [meta EXCEPT !.infrastructure_ips = ips] OBVIOUS
    <2>3. doc.sources = meta.sources /\ doc.fingerprint = meta.fingerprint
      BY <2>2 DEF MetaTypeOK, Meta
    <2> QED BY <1>1, <2>1, <2>2, <2>3
  <1> QED BY <1>2, <1>3

LEMMA CreateTablesSeen ==
    ASSUME OneCaller, TypeOK, WorkersOK, Fresh, SavedHonest, NEW w \in Worker, Progress(w),
           CreateTables(w)
    PROVE  OnCourse(w)'
  <1>1. pc[w] = "create_tables" /\ handle' = handle /\ UNCHANGED <<metaState, meta>>
    BY DEF CreateTables, metaVars
  <1>2. metaState = "absent" /\ handle[w] = 0 /\ Shared(w) = {}
    BY <1>1, HeldFile DEF Progress, InSection
  <1>3. PICK f \in File :
          /\ Open(w, f)
          /\ db' = [db EXCEPT ![f] = [db[f] EXCEPT
                       !.tables = Table, !.layout = LayoutUsed(w, f)]]
    BY DEF CreateTables
  <1>4. Fresh'
    <2>1. CASE f = cur /\ UNCHANGED <<cur, made>>
      BY <1>3, <2>1, FreshFile DEF TypeOK, DbTypeOK
    <2>2. CASE f = made + 1 /\ cur' = f /\ made' = f
      <3>1. made \in Nat /\ f \in Nat BY DEF TypeOK, DbTypeOK, File
      <3>2. \A g \in File : g > f => db'[g] = db[g]
        BY <1>3, <3>1 DEF TypeOK, DbTypeOK, File
      <3>3. \A g \in File : g > f => g > made BY <2>2, <3>1 DEF File
      <3>4. \A g \in File : g > made => db[g] = EmptyFile BY DEF Fresh
      <3>5. \A g \in File : g > made' => db'[g] = EmptyFile BY <2>2, <3>2, <3>3, <3>4
      <3>6. cur' =< made' BY <2>2, <3>1
      <3> QED BY <3>5, <3>6 DEF Fresh
    <2> QED BY <1>2, <1>3, <2>1, <2>2 DEF Open
  <1>5. SavedHonest' BY <1>1, <1>2 DEF SavedHonest, Readable
  <1>6. pc'[w] = "truncate" /\ loc'[w].mem = NewMeta(Code(w))
    BY DEF CreateTables, Goto, TypeOK, WorkerTypeOK, Local
  <1>7. PICK doc : doc = NewMeta(Code(w)) OBVIOUS
  <1>8. Honest(w, doc)' BY <1>7, NoSources DEF NewMeta
  <1>9. Progress(w)'
    BY <1>1, <1>2, <1>6, <1>7, <1>8
       DEF Progress, Holds, InSection, Appends, Rebuilds, Inserts, NewMeta, Code
  <1> QED BY <1>4, <1>5, <1>9 DEF OnCourse

\* A new file has no tables: it claims nothing, and no statement runs on it.
LEMMA OpenSeen ==
    ASSUME OneCaller, TypeOK, WorkersOK, Fresh, SavedHonest, NEW w \in Worker, Progress(w),
           AppendOpen(w) \/ RebuildOpen(w) \/ AnalyzeOpen(w)
    PROVE  OnCourse(w)'
  <1>1. /\ \/ pc[w] = "append_open" /\ pc'[w] = "append_start"
           \/ pc[w] = "rebuild_open" /\ pc'[w] = "rebuild_read"
           \/ pc[w] = "analyze_open" /\ pc'[w] = "analyze_read"
        /\ UNCHANGED <<metaState, meta, db, loc>>
        /\ \E f \in File : Open(w, f) /\ handle'[w] = f
    BY DEF AppendOpen, RebuildOpen, AnalyzeOpen, OpenDb, Goto, metaVars, TypeOK, WorkerTypeOK
  <1>2. Shared(w) = {} BY <1>1, HeldFile DEF Progress, InSection
  <1>3. \/ cur # 0 /\ cur' = cur /\ made' = made /\ handle'[w] = cur
        \/ cur' = made + 1 /\ made' = cur' /\ handle'[w] = cur' /\ cur' \in File
    BY <1>1, <1>2 DEF Open
  <1>4. made \in Nat BY DEF TypeOK, DbTypeOK
  <1>5. cur' = cur \/ (~RawTable' /\ ~EventsTable')
    <2> SUFFICES ASSUME cur' = made + 1, cur' \in File PROVE ~RawTable' /\ ~EventsTable'
      BY <1>3
    <2>1. db'[cur'] = EmptyFile BY <1>1, <1>4 DEF Fresh
    <2> QED BY <2>1 DEF RawTable, EventsTable, EmptyFile
  <1>6. Fresh' BY <1>1, <1>3, <1>4 DEF Fresh, File
  <1>7. \A doc : /\ InEvents(doc) => InEvents(doc)'
                 /\ Honest(w, doc) => Honest(w, doc)'
    BY <1>1, <1>5 DEF Honest, InEvents, InRaw, RawTable, EventsTable, Code
  <1>8. SavedHonest'
    <2> SUFFICES ASSUME Readable, NEW v \in Worker PROVE Honest(v, meta)'
      BY <1>1 DEF SavedHonest, Readable
    <2>1. v = w BY DEF OneCaller
    <2>2. PICK doc : doc = meta OBVIOUS
    <2>3. Honest(w, doc)' BY <1>7, <2>2 DEF SavedHonest
    <2> QED BY <1>1, <2>1, <2>2, <2>3
  <1>9. pc'[w] = "analyze_read" => InEvents(loc[w].mem)'
    <2>1. PICK doc : doc = loc[w].mem OBVIOUS
    <2>2. pc'[w] = "analyze_read" => InEvents(doc)' BY <1>1, <1>7, <2>1 DEF Progress
    <2> QED BY <1>1, <2>1, <2>2
  <1>10. Progress(w)'
    BY <1>1, <1>3, <1>9 DEF Progress, Holds, InSection, Appends, Rebuilds, Inserts, Readable, Code
  <1> QED BY <1>6, <1>8, <1>10 DEF OnCourse


\* Where a statement runs, and what it leaves alone.
LEMMA Within ==
    ASSUME OneCaller, TypeOK, WorkersOK, NEW w \in Worker, Progress(w), NEW label,
           label \in {"append_start", "append_raw", "insert", "stamp", "append_count",
                      "rebuild_read", "rebuild_drop", "rebuild_create", "rebuild_close",
                      "analyze_read"},
           InDb(w, label)
    PROVE  /\ pc[w] = label /\ handle[w] = cur /\ cur \in File /\ cur # 0 /\ db[cur] \in DbFile
           /\ UNCHANGED <<dir, metaState, meta, metaInc, cur, made>>
  BY HeldFile DEF Progress, InDb, InSection, metaVars

\* What case.json claims of the events outlives a statement that takes none
\* away; every statement of an append and of a rebuild keeps the raw rows.
LEMMA StatementSeen ==
    ASSUME OneCaller, TypeOK, SavedHonest, Fresh, NEW w \in Worker, Step(w),
           UNCHANGED <<metaState, meta, cur, made>>, cur \in File,
           \A f \in File : f # cur => db'[f] = db[f],
           db'[cur].tables \subseteq db[cur].tables \cup {"events"},
           \/ meta.fingerprint # Code(w)
           \/ /\ db'[cur].tables = db[cur].tables
              /\ \A rec : Stored(rec, db[cur].events) => Stored(rec, db'[cur].events)
    PROVE  Fresh' /\ SavedHonest'
  <1>1. \A rec : Stored(rec, db[cur].raw) => Stored(rec, db'[cur].raw) BY RawGrows
  <1>2. RawTable' => RawTable BY DEF RawTable
  <1>3. db'[cur].tables = db[cur].tables => EventsTable' = EventsTable BY DEF EventsTable
  <1>4. SavedHonest' BY <1>1, <1>2, <1>3, SavedStays
  <1> QED BY <1>4, FreshFile

LEMMA AppendStartSeen ==
    ASSUME OneCaller, TypeOK, WorkersOK, Fresh, SavedHonest, NEW w \in Worker, Progress(w),
           AppendStart(w)
    PROVE  OnCourse(w)'
  <1>1. /\ pc[w] = "append_start" /\ handle[w] = cur /\ cur \in File
        /\ UNCHANGED <<metaState, meta, cur, made, db, handle>>
    BY Within DEF AppendStart
  <1>2. pc'[w] = IF loc[w].recs = <<>> THEN "append_count" ELSE "append_raw"
    BY DEF AppendStart, RawFirst, Goto, TypeOK, WorkerTypeOK
  <1>3. loc'[w].mem = loc[w].mem /\ loc'[w].recs = loc[w].recs
    BY DEF AppendStart, TypeOK, WorkerTypeOK, Local
  <1>4. Readable /\ loc[w].mem = meta BY <1>1 DEF Progress, Appends
  <1>5. pc'[w] = "append_count" => AllIn(loc'[w].recs, db'[cur].events)
    BY <1>2, <1>3, EmptySeq DEF AllIn, Indices
  <1>6. Progress(w)'
    BY <1>1, <1>2, <1>3, <1>4, <1>5
       DEF Progress, Holds, InSection, Appends, Rebuilds, Inserts, Readable
  <1> QED BY <1>1, <1>6, Quiet DEF OnCourse

LEMMA AppendRawSeen ==
    ASSUME OneCaller, TypeOK, WorkersOK, Fresh, SavedHonest, NEW w \in Worker, Progress(w),
           Step(w), AppendRaw(w)
    PROVE  OnCourse(w)'
  <1>1. /\ pc[w] = "append_raw" /\ handle[w] = cur /\ cur \in File /\ cur # 0
        /\ UNCHANGED <<metaState, meta, cur, made, handle>>
    BY Within DEF AppendRaw
  <1>2. PICK k \in 1..(Len(loc[w].recs) - loc[w].done) :
          /\ db' = [db EXCEPT ![cur].raw = @ \o RawRows(w, k)]
          /\ IF loc[w].done + k = Len(loc[w].recs)
             THEN loc' = [loc EXCEPT ![w].done = 0] /\ Goto(w, "insert")
             ELSE loc' = [loc EXCEPT ![w].done = @ + k] /\ UNCHANGED pc
    BY <1>1 DEF AppendRaw
  <1>3. /\ \A f \in File : f # cur => db'[f] = db[f]
        /\ db'[cur].tables = db[cur].tables /\ db'[cur].events = db[cur].events
    BY <1>1, <1>2 DEF TypeOK, DbTypeOK, DbFile
  <1>4. Fresh' /\ SavedHonest' BY <1>1, <1>3, StatementSeen
  <1>5. /\ pc'[w] \in {"append_raw", "insert"} /\ (pc'[w] = "insert" => loc'[w].done = 0)
        /\ loc'[w].mem = loc[w].mem /\ loc'[w].op = loc[w].op
    BY <1>1, <1>2 DEF Goto, TypeOK, WorkerTypeOK, Local
  <1>6. Readable /\ loc[w].mem = meta /\ loc[w].op = "append"
    BY <1>1 DEF Progress, Appends, WorkersOK, AppendOK
  <1>7. Progress(w)'
    BY <1>1, <1>5, <1>6 DEF Progress, Holds, InSection, Appends, Rebuilds, Inserts, Readable
  <1> QED BY <1>4, <1>7 DEF OnCourse

LEMMA InsertSeen ==
    ASSUME OneCaller, TypeOK, WorkersOK, Fresh, SavedHonest, NEW w \in Worker, Progress(w),
           Step(w), InsertRecords(w)
    PROVE  OnCourse(w)'
  <1>1. /\ pc[w] = "insert" /\ handle[w] = cur /\ cur \in File /\ cur # 0 /\ db[cur] \in DbFile
        /\ UNCHANGED <<metaState, meta, cur, made>>
    BY Within DEF InsertRecords
  <1>2. PICK k \in 1..(Len(loc[w].recs) - loc[w].done) :
             /\ k \in Nat /\ loc[w].done + k <= Len(loc[w].recs)
             /\ db[cur].events \in Seq(EventRow)
             /\ EventRows(w, k) \in Seq(EventRow) /\ Len(EventRows(w, k)) = k
             /\ db'[cur] = [db[cur] EXCEPT !.events = @ \o EventRows(w, k)]
             /\ handle'[w] = handle[w]
             /\ loc'[w] = [loc[w] EXCEPT !.done = @ + k]
             /\ pc'[w] = IF loc[w].done + k = Len(loc[w].recs) THEN "stamp" ELSE "insert"
    BY <1>1, EventsInserted
  <1>3. /\ db'[cur].events = db[cur].events \o EventRows(w, k)
        /\ db'[cur].tables = db[cur].tables /\ db'[cur].raw = db[cur].raw
    BY <1>1, <1>2 DEF DbFile
  <1>4. \A rec : Stored(rec, db[cur].events) => Stored(rec, db'[cur].events)
    BY <1>2, <1>3, StoredConcat
  <1>5. \A f \in File : f # cur => db'[f] = db[f]
    BY <1>1 DEF InsertRecords, TypeOK, DbTypeOK
  <1>6. Fresh' /\ SavedHonest' BY <1>1, <1>3, <1>4, <1>5, StatementSeen
  <1>7. /\ loc'[w].done = loc[w].done + k /\ loc'[w].recs = loc[w].recs
        /\ loc'[w].op = loc[w].op /\ loc'[w].mem = loc[w].mem
    BY <1>2, LocalType DEF Local
  <1>8. loc[w].done \in Nat /\ Len(loc[w].recs) \in Nat BY LocalType
  <1>9. \A i \in 1..(loc[w].done + k) : Stored(loc[w].recs[i], db'[cur].events)
    <2> TAKE i \in 1..(loc[w].done + k)
    <2>1. CASE i <= loc[w].done
      <3>1. Stored(loc[w].recs[i], db[cur].events) BY <1>1, <1>8, <2>1 DEF Progress
      <3> QED BY <1>4, <3>1
    <2>2. CASE i > loc[w].done
      <3> DEFINE j == i - loc[w].done
      <3>1. j \in 1..k BY <1>2, <1>8, <2>2
      <3>2. EventRows(w, k)[j].rec = loc[w].recs[loc[w].done + j] BY <3>1 DEF EventRows
      <3>3. loc[w].done + j = i BY <1>8
      <3>4. j \in 1..Len(EventRows(w, k)) BY <1>2, <3>1
      <3> HIDE DEF j
      <3>5. Stored(EventRows(w, k)[j].rec, db[cur].events \o EventRows(w, k))
        BY <1>2, <3>4, StoredAppended
      <3> QED BY <1>3, <3>2, <3>3, <3>5
    <2> QED BY <1>8, <2>1, <2>2
  <1>10. pc'[w] = "stamp" => AllIn(loc'[w].recs, db'[cur].events)
    BY <1>2, <1>7, <1>9 DEF AllIn, Indices
  <1>11. Appends(w) => Readable /\ loc[w].mem = meta BY DEF Progress
  <1>12. Inserts(w, "analyze") => Readable /\ meta.fingerprint # Code(w) /\ AllRead(w)
    BY DEF Progress, Rebuilds
  <1>13. AllRead(w) => AllRead(w)' BY <1>1, <1>3, <1>7 DEF AllRead, RawTable
  <1>14. pc'[w] \in {"insert", "stamp"} /\ Holds(w)'
    BY <1>1, <1>2 DEF Holds, InSection
  <1>15. pc'[w] = "insert" => \A i \in 1..loc'[w].done : Stored(loc'[w].recs[i], db'[cur].events)
    BY <1>7, <1>9
  <1>16. Appends(w)' => Readable' /\ loc'[w].mem = meta'
    BY <1>1, <1>7, <1>11, <1>14 DEF Appends, Inserts, Readable
  <1>17. Inserts(w, "analyze")' => Inserts(w, "analyze") BY <1>1, <1>7 DEF Inserts
  <1>18. Rebuilds(w)' => Readable' /\ meta'.fingerprint # Code(w)
    BY <1>1, <1>12, <1>14, <1>17 DEF Rebuilds, Readable
  <1>19. Inserts(w, "analyze")' => AllRead(w)' BY <1>12, <1>13, <1>17
  <1>20. Progress(w)'
    BY <1>1, <1>10, <1>14, <1>15, <1>16, <1>18, <1>19 DEF Progress, Code
  <1> QED BY <1>6, <1>20 DEF OnCourse

LEMMA StampSeen ==
    ASSUME OneCaller, TypeOK, WorkersOK, Fresh, SavedHonest, NEW w \in Worker, Progress(w),
           Step(w), StampTimes(w)
    PROVE  OnCourse(w)'
  <1>1. /\ pc[w] = "stamp" /\ handle[w] = cur /\ cur \in File /\ cur # 0 /\ db[cur] \in DbFile
        /\ UNCHANGED <<metaState, meta, cur, made, loc, handle>>
    BY Within DEF StampTimes
  <1>2. /\ db'[cur] = [db[cur] EXCEPT !.events = Stamped(@, loc[w].start)]
        /\ Len(db'[cur].events) = Len(db[cur].events)
        /\ \A i \in Indices(db[cur].events) : db'[cur].events[i].rec = db[cur].events[i].rec
        /\ pc'[w] = IF loc[w].op = "append" THEN "append_count" ELSE "rebuild_close"
    BY <1>1, EventsStamped
  <1>3. db'[cur].tables = db[cur].tables /\ db'[cur].raw = db[cur].raw
    BY <1>1, <1>2 DEF DbFile
  <1>4. \A rec : Stored(rec, db[cur].events) => Stored(rec, db'[cur].events)
    BY <1>2 DEF Stored, Indices
  <1>5. \A f \in File : f # cur => db'[f] = db[f] BY <1>1 DEF StampTimes, TypeOK, DbTypeOK
  <1>6. Fresh' /\ SavedHonest' BY <1>1, <1>3, <1>4, <1>5, StatementSeen
  <1>7. AllIn(loc[w].recs, db'[cur].events) BY <1>1, <1>4 DEF Progress, AllIn
  <1>8. loc[w].op \in {"append", "analyze"} BY <1>1 DEF WorkersOK, AppendOK
  <1>9. CASE loc[w].op = "append"
    <2>1. Readable /\ loc[w].mem = meta BY <1>1, <1>9 DEF Progress, Appends, Inserts
    <2>2. Progress(w)'
      BY <1>1, <1>2, <1>7, <1>9, <2>1
         DEF Progress, Holds, InSection, Appends, Rebuilds, Inserts, Readable
    <2> QED BY <1>6, <2>2 DEF OnCourse
  <1>10. CASE loc[w].op = "analyze"
    <2>1. Readable /\ meta.fingerprint # Code(w) /\ AllRead(w)
      BY <1>1, <1>10 DEF Progress, Rebuilds, Inserts
    <2>2. AllRebuilt' BY <1>1, <1>3, <1>7, <2>1 DEF AllRead, AllRebuilt, AllIn, RawTable
    <2>3. Progress(w)'
      BY <1>1, <1>2, <1>10, <2>1, <2>2
         DEF Progress, Holds, InSection, Appends, Rebuilds, Inserts, Readable, Code
    <2> QED BY <1>6, <2>3 DEF OnCourse
  <1> QED BY <1>8, <1>9, <1>10


LEMMA BatchStored ==
    ASSUME NEW b \in Batch, NEW rows, AllIn(RecsOf(b), rows)
    PROVE  AllStored(b, rows)
  <1>1. Len(RecsOf(b)) = SizeOf[b] BY RecsOfType
  <1>2. \A i \in 1..SizeOf[b] : RecsOf(b)[i] = [batch |-> b, pos |-> i] BY DEF RecsOf
  <1> QED BY <1>1, <1>2 DEF AllIn, AllStored, Indices

\* An append's count: the batch joins the sources once all of it is stored.
LEMMA AppendCountSeen ==
    ASSUME OneCaller, TypeOK, WorkersOK, Fresh, SavedHonest, NEW w \in Worker, Progress(w),
           AppendCount(w)
    PROVE  OnCourse(w)'
  <1>1. /\ pc[w] = "append_count" /\ handle[w] = cur /\ cur \in File /\ cur # 0
        /\ UNCHANGED <<metaState, meta, cur, made, db>>
    BY Within DEF AppendCount
  <1>2. Readable /\ loc[w].mem = meta /\ AllIn(loc[w].recs, db[cur].events)
    BY <1>1 DEF Progress, Appends
  <1>3. AllIn(loc[w].recs, db[cur].raw) /\ loc[w].op = "append"
    BY <1>1 DEF WorkersOK, RecsOK, AppendOK
  <1>4. PICK b \in loc[w].adding : loc' = [loc EXCEPT ![w].mem = WithSource(w, b)]
    BY DEF AppendCount
  <1>5. b \in Batch /\ loc[w].recs = RecsOf(b) BY <1>3, <1>4 DEF WorkersOK, AppendOK
  <1>6. AllStored(b, db[cur].raw) /\ AllStored(b, db[cur].events)
    BY <1>2, <1>3, <1>5, BatchStored
  <1>7. PICK doc : doc = WithSource(w, b) OBVIOUS
  <1>8. doc.sources = Append(meta.sources, b) /\ doc.fingerprint = meta.fingerprint
    BY <1>2, <1>7 DEF WithSource, TypeOK, MetaTypeOK, Meta
  <1>9. meta.sources \in Seq(Batch) BY DEF TypeOK, MetaTypeOK, Meta
  <1>10. \A i \in Indices(doc.sources) :
           \/ i \in Indices(meta.sources) /\ doc.sources[i] = meta.sources[i]
           \/ doc.sources[i] = b
    BY <1>8, <1>9 DEF Indices
  <1>11. Honest(w, meta) BY <1>2 DEF SavedHonest
  <1>12. Honest(w, doc) BY <1>6, <1>8, <1>10, <1>11 DEF Honest, InRaw, InEvents
  <1>13. /\ pc'[w] = "truncate" /\ handle'[w] = 0 /\ loc'[w].mem = doc /\ loc'[w].op = "append"
    BY <1>3, <1>4, <1>7 DEF AppendCount, Goto, TypeOK, WorkerTypeOK, Local
  <1>14. Honest(w, doc)' BY <1>1, <1>12, Quiet
  <1>15. Progress(w)' BY <1>13, <1>14 DEF Progress, Holds, InSection, Appends, Rebuilds, Inserts
  <1> QED BY <1>1, <1>15, Quiet DEF OnCourse

LEMMA RebuildReadSeen ==
    ASSUME OneCaller, TypeOK, WorkersOK, Fresh, SavedHonest, NEW w \in Worker, Progress(w),
           RebuildRead(w)
    PROVE  OnCourse(w)'
  <1>1. /\ pc[w] = "rebuild_read" /\ handle[w] = cur /\ cur \in File /\ cur # 0
        /\ db[cur] \in DbFile
        /\ UNCHANGED <<metaState, meta, cur, made, db, handle>>
    BY Within DEF RebuildRead
  <1>2. PICK recs \in Orders(db[cur].raw) :
          loc' = [loc EXCEPT ![w] = [@ EXCEPT !.recs = recs, !.start = 0, !.done = 0]]
    BY <1>1 DEF RebuildRead
  <1>3. RawTable BY <1>1 DEF RebuildRead, InDb, Runs, RawTable
  <1>4. \A i \in Indices(db[cur].raw) : \E j \in Indices(recs) : recs[j] = db[cur].raw[i].rec
    BY <1>1, OrdersCover DEF DbFile
  <1>5. loc'[w].recs = recs /\ loc'[w].done = 0 /\ pc'[w] = "rebuild_drop"
    BY <1>2 DEF RebuildRead, Goto, TypeOK, WorkerTypeOK, Local
  <1>6. AllRead(w)' BY <1>1, <1>3, <1>4, <1>5 DEF AllRead, RawTable
  <1>7. Readable /\ meta.fingerprint # Code(w) BY <1>1 DEF Progress, Rebuilds
  <1>8. Progress(w)'
    BY <1>1, <1>5, <1>6, <1>7
       DEF Progress, Holds, InSection, Appends, Rebuilds, Inserts, Readable, Code
  <1> QED BY <1>1, <1>8, Quiet DEF OnCourse

\* The events go and come back while case.json still names the old version.
LEMMA RebuildTablesSeen ==
    ASSUME OneCaller, TypeOK, WorkersOK, Fresh, SavedHonest, NEW w \in Worker, Progress(w),
           Step(w), RebuildDrop(w) \/ RebuildCreate(w)
    PROVE  OnCourse(w)'
  <1>1. /\ pc[w] \in {"rebuild_drop", "rebuild_create"}
        /\ handle[w] = cur /\ cur \in File /\ cur # 0 /\ db[cur] \in DbFile
        /\ UNCHANGED <<metaState, meta, cur, made, loc, handle>>
    BY Within DEF RebuildDrop, RebuildCreate
  <1>2. /\ Readable /\ meta.fingerprint # Code(w) /\ AllRead(w) /\ loc[w].done = 0
        /\ loc[w].op = "analyze"
    BY <1>1 DEF Progress, Rebuilds, WorkersOK, AppendOK, ConnectPC
  <1>3. /\ \A f \in File : f # cur => db'[f] = db[f]
        /\ db'[cur].raw = db[cur].raw
        /\ db'[cur].tables \subseteq db[cur].tables \cup {"events"}
        /\ "raw_records" \in db[cur].tables => "raw_records" \in db'[cur].tables
    <2> USE DEF TypeOK, DbTypeOK, DbFile
    <2>1. CASE RebuildDrop(w) BY <1>1, <2>1 DEF RebuildDrop
    <2>2. CASE RebuildCreate(w) BY <1>1, <2>2 DEF RebuildCreate
    <2> QED BY <2>1, <2>2
  <1>4. Fresh' /\ SavedHonest' BY <1>1, <1>2, <1>3, StatementSeen
  <1>5. AllRead(w)' BY <1>1, <1>2, <1>3 DEF AllRead, RawTable
  <1>6. CASE RebuildDrop(w)
    <2>1. pc'[w] = "rebuild_create" BY <1>6, EventsDropped
    <2>2. Progress(w)'
      BY <1>1, <1>2, <1>5, <2>1
         DEF Progress, Holds, InSection, Appends, Rebuilds, Inserts, Readable, Code
    <2> QED BY <1>4, <2>2 DEF OnCourse
  <1>7. CASE RebuildCreate(w)
    <2>1. pc'[w] = IF loc[w].recs = <<>> THEN "rebuild_close" ELSE "insert"
      BY <1>7 DEF RebuildCreate, Goto, TypeOK, WorkerTypeOK
    <2>2. loc[w].recs = <<>> => AllRebuilt'
      BY <1>1, <1>5, EmptySeq DEF AllRead, AllRebuilt, Indices
    <2>3. Progress(w)'
      BY <1>1, <1>2, <1>5, <2>1, <2>2
         DEF Progress, Holds, InSection, Appends, Rebuilds, Inserts, Readable, Code
    <2> QED BY <1>4, <2>3 DEF OnCourse
  <1> QED BY <1>6, <1>7

LEMMA RebuildCloseSeen ==
    ASSUME OneCaller, TypeOK, WorkersOK, Fresh, SavedHonest, NEW w \in Worker, Progress(w),
           RebuildClose(w)
    PROVE  OnCourse(w)'
  <1>1. pc[w] = "rebuild_close" /\ UNCHANGED <<metaState, meta, cur, made, db>>
    BY Within DEF RebuildClose
  <1>2. Readable /\ meta.fingerprint # Code(w) /\ AllRebuilt BY <1>1 DEF Progress, Rebuilds
  <1>3. pc'[w] = "rebuild_load" /\ handle'[w] = 0
    BY DEF RebuildClose, Goto, TypeOK, WorkerTypeOK
  <1>4. AllRebuilt' BY <1>1, <1>2 DEF AllRebuilt, RawTable
  <1>5. Progress(w)'
    BY <1>1, <1>2, <1>3, <1>4
       DEF Progress, Holds, InSection, Appends, Rebuilds, Inserts, Readable, Code
  <1> QED BY <1>1, <1>5, Quiet DEF OnCourse

\* What case.json claims of the raw records now holds of the events too.
LEMMA RebuildLoadSeen ==
    ASSUME OneCaller, TypeOK, WorkersOK, Fresh, SavedHonest, NEW w \in Worker, Progress(w),
           RebuildLoad(w)
    PROVE  OnCourse(w)'
  <1>1. pc[w] = "rebuild_load" /\ UNCHANGED <<metaState, meta, cur, made, db>>
    BY DEF RebuildLoad, metaVars, dbVars
  <1>2. Readable /\ AllRebuilt /\ handle[w] = 0
    BY <1>1 DEF Progress, Rebuilds, Holds, InSection
  <1>3. PICK doc : doc = [meta EXCEPT !.fingerprint = Code(w), !.record_count = Len(loc[w].recs)]
    OBVIOUS
  <1>4. pc'[w] = "truncate" /\ handle' = handle /\ loc'[w].mem = doc
    BY <1>2, <1>3 DEF RebuildLoad, Goto, TypeOK, WorkerTypeOK, Local
  <1>5. doc.sources = meta.sources /\ doc.fingerprint = Code(w)
    BY <1>3 DEF TypeOK, MetaTypeOK, Meta
  <1>6. InRaw(meta) BY <1>2 DEF SavedHonest, Honest
  <1>7. \A rec : Stored(rec, db[cur].raw) => Stored(rec, db[cur].events)
    BY <1>2 DEF AllRebuilt, Stored
  <1>8. InEvents(meta) BY <1>2, <1>6, <1>7 DEF AllRebuilt, InRaw, InEvents, AllStored
  <1>9. Honest(w, doc) BY <1>5, <1>6, <1>8 DEF Honest, InRaw, InEvents
  <1>10. Honest(w, doc)' BY <1>1, <1>9, Quiet
  <1>11. Progress(w)'
    BY <1>2, <1>4, <1>5, <1>10
       DEF Progress, Holds, InSection, Appends, Rebuilds, Inserts, Code
  <1> QED BY <1>1, <1>11, Quiet DEF OnCourse

LEMMA DigestSeen ==
    ASSUME OneCaller, TypeOK, WorkersOK, Fresh, SavedHonest, NEW w \in Worker, Progress(w),
           AnalyzeRead(w) \/ DigestLoad(w)
    PROVE  OnCourse(w)'
  <1>1. CASE AnalyzeRead(w)
    <2>1. UNCHANGED <<metaState, meta, cur, made, db>> BY <1>1, Within DEF AnalyzeRead
    <2>2. CASE Return(w) BY <2>1, <2>2, ReturnSeen
    <2>3. CASE ~Return(w)
      <3>1. pc'[w] = "digest_load" /\ handle'[w] = 0 /\ loc'[w].op = "digest"
        BY <1>1, <2>3 DEF AnalyzeRead, Goto, TypeOK, WorkerTypeOK, Local
      <3>2. Progress(w)' BY <3>1 DEF Progress, Holds, InSection, Appends, Rebuilds, Inserts
      <3> QED BY <2>1, <3>2, Quiet DEF OnCourse
    <2> QED BY <2>2, <2>3
  <1>2. CASE DigestLoad(w)
    <2>1. pc[w] = "digest_load" /\ UNCHANGED <<metaState, meta, cur, made, db>>
      BY <1>2 DEF DigestLoad, metaVars, dbVars
    <2>2. CASE ~Readable BY <1>2, <2>1, <2>2, ReturnSeen DEF DigestLoad
    <2>3. CASE Readable
      <3>1. PICK doc : doc = [meta EXCEPT !.digest = loc[w].seen] OBVIOUS
      <3>2. doc.sources = meta.sources /\ doc.fingerprint = meta.fingerprint
        BY <3>1 DEF TypeOK, MetaTypeOK, Meta
      <3>3. /\ pc'[w] = "truncate" /\ handle' = handle
            /\ loc' = [loc EXCEPT ![w].mem = doc]
        BY <1>2, <2>3, <3>1 DEF DigestLoad, Goto, TypeOK, WorkerTypeOK
      <3>4. handle[w] = 0 /\ loc[w].op = "digest" BY <2>1 DEF Progress, Holds, InSection
      <3>5. loc'[w].mem = doc /\ loc'[w].op = loc[w].op
        BY <3>3 DEF TypeOK, WorkerTypeOK, Local
      <3> QED BY <2>1, <2>3, <3>2, <3>3, <3>4, <3>5, SaveSeen
    <2> QED BY <2>2, <2>3
  <1> QED BY <1>1, <1>2

LEMMA TruncateSeen ==
    ASSUME OneCaller, TypeOK, WorkersOK, Fresh, SavedHonest, NEW w \in Worker, Progress(w),
           Truncate(w)
    PROVE  OnCourse(w)'
  <1>1. pc[w] = "truncate" /\ UNCHANGED <<meta, cur, made, db>> BY DEF Truncate, dbVars
  <1>2. CASE dir
    <2>1. /\ metaState' = "empty" /\ pc'[w] = "write" /\ handle' = handle
          /\ loc'[w].mem = loc[w].mem /\ loc'[w].op = loc[w].op
      BY <1>2 DEF Truncate, Goto, TypeOK, WorkerTypeOK, Local
    <2>2. /\ handle[w] = 0 /\ Honest(w, loc[w].mem)
          /\ loc[w].op = "analyze" => loc[w].mem.fingerprint = Code(w)
      BY <1>1 DEF Progress, Holds, InSection
    <2>3. Honest(w, loc[w].mem)'
      BY <1>1, <2>1, <2>2 DEF Honest, InRaw, InEvents, RawTable, EventsTable, Code
    <2>4. Progress(w)'
      BY <2>1, <2>2, <2>3 DEF Progress, Holds, InSection, Appends, Rebuilds, Inserts, Code
    <2>5. Fresh' /\ SavedHonest' BY <1>1, <2>1 DEF Fresh, SavedHonest, Readable
    <2> QED BY <2>4, <2>5 DEF OnCourse
  <1>3. CASE ~dir BY <1>1, <1>3, ReturnSeen DEF Truncate
  <1> QED BY <1>2, <1>3

LEMMA WriteSeen ==
    ASSUME OneCaller, TypeOK, WorkersOK, Fresh, SavedHonest, NEW w \in Worker, Progress(w),
           Write(w)
    PROVE  OnCourse(w)'
  <1>1. pc[w] = "write" /\ UNCHANGED <<cur, made, db>> BY DEF Write, dbVars
  <1>2. PICK doc : doc = loc[w].mem OBVIOUS
  <1>3. /\ handle[w] = 0 /\ Honest(w, doc)
        /\ loc[w].op = "analyze" => doc.fingerprint = Code(w)
    BY <1>1, <1>2 DEF Progress, Holds, InSection
  <1>4. Honest(w, doc)' BY <1>1, <1>3 DEF Honest, InRaw, InEvents, RawTable, EventsTable, Code
  <1>5. SavedHonest'
    <2>1. CASE loc[w].inc = metaInc
      <3>1. meta' = doc BY <1>2, <2>1 DEF Write
      <3> QED BY <1>4, <3>1 DEF SavedHonest, Honest, InRaw, InEvents, Code, OneCaller
    <2>2. CASE loc[w].inc # metaInc
      <3>1. UNCHANGED <<meta, metaState>> BY <2>2 DEF Write
      <3> QED BY <1>1, <3>1, Quiet
    <2> QED BY <2>1, <2>2
  <1>6. Fresh' BY <1>1 DEF Fresh
  <1>7. Progress(w)'
    <2>1. CASE loc[w].op = "analyze"
      <3>1. pc'[w] = "analyze_open" /\ handle' = handle /\ loc' = loc
        BY <2>1 DEF Write, Goto, TypeOK, WorkerTypeOK
      <3>2. InEvents(doc)' BY <1>1, <1>3, <2>1 DEF Honest, InEvents, EventsTable
      <3>3. InEvents(loc[w].mem)' BY <1>2, <3>1, <3>2
      <3> QED BY <1>3, <3>1, <3>3 DEF Progress, Holds, InSection, Appends, Rebuilds, Inserts
    <2>2. CASE loc[w].op # "analyze"
      <3>1. pc'[w] = "idle" /\ handle'[w] = 0
        BY <2>2 DEF Write, Return, TypeOK, WorkerTypeOK
      <3> QED BY <3>1, NothingOwed DEF Holds, InSection
    <2> QED BY <2>1, <2>2
  <1> QED BY <1>5, <1>6, <1>7 DEF OnCourse

LEMMA DeleteSeen ==
    ASSUME OneCaller, TypeOK, WorkersOK, Fresh, SavedHonest, NEW w \in Worker, Progress(w),
           Unlink(w) \/ RmDir(w)
    PROVE  OnCourse(w)'
  <1>1. pc[w] = "rm" /\ UNCHANGED <<meta, made, db>> BY DEF Unlink, RmDir, dbVars
  <1>2. handle[w] = 0 BY <1>1 DEF Progress, Holds, InSection
  <1>3. CASE Return(w) /\ UNCHANGED <<metaState, cur>> BY <1>1, <1>3, ReturnSeen
  <1>4. CASE UNCHANGED <<cur, pc, handle>> /\ metaState' = "absent"
    <2>1. Progress(w)' BY <1>1, <1>2, <1>4, NothingOwed DEF Holds, InSection
    <2>2. Fresh' /\ SavedHonest' BY <1>1, <1>4 DEF Fresh, SavedHonest, Readable
    <2> QED BY <2>1, <2>2 DEF OnCourse
  <1>5. CASE UNCHANGED <<metaState, pc, handle>> /\ cur' = 0
    <2>1. Progress(w)' BY <1>1, <1>2, <1>5, NothingOwed DEF Holds, InSection
    <2>2. Fresh' BY <1>1, <1>5 DEF Fresh, TypeOK, DbTypeOK
    <2>3. SavedHonest'
      BY <1>5 DEF SavedHonest, Honest, InRaw, InEvents, RawTable, EventsTable
    <2> QED BY <2>1, <2>2, <2>3 DEF OnCourse
  <1> QED BY <1>3, <1>4, <1>5 DEF Unlink, RmDir, dbVars

LEMMA EndSeen ==
    ASSUME OneCaller, TypeOK, WorkersOK, Fresh, SavedHonest, NEW w \in Worker, Progress(w),
           OpenRefused(w) \/ DbError(w) \/ Fail(w)
    PROVE  OnCourse(w)'
  BY ReturnSeen DEF OpenRefused, DbError, Fail, metaVars, dbVars

LEMMA SeenInit == Init => SeenInv
  <1> SUFFICES ASSUME Init PROVE SeenInv OBVIOUS
  <1>1. TypeOK /\ WorkersOK BY DerivedInit DEF DerivedInv
  <1>2. \A w \in Worker : Progress(w)
    BY DEF Init, Progress, Holds, InSection, Appends, Rebuilds, Inserts
  <1>3. CASE NoCase
    BY <1>1, <1>2, <1>3 DEF NoCase, Fresh, SavedHonest, Readable, SeenInv
  <1>4. ASSUME NEW b \in Batch, NEW layout \in OldLayouts, EarlierCase(b, layout)
        PROVE  SeenInv
    <2> DEFINE file == EarlierFile(b, layout)
    <2>1. cur = 1 /\ made = 1 /\ 1 \in File /\ db[cur] = file
      BY <1>4, BoundAssumption DEF EarlierCase, File
    <2>2. Fresh BY <1>4, <2>1 DEF EarlierCase, Fresh, File
    <2>3. SizeOf[b] \in Nat BY BatchAssumption
    <2>4. Len(file.events) = SizeOf[b] /\ Len(file.raw) = SizeOf[b]
      BY <2>3, LenProperties DEF EarlierFile
    <2>5. \A i \in 1..SizeOf[b] :
            file.raw[i].rec = [batch |-> b, pos |-> i] /\ file.events[i].rec = [batch |-> b, pos |-> i]
      BY DEF EarlierFile, RecsOf
    <2> HIDE DEF file
    <2>6. AllStored(b, db[cur].raw) /\ AllStored(b, db[cur].events)
      BY <2>1, <2>4, <2>5 DEF AllStored, Stored, Indices
    <2>7. meta.sources = <<b>> BY <1>4 DEF EarlierCase, NewMeta
    <2>8. \A i \in Indices(meta.sources) : meta.sources[i] = b BY <2>7 DEF Indices
    <2>9. SavedHonest BY <2>6, <2>8 DEF SavedHonest, Honest, InRaw, InEvents
    <2> QED BY <1>1, <1>2, <2>2, <2>9 DEF SeenInv
  <1> QED BY <1>3, <1>4 DEF Init

LEMMA SeenStep ==
    ASSUME OneCaller, SeenInv, NEW w \in Worker, Step(w)
    PROVE  SeenInv'
  <1>1. TypeOK /\ WorkersOK /\ Fresh /\ SavedHonest /\ Progress(w) BY DEF SeenInv
  <1>2. OnCourse(w)'
    BY <1>1, BeginSeen, EditSeen, CreateTablesSeen, OpenSeen, AppendStartSeen, AppendRawSeen,
       InsertSeen, StampSeen, AppendCountSeen, RebuildReadSeen, RebuildTablesSeen,
       RebuildCloseSeen, RebuildLoadSeen, DigestSeen, TruncateSeen, WriteSeen, DeleteSeen,
       EndSeen DEF Step
  <1>3. TypeOK' /\ WorkersOK' BY <1>1, StepType, WorkersStep
  <1>4. \A v \in Worker : Progress(v)' BY <1>2 DEF OneCaller, OnCourse
  <1> QED BY <1>2, <1>3, <1>4 DEF OnCourse, SeenInv

LEMMA SeenNext == OneCaller /\ SeenInv /\ [Next]_vars => SeenInv'
  <1> SUFFICES ASSUME OneCaller, SeenInv, [Next]_vars PROVE SeenInv' OBVIOUS
  <1>1. CASE UNCHANGED vars
    <2> USE <1>1 DEF SeenInv, vars, metaVars, dbVars
    <2>1. TypeOK' BY StutterType
    <2>2. WorkersOK' BY DEF WorkersOK, HandleOK, AppendOK, RecsOK, InSection
    <2>3. Fresh' /\ SavedHonest' BY Quiet
    <2>4. \A w \in Worker : Progress(w)'
      <3> TAKE w \in Worker
      <3>1. Progress(w) OBVIOUS
      <3> QED BY <3>1 DEF Progress, Holds, InSection, Appends, Rebuilds, Inserts, AllRead,
                AllRebuilt, Honest, InRaw, InEvents, RawTable, EventsTable, Readable, Code
    <2> QED BY <2>1, <2>2, <2>3, <2>4
  <1>2. ASSUME NEW w \in Worker, Step(w) PROVE SeenInv' BY <1>2, SeenStep
  <1> QED BY <1>1, <1>2 DEF Next

\* One caller, and operations cut short anywhere: an analysis whose queries run
\* finds every record of every source case.json named when it began.  The
\* order of a rebuild (the new fingerprint is saved last) and of an append (the
\* signature is saved last) is what makes it so.
THEOREM AnalysisAlwaysSees == OneCaller => (Spec => []AnalysisSeesEverySource)
  <1>1. SUFFICES ASSUME OneCaller PROVE Spec => []AnalysisSeesEverySource OBVIOUS
  <1>2. SeenInv /\ [Next]_vars => SeenInv' BY <1>1, SeenNext
  <1>3. SeenInv => AnalysisSeesEverySource
    <2> SUFFICES ASSUME SeenInv, NEW w \in Worker, pc[w] = "analyze_read", Runs(w),
                        NEW i \in Indices(loc[w].mem.sources)
                 PROVE  AllStored(loc[w].mem.sources[i], db[handle[w]].events)
      BY DEF AnalysisSeesEverySource
    <2>1. InSection(w) /\ InEvents(loc[w].mem) BY DEF SeenInv, Progress, InSection
    <2>2. handle[w] = cur /\ cur # 0 BY <1>1, <2>1, HeldFile DEF SeenInv, Progress
    <2> QED BY <2>1, <2>2 DEF Runs, EventsTable, InEvents
  <1> QED BY <1>2, <1>3, SeenInit, PTL DEF Spec

-----------------------------------------------------------------------------
(* Nothing fails: the store is the ledger                                   *)

\* Every layout a case may have has room for what the code inserts.
WideLayouts == \A p \in Process : \A layout \in OldLayouts : ColumnsOf[p] \subseteq layout
Roomy ==
    \A f \in File : "events" \in db[f].tables => \A w \in Worker : Code(w) \subseteq db[f].layout

Saving(w) == pc[w] \in {"truncate", "write"}
SameEntries(doc) ==
    /\ doc.sources = meta.sources /\ doc.notes = meta.notes
    /\ doc.infrastructure_ips = meta.infrastructure_ips

\* What the document an operation is going to save adds to the one on disk.
Adds(w) ==
    /\ loc[w].op = "create" => loc[w].mem = NewMeta(Code(w)) /\ db[cur].raw = <<>>
    /\ loc[w].op = "append" => \A b \in loc[w].adding :
         /\ loc[w].mem.sources = Append(meta.sources, b)
         /\ loc[w].mem.notes = meta.notes
         /\ loc[w].mem.infrastructure_ips = meta.infrastructure_ips
    /\ loc[w].op = "note" =>
         /\ loc[w].mem.sources = meta.sources
         /\ \E text \in Text : loc[w].mem.notes = Append(meta.notes, text)
         /\ loc[w].mem.infrastructure_ips = meta.infrastructure_ips
    /\ loc[w].op = "infra" =>
         loc[w].mem.sources = meta.sources /\ loc[w].mem.notes = meta.notes
    /\ loc[w].op \in {"analyze", "digest"} => SameEntries(loc[w].mem)

\* The operation a worker's program counter belongs to.
Bound(w) ==
    /\ pc[w] = "idle" => loc[w].op = "none"
    /\ pc[w] = "create_tables" => loc[w].op = "create"
    /\ pc[w] = "rm" => loc[w].op = "delete"
    /\ loc[w].op = "create" => pc[w] = "create_tables" \/ Saving(w)
    /\ loc[w].op = "delete" => pc[w] = "rm"
    /\ loc[w].adding # {} => loc[w].op = "append"
    /\ \A b \in loc[w].adding : ForceAllowed \/ IsNew(b)
    /\ Saving(w) => loc[w].op \in {"create", "append", "note", "infra", "analyze", "digest"}
    /\ pc[w] = "truncate" /\ loc[w].op # "create" => Readable
    /\ Saving(w) => Adds(w)

LedgerInv == CountInv /\ SeenInv /\ Roomy /\ \A w \in Worker : Bound(w)

\* The statements of the operations, those that open and close included.
Inner == {"append_open", "append_start", "append_raw", "insert", "stamp", "append_count",
          "rebuild_open", "rebuild_read", "rebuild_drop", "rebuild_create", "rebuild_close",
          "rebuild_load", "analyze_open", "analyze_read"}

LEMMA InnerBound ==
    ASSUME NEW w \in Worker, Bound(w), pc[w] \in Inner, pc'[w] \in Inner, meta' = meta,
           loc'[w].op = loc[w].op, loc'[w].adding = loc[w].adding
    PROVE  Bound(w)'
  <1>1. loc[w].op \notin {"create", "delete"} BY DEF Bound, Inner, Saving
  <1>2. \A b : IsNew(b)' <=> IsNew(b) BY DEF IsNew
  <1> QED BY <1>1, <1>2 DEF Bound, Inner, Saving

LEMMA ReturnBound ==
    ASSUME TypeOK, NEW w \in Worker, Return(w)
    PROVE  Bound(w)'
  <1>1. pc'[w] = "idle" /\ loc'[w] = NoLocal BY DEF Return, TypeOK, WorkerTypeOK
  <1> QED BY <1>1 DEF Bound, Saving, NoLocal

LEMMA BeginBound ==
    ASSUME TypeOK, NEW w \in Worker, Bound(w),
           \/ Create(w) \/ Connect(w) \/ Delete(w)
           \/ \E b \in Batch, force \in {FALSE, ForceAllowed} : AppendRecords(w, b, force)
    PROVE  Bound(w)'
  <1> USE DEF TypeOK, WorkerTypeOK, Goto
  <1>1. CASE Create(w)
    <2>1. loc[w].adding = {} BY <1>1 DEF Create, Begin, Bound
    <2>2. pc'[w] = "create_tables" /\ loc'[w].op = "create" /\ loc'[w].adding = {}
      BY <1>1, <2>1 DEF Create, Local
    <2> QED BY <2>2 DEF Bound, Saving
  <1>2. CASE Connect(w)
    <2>1. /\ pc'[w] \in {"analyze_open", "rebuild_open"} /\ loc'[w].op = "analyze"
          /\ loc'[w].adding = {}
      BY <1>2 DEF Connect, NoLocal
    <2> QED BY <2>1 DEF Bound, Saving
  <1>3. CASE Delete(w)
    <2>1. pc'[w] = "rm" /\ loc'[w].op = "delete" /\ loc'[w].adding = {}
      BY <1>3 DEF Delete, NoLocal
    <2> QED BY <2>1 DEF Bound, Saving
  <1>4. CASE \E b \in Batch, force \in {FALSE, ForceAllowed} : AppendRecords(w, b, force)
    <2>1. PICK b \in Batch, force \in {FALSE, ForceAllowed} : AppendRecords(w, b, force)
      BY <1>4
    <2>2. /\ pc'[w] = "append_open" /\ loc'[w].op = "append" /\ loc'[w].adding = {b}
          /\ meta' = meta
      BY <2>1 DEF AppendRecords, NoLocal, metaVars
    <2>3. ForceAllowed \/ IsNew(b) BY <2>1 DEF AppendRecords
    <2>4. IsNew(b)' <=> IsNew(b) BY <2>2 DEF IsNew
    <2> QED BY <2>2, <2>3, <2>4 DEF Bound, Saving
  <1> QED BY <1>1, <1>2, <1>3, <1>4

LEMMA EditBound ==
    ASSUME TypeOK, NEW w \in Worker, Bound(w),
           \/ \E text \in Text : Note(w, text)
           \/ \E ips \in IpList : SetInfrastructureIps(w, ips)
    PROVE  Bound(w)'
  <1> USE DEF TypeOK, WorkerTypeOK, Goto
  <1>1. ASSUME NEW op, NEW doc, Edit(w, op, doc)
        PROVE  /\ Readable /\ UNCHANGED <<metaState, meta>>
               /\ pc'[w] = "truncate" /\ loc'[w].mem = doc /\ loc'[w].op = op
               /\ loc'[w].adding = {}
    BY <1>1 DEF Edit, NoLocal, metaVars
  <1>2. CASE \E text \in Text : Note(w, text)
    <2>1. PICK text \in Text : Edit(w, "note", [meta EXCEPT !.notes = Append(@, text)])
      BY <1>2 DEF Note
    <2>2. PICK doc : doc = [meta EXCEPT !.notes = Append(@, text)] OBVIOUS
    <2>3. /\ doc.sources = meta.sources /\ doc.notes = Append(meta.notes, text)
          /\ doc.infrastructure_ips = meta.infrastructure_ips
      BY <2>2 DEF MetaTypeOK, Meta
    <2>4. Edit(w, "note", doc) BY <2>1, <2>2
    <2> QED BY <1>1, <2>3, <2>4 DEF Bound, Saving, Adds, Readable
  <1>3. CASE \E ips \in IpList : SetInfrastructureIps(w, ips)
    <2>1. PICK ips \in IpList : Edit(w, "infra", [meta EXCEPT !.infrastructure_ips = ips])
      BY <1>3 DEF SetInfrastructureIps
    <2>2. PICK doc : doc = [meta EXCEPT !.infrastructure_ips = ips] OBVIOUS
    <2>3. doc.sources = meta.sources /\ doc.notes = meta.notes
      BY <2>2 DEF MetaTypeOK, Meta
    <2>4. Edit(w, "infra", doc) BY <2>1, <2>2
    <2> QED BY <1>1, <2>3, <2>4 DEF Bound, Saving, Adds, Readable
  <1> QED BY <1>2, <1>3

LEMMA CreateTablesBound ==
    ASSUME OneCaller, TypeOK, WorkersOK, Fresh, AtRest, NEW w \in Worker, InHand(w), Bound(w),
           CreateTables(w)
    PROVE  Bound(w)'
  <1>1. pc[w] = "create_tables" /\ Gone /\ Shared(w) = {}
    <2>1. pc[w] = "create_tables" /\ ~InSection(w) BY DEF CreateTables, InSection
    <2> QED BY <2>1, Finds DEF InHand
  <1>2. PICK f \in File :
          /\ Open(w, f)
          /\ db' = [db EXCEPT ![f] = [db[f] EXCEPT
                       !.tables = Table, !.layout = LayoutUsed(w, f)]]
    BY DEF CreateTables
  <1>3. f = made + 1 /\ cur' = f BY <1>1, <1>2 DEF Open, Gone
  <1>4. made \in Nat /\ f \in Nat BY DEF TypeOK, DbTypeOK, File
  <1>5. db[f] = EmptyFile BY <1>3, <1>4 DEF Fresh
  <1>6. db'[f].raw = <<>> BY <1>2, <1>5 DEF EmptyFile, TypeOK, DbTypeOK
  <1>7. /\ pc'[w] = "truncate" /\ loc' = [loc EXCEPT ![w].mem = NewMeta(Code(w))]
    BY DEF CreateTables, Goto, TypeOK, WorkerTypeOK
  <1>8. loc[w].op = "create" /\ loc[w].adding = {} BY <1>1 DEF Bound
  <1>9. loc'[w].mem = NewMeta(Code(w)) /\ loc'[w].op = "create" /\ loc'[w].adding = {}
    BY <1>7, <1>8 DEF TypeOK, WorkerTypeOK, Local
  <1>10. Adds(w)' BY <1>3, <1>6, <1>9 DEF Adds, NewMeta, Code
  <1> QED BY <1>7, <1>9, <1>10 DEF Bound, Saving

LEMMA LoadBound ==
    ASSUME TypeOK, WorkersOK, NEW w \in Worker, Bound(w), Progress(w),
           AppendCount(w) \/ RebuildLoad(w) \/ DigestLoad(w) \/ AnalyzeRead(w)
    PROVE  Bound(w)'
  <1> USE DEF TypeOK, WorkerTypeOK, Goto
  <1>1. meta' = meta /\ metaState' = metaState
    BY DEF AppendCount, RebuildLoad, DigestLoad, AnalyzeRead, InDb, metaVars
  <1>2. CASE Return(w) BY <1>2, ReturnBound
  <1>3. CASE AppendCount(w)
    <2>1. pc[w] = "append_count" BY <1>3 DEF AppendCount, InDb
    <2>2. Readable /\ loc[w].mem = meta /\ loc[w].op = "append"
      BY <2>1 DEF Progress, Appends, WorkersOK, AppendOK
    <2>3. PICK b \in loc[w].adding : loc' = [loc EXCEPT ![w].mem = WithSource(w, b)]
      BY <1>3 DEF AppendCount
    <2>4. PICK doc : doc = WithSource(w, b) OBVIOUS
    <2>5. /\ doc.sources = Append(meta.sources, b) /\ doc.notes = meta.notes
          /\ doc.infrastructure_ips = meta.infrastructure_ips
      BY <2>2, <2>4 DEF WithSource, MetaTypeOK, Meta
    <2>6. /\ pc'[w] = "truncate" /\ loc'[w].mem = doc /\ loc'[w].op = "append"
          /\ loc'[w].adding = loc[w].adding
      <3>1. pc'[w] = "truncate" /\ loc' = [loc EXCEPT ![w].mem = doc]
        BY <1>3, <2>3, <2>4 DEF AppendCount
      <3> QED BY <2>2, <3>1 DEF Local
    <2>7. \A c \in loc[w].adding : c = b BY <2>2, <2>3 DEF WorkersOK, AppendOK
    <2>8. Adds(w)' BY <1>1, <2>5, <2>6, <2>7 DEF Adds
    <2>9. \A c : IsNew(c)' <=> IsNew(c) BY <1>1 DEF IsNew
    <2> QED BY <1>1, <2>2, <2>6, <2>8, <2>9 DEF Bound, Saving, Readable
  <1>4. CASE RebuildLoad(w) /\ ~Return(w)
    <2>1. Readable /\ pc[w] = "rebuild_load" BY <1>4 DEF RebuildLoad
    <2>2. loc[w].op = "analyze" /\ loc[w].adding = {}
      BY <2>1 DEF WorkersOK, AppendOK, ConnectPC, Bound
    <2>3. PICK doc : doc = [meta EXCEPT !.fingerprint = Code(w),
                                        !.record_count = Len(loc[w].recs)]
      OBVIOUS
    <2>4. /\ doc.sources = meta.sources /\ doc.notes = meta.notes
          /\ doc.infrastructure_ips = meta.infrastructure_ips
      BY <2>3 DEF MetaTypeOK, Meta
    <2>5. pc'[w] = "truncate" /\ loc' = [loc EXCEPT ![w].mem = doc]
      BY <1>4, <2>1, <2>3 DEF RebuildLoad
    <2>6. loc'[w].mem = doc /\ loc'[w].op = "analyze" /\ loc'[w].adding = {}
      BY <2>2, <2>5 DEF Local
    <2>7. Adds(w)' BY <1>1, <2>4, <2>6 DEF Adds, SameEntries
    <2> QED BY <1>1, <2>1, <2>5, <2>6, <2>7 DEF Bound, Saving, Readable
  <1>5. CASE DigestLoad(w) /\ ~Return(w)
    <2>1. Readable /\ pc[w] = "digest_load" BY <1>5 DEF DigestLoad
    <2>2. loc[w].op = "digest" /\ loc[w].adding = {} BY <2>1 DEF Progress, Bound
    <2>3. PICK doc : doc = [meta EXCEPT !.digest = loc[w].seen] OBVIOUS
    <2>4. /\ doc.sources = meta.sources /\ doc.notes = meta.notes
          /\ doc.infrastructure_ips = meta.infrastructure_ips
      BY <2>3 DEF MetaTypeOK, Meta
    <2>5. pc'[w] = "truncate" /\ loc' = [loc EXCEPT ![w].mem = doc]
      BY <1>5, <2>1, <2>3 DEF DigestLoad
    <2>6. loc'[w].mem = doc /\ loc'[w].op = "digest" /\ loc'[w].adding = {}
      BY <2>2, <2>5 DEF Local
    <2>7. Adds(w)' BY <1>1, <2>4, <2>6 DEF Adds, SameEntries
    <2> QED BY <1>1, <2>1, <2>5, <2>6, <2>7 DEF Bound, Saving, Readable
  <1>6. CASE AnalyzeRead(w) /\ ~Return(w)
    <2>1. pc[w] = "analyze_read" BY <1>6 DEF AnalyzeRead, InDb
    <2>2. loc[w].op = "analyze" /\ loc[w].adding = {}
      BY <2>1 DEF WorkersOK, AppendOK, ConnectPC, Bound
    <2>3. pc'[w] = "digest_load" /\ loc'[w].op = "digest" /\ loc'[w].adding = {}
      <3>1. /\ pc'[w] = "digest_load"
            /\ loc'[w] = [loc[w] EXCEPT !.op = "digest", !.seen = Len(db[handle[w]].events)]
        BY <1>6 DEF AnalyzeRead
      <3>2. loc[w] \in Local OBVIOUS
      <3> QED BY <2>2, <3>1, <3>2 DEF Local
    <2> QED BY <2>3 DEF Bound, Saving
  <1> QED BY <1>2, <1>3, <1>4, <1>5, <1>6

LEMMA SaveBound ==
    ASSUME TypeOK, NEW w \in Worker, Bound(w), InHand(w),
           Truncate(w) \/ Write(w) \/ Unlink(w)
    PROVE  Bound(w)'
  <1> USE DEF TypeOK, WorkerTypeOK, Goto
  <1>1. CASE Return(w) BY <1>1, ReturnBound
  <1>2. CASE Truncate(w) /\ ~Return(w)
    <2>1. /\ pc[w] = "truncate" /\ pc'[w] = "write" /\ meta' = meta /\ cur' = cur /\ db' = db
          /\ loc' = [loc EXCEPT ![w].inc = metaInc]
      BY <1>2 DEF Truncate, dbVars
    <2>2. /\ loc'[w].mem = loc[w].mem /\ loc'[w].op = loc[w].op
          /\ loc'[w].adding = loc[w].adding
      BY <2>1 DEF Local
    <2>3. Adds(w) BY <2>1 DEF Bound, Saving
    <2>4. Adds(w)' BY <2>1, <2>2, <2>3 DEF Adds, SameEntries, Code
    <2>5. \A c : IsNew(c)' <=> IsNew(c) BY <2>1 DEF IsNew
    <2> QED BY <2>1, <2>2, <2>4, <2>5 DEF Bound, Saving
  <1>3. CASE Write(w) /\ ~Return(w)
    <2>1. /\ pc[w] = "write" /\ pc'[w] = "analyze_open" /\ loc' = loc
          /\ loc[w].op = "analyze"
      BY <1>3 DEF Write
    <2>2. loc[w].adding = {} BY <2>1 DEF Bound
    <2> QED BY <2>1, <2>2 DEF Bound, Saving
  <1>4. CASE Unlink(w) /\ ~Return(w)
    <2>1. pc[w] = "rm" BY <1>4 DEF Unlink
    <2>2. loc[w].op = "delete" /\ loc[w].adding = {} BY <2>1 DEF Bound
    <2>3. PICK e \in loc[w].todo : loc' = [loc EXCEPT ![w].todo = @ \ {e}] /\ pc' = pc
      BY <1>4 DEF Unlink
    <2>4. loc'[w].op = "delete" /\ loc'[w].adding = {} /\ pc'[w] = "rm"
      BY <2>1, <2>2, <2>3 DEF Local
    <2> QED BY <2>4 DEF Bound, Saving
  <1> QED BY <1>1, <1>2, <1>3, <1>4

LEMMA BoundStep ==
    ASSUME OneCaller, TypeOK, WorkersOK, Fresh, AtRest, NEW w \in Worker, InHand(w), Bound(w),
           Progress(w), Step(w)
    PROVE  Bound(w)'
  <1> USE DEF TypeOK, WorkerTypeOK, Goto, Inner
  <1>1. CASE AppendOpen(w) \/ RebuildOpen(w) \/ AnalyzeOpen(w)
    <2>1. pc[w] \in Inner /\ pc'[w] \in Inner /\ meta' = meta /\ loc' = loc
      BY <1>1 DEF AppendOpen, RebuildOpen, AnalyzeOpen, OpenDb, metaVars
    <2> QED BY <2>1, InnerBound
  <1>2. CASE AppendStart(w) \/ AppendRaw(w) \/ InsertRecords(w)
    <2>1. pc[w] \in Inner /\ pc'[w] \in Inner /\ meta' = meta
      BY <1>2 DEF AppendStart, AppendRaw, InsertRecords, RawFirst, InDb, metaVars
    <2>2. loc'[w].op = loc[w].op /\ loc'[w].adding = loc[w].adding
      BY <1>2 DEF AppendStart, AppendRaw, InsertRecords, Local
    <2> QED BY <2>1, <2>2, InnerBound
  <1>3. CASE StampTimes(w) \/ RebuildDrop(w) \/ RebuildCreate(w) \/ RebuildClose(w)
    <2>1. pc[w] \in Inner /\ pc'[w] \in Inner /\ meta' = meta /\ loc' = loc
      BY <1>3 DEF StampTimes, RebuildDrop, RebuildCreate, RebuildClose, InDb, metaVars
    <2> QED BY <2>1, InnerBound
  <1>4. CASE RebuildRead(w)
    <2>1. pc[w] \in Inner /\ pc'[w] \in Inner /\ meta' = meta
      BY <1>4 DEF RebuildRead, InDb, metaVars
    <2>2. loc'[w].op = loc[w].op /\ loc'[w].adding = loc[w].adding
      BY <1>4 DEF RebuildRead, Local
    <2> QED BY <2>1, <2>2, InnerBound
  <1>5. CASE RmDir(w) \/ OpenRefused(w) \/ DbError(w) \/ Fail(w)
    BY <1>5, ReturnBound DEF RmDir, OpenRefused, DbError, Fail
  <1> QED
    BY <1>1, <1>2, <1>3, <1>4, <1>5, BeginBound, EditBound, CreateTablesBound, LoadBound,
       SaveBound DEF Step

\* A table that a step leaves in place keeps its layout; a new one has the
\* columns of the code that creates it.
LEMMA LayoutsMade ==
    ASSUME TypeOK, NEW w \in Worker, Step(w), NEW f \in File, "events" \in db'[f].tables
    PROVE  \/ "events" \in db[f].tables /\ db'[f].layout = db[f].layout
           \/ db'[f].layout = Code(w)
  <1> USE DEF TypeOK, DbTypeOK, DbFile
  <1>1. CASE ~DbWrites(w) BY <1>1, OnlyDbWrites
  <1>2. CASE AppendRaw(w) BY <1>2 DEF AppendRaw
  <1>3. CASE CreateTables(w)
    <2>1. PICK g \in File :
            db' = [db EXCEPT ![g] = [db[g] EXCEPT
                      !.tables = Table, !.layout = LayoutUsed(w, g)]]
      BY <1>3 DEF CreateTables
    <2>2. CASE g # f BY <2>1, <2>2
    <2>3. CASE g = f BY <2>1, <2>3 DEF LayoutUsed
    <2> QED BY <2>2, <2>3
  <1>4. CASE RebuildCreate(w)
    <2>1. CASE handle[w] # f BY <1>4, <2>1 DEF RebuildCreate
    <2>2. CASE handle[w] = f BY <1>4, <2>2 DEF RebuildCreate, LayoutUsed
    <2> QED BY <2>1, <2>2
  <1>5. CASE InsertRecords(w) BY <1>5 DEF InsertRecords
  <1>6. CASE StampTimes(w) BY <1>6 DEF StampTimes
  <1>7. CASE RebuildDrop(w)
    <2>1. CASE handle[w] # f BY <1>7, <2>1 DEF RebuildDrop
    <2>2. CASE handle[w] = f BY <1>7, <2>2 DEF RebuildDrop
    <2> QED BY <2>1, <2>2
  <1> QED BY <1>1, <1>2, <1>3, <1>4, <1>5, <1>6, <1>7 DEF DbWrites

LEMMA RoomyStep ==
    ASSUME OneCaller, TypeOK, Roomy, NEW w \in Worker, Step(w)
    PROVE  Roomy'
  <1> SUFFICES ASSUME NEW f \in File, "events" \in db'[f].tables, NEW v \in Worker
               PROVE  Code(v) \subseteq db'[f].layout
    BY DEF Roomy, Code
  <1>1. v = w BY DEF OneCaller
  <1> QED BY <1>1, LayoutsMade DEF Roomy

LEMMA LedgerInvInit == WideLayouts /\ Init => LedgerInv
  <1> SUFFICES ASSUME WideLayouts, Init PROVE LedgerInv OBVIOUS
  <1>1. \A w \in Worker : Bound(w) BY DEF Init, Bound, Saving, NoLocal
  <1>2. Roomy
    <2>1. CASE NoCase BY <2>1 DEF NoCase, Roomy, EmptyFile
    <2>2. ASSUME NEW b \in Batch, NEW layout \in OldLayouts, EarlierCase(b, layout)
          PROVE  Roomy
      <3>1. \A f \in File : "events" \in db[f].tables => db[f].layout = layout
        BY <2>2 DEF EarlierCase, EarlierFile, EmptyFile
      <3>2. \A w \in Worker : Code(w) \subseteq layout
        BY WorkerAssumption DEF WideLayouts, Code
      <3> QED BY <3>1, <3>2 DEF Roomy
    <2> QED BY <2>1, <2>2 DEF Init
  <1> QED BY <1>1, <1>2, CountInit, SeenInit DEF LedgerInv

LEMMA LedgerInvNext == OneCaller /\ MaxFaults = 0 /\ LedgerInv /\ [Next]_vars => LedgerInv'
  <1> SUFFICES ASSUME OneCaller, MaxFaults = 0, LedgerInv, [Next]_vars PROVE LedgerInv' OBVIOUS
  <1>1. CountInv' /\ SeenInv' BY CountNext, SeenNext DEF LedgerInv
  <1>2. CASE UNCHANGED vars
    <2> USE <1>2 DEF LedgerInv, vars, metaVars, dbVars
    <2>1. Roomy' BY DEF Roomy, Code
    <2>2. \A w \in Worker : Bound(w)'
      <3> TAKE w \in Worker
      <3>1. Bound(w) OBVIOUS
      <3> QED BY <3>1 DEF Bound, Saving, Adds, SameEntries, IsNew, Readable, Code
    <2> QED BY <1>1, <2>1, <2>2
  <1>3. ASSUME NEW w \in Worker, Step(w) PROVE LedgerInv'
    <2>1. /\ TypeOK /\ WorkersOK /\ Fresh /\ AtRest /\ InHand(w) /\ Bound(w) /\ Progress(w)
          /\ Roomy
      BY DEF LedgerInv, CountInv, SeenInv
    <2>2. Bound(w)' BY <1>3, <2>1, BoundStep
    <2>3. \A v \in Worker : Bound(v)' BY <2>2 DEF OneCaller
    <2> QED BY <1>1, <1>3, <2>1, <2>3, RoomyStep DEF LedgerInv
  <1> QED BY <1>2, <1>3 DEF Next


-----------------------------------------------------------------------------
(* How many times the raw records hold a record                             *)

Copied(rec, rows) == {i \in Indices(rows) : rows[i].rec = rec}

LEMMA CopiedFinite ==
    ASSUME NEW rec, NEW rows \in Seq(RawRow)
    PROVE  IsFiniteSet(Copied(rec, rows)) /\ Cardinality(Copied(rec, rows)) \in Nat
  <1>1. Len(rows) \in Nat OBVIOUS
  <1>2. IsFiniteSet(1..Len(rows)) BY <1>1, FS_Interval
  <1>3. Copied(rec, rows) \subseteq 1..Len(rows) BY DEF Copied, Indices
  <1>4. IsFiniteSet(Copied(rec, rows)) BY <1>2, <1>3, FS_Subset
  <1> QED BY <1>4, FS_CardinalityType

LEMMA CopiedSame ==
    ASSUME NEW rec, NEW rows \in Seq(RawRow), NEW more \in Seq(RawRow),
           \A j \in Indices(more) : more[j].rec # rec
    PROVE  Copied(rec, rows \o more) = Copied(rec, rows)
  <1>1. Len(rows) \in Nat /\ Len(more) \in Nat OBVIOUS
  <1>2. Len(rows \o more) = Len(rows) + Len(more) BY ConcatProperties
  <1>3. \A i \in 1..Len(rows) : (rows \o more)[i] = rows[i] BY ConcatProperties
  <1>4. \A i \in 1..Len(rows) + Len(more) : i > Len(rows) =>
          (rows \o more)[i] = more[i - Len(rows)] /\ i - Len(rows) \in 1..Len(more)
    BY <1>1, ConcatProperties
  <1> QED BY <1>1, <1>2, <1>3, <1>4 DEF Copied, Indices

LEMMA CopiedOnce ==
    ASSUME NEW rec, NEW rows \in Seq(RawRow), NEW more \in Seq(RawRow), NEW j \in Indices(more),
           more[j].rec = rec, \A k \in Indices(more) : k # j => more[k].rec # rec
    PROVE  Cardinality(Copied(rec, rows \o more)) = Cardinality(Copied(rec, rows)) + 1
  <1>1. Len(rows) \in Nat /\ Len(more) \in Nat OBVIOUS
  <1>2. Len(rows \o more) = Len(rows) + Len(more) BY ConcatProperties
  <1>3. \A i \in 1..Len(rows) : (rows \o more)[i] = rows[i] BY ConcatProperties
  <1>4. \A i \in 1..Len(rows) + Len(more) : i > Len(rows) =>
          (rows \o more)[i] = more[i - Len(rows)] /\ i - Len(rows) \in 1..Len(more)
    BY <1>1, ConcatProperties
  <1>5. j \in Nat /\ 1 <= j /\ j <= Len(more) BY <1>1 DEF Indices
  <1>6. Len(rows) + j \in 1..Len(rows) + Len(more) /\ Len(rows) + j > Len(rows)
    BY <1>1, <1>5
  <1>7. (rows \o more)[Len(rows) + j] = more[j]
    BY <1>1, <1>4, <1>5, <1>6
  <1>8. Copied(rec, rows \o more) = Copied(rec, rows) \cup {Len(rows) + j}
    <2>1. ASSUME NEW i \in 1..Len(rows) + Len(more), (rows \o more)[i].rec = rec
          PROVE  i \in Copied(rec, rows) \cup {Len(rows) + j}
      <3>1. CASE i <= Len(rows)
        <4>1. i \in 1..Len(rows) BY <1>1, <3>1
        <4> QED BY <1>3, <2>1, <4>1 DEF Copied, Indices
      <3>2. CASE i > Len(rows)
        <4>1. more[i - Len(rows)].rec = rec /\ i - Len(rows) \in Indices(more)
          BY <1>4, <2>1, <3>2 DEF Indices
        <4>2. i - Len(rows) = j BY <4>1
        <4>3. i = Len(rows) + j BY <1>1, <1>5, <4>2
        <4> QED BY <4>3
      <3> QED BY <1>1, <3>1, <3>2
    <2>2. \A i \in Copied(rec, rows) : i \in Copied(rec, rows \o more)
      BY <1>1, <1>2, <1>3 DEF Copied, Indices
    <2>3. Len(rows) + j \in Copied(rec, rows \o more)
      BY <1>2, <1>6, <1>7 DEF Copied, Indices
    <2>4. \A i \in Copied(rec, rows \o more) :
            i \in 1..Len(rows) + Len(more) /\ (rows \o more)[i].rec = rec
      BY <1>2 DEF Copied, Indices
    <2> QED BY <2>1, <2>2, <2>3, <2>4
  <1>9. Len(rows) + j \notin Copied(rec, rows) BY <1>1, <1>5 DEF Copied, Indices
  <1>10. IsFiniteSet(Copied(rec, rows)) BY CopiedFinite
  <1> QED BY <1>8, <1>9, <1>10, FS_AddElement

-----------------------------------------------------------------------------
(* The ledger of a case with one caller                                     *)

\* Has w inserted its batch without recording it yet?
Pending(w, b) ==
    /\ loc[w].adding = {b} /\ loc[w].recs # <<>>
    /\ pc[w] \in {"insert", "stamp", "append_count", "truncate", "write"}

Last(b) == [batch |-> b, pos |-> SizeOf[b]]

\* The operators of the refinement, for one worker.
LEMMA OneUncommitted ==
    ASSUME OneCaller, NEW w \in Worker, NEW b \in Batch
    PROVE  Uncommitted(b) = IF Pending(w, b) THEN 1 ELSE 0
  <1> DEFINE S == {v \in Worker : Pending(v, b)}
  <1>1. Uncommitted(b) = Cardinality(S) BY DEF Uncommitted, Pending
  <1>2. S = IF Pending(w, b) THEN {w} ELSE {} BY DEF OneCaller
  <1> QED BY <1>1, <1>2, FS_EmptySet, FS_Singleton

LEMMA OneUncommittedNext ==
    ASSUME OneCaller, NEW w \in Worker, NEW b \in Batch
    PROVE  Uncommitted(b)' = IF Pending(w, b)' THEN 1 ELSE 0
  <1> DEFINE S == {v \in Worker : Pending(v, b)'}
  <1>1. Uncommitted(b)' = Cardinality(S) BY DEF Uncommitted, Pending
  <1>2. S = IF Pending(w, b)' THEN {w} ELSE {} BY DEF OneCaller
  <1> QED BY <1>1, <1>2, FS_EmptySet, FS_Singleton

LEMMA OneOpen ==
    ASSUME OneCaller, NEW w \in Worker
    PROVE  /\ IsOpen <=> metaState # "absent" /\ loc[w].op \notin {"create", "delete"}
           /\ IsOpen' <=> metaState' # "absent" /\ loc'[w].op \notin {"create", "delete"}
  BY DEF OneCaller, IsOpen

LEMMA CopiesAre ==
    ASSUME NEW b \in Batch
    PROVE  /\ cur # 0 => CopiesOf(b) = Cardinality(Copied(Last(b), db[cur].raw))
           /\ cur' # 0 => CopiesOf(b)' = Cardinality(Copied(Last(b), db'[cur'].raw))
  BY DEF CopiesOf, Copied, Last

\* A step that the ledger does not see.
LEMMA Unseen ==
    ASSUME OneCaller, NEW w \in Worker, (IsOpen' <=> IsOpen),
           IsOpen => /\ meta'.sources = meta.sources /\ meta'.notes = meta.notes
                     /\ meta'.infrastructure_ips = meta.infrastructure_ips
                     /\ \A b \in Batch : SizeOf[b] > 0 =>
                          CopiesOf(b)' - Uncommitted(b)' = CopiesOf(b) - Uncommitted(b)
    PROVE  UNCHANGED Ledger!vars
  BY DEF Ledger!vars

\* Steps that insert no raw row and record nothing.
LEMMA InnerUnseen ==
    ASSUME OneCaller, NEW w \in Worker, (IsOpen' <=> IsOpen),
           IsOpen => /\ UNCHANGED <<meta, cur>>
                     /\ db'[cur].raw = db[cur].raw
                     /\ \A b \in Batch : (Pending(w, b)' <=> Pending(w, b))
    PROVE  UNCHANGED Ledger!vars
  <1>1. \A b \in Batch : IsOpen => Uncommitted(b)' = Uncommitted(b)
    BY OneUncommitted, OneUncommittedNext
  <1>2. \A b \in Batch : IsOpen => CopiesOf(b)' = CopiesOf(b)
    BY DEF CopiesOf
  <1> QED BY <1>1, <1>2, Unseen

\* What the invariant says of the only worker.
LEMMA AloneIn ==
    ASSUME OneCaller, LedgerInv, NEW w \in Worker
    PROVE  /\ TypeOK /\ WorkersOK /\ Fresh /\ AtRest /\ Roomy
           /\ InHand(w) /\ Bound(w) /\ Progress(w)
           /\ pc[w] \in {"append_open", "append_start", "append_raw", "insert", "stamp",
                         "append_count"} /\ loc[w].op = "append" => Found
           /\ pc[w] \in Before => InOrder
           /\ handle[w] # 0 => InSection(w) /\ handle[w] = cur
  <1>1. /\ TypeOK /\ WorkersOK /\ Fresh /\ AtRest /\ Roomy
        /\ InHand(w) /\ Bound(w) /\ Progress(w)
    BY DEF LedgerInv, CountInv, SeenInv
  <1>2. handle[w] # 0 => InSection(w) /\ handle[w] = cur BY <1>1, Finds
  <1> QED BY <1>1, <1>2 DEF InHand, Before, InOrder

LEMMA CreateUnseen ==
    ASSUME OneCaller, LedgerInv, NEW w \in Worker, Create(w) \/ CreateTables(w)
    PROVE  UNCHANGED Ledger!vars
  <1>1. CASE Create(w)
    <2>1. ~IsOpen /\ ~IsOpen' BY <1>1, OneOpen DEF Create
    <2> QED BY <2>1, Unseen
  <1>2. CASE CreateTables(w)
    <2>1. TypeOK /\ loc[w].op = "create" BY <1>2, AloneIn DEF CreateTables, Bound
    <2>2. loc'[w].op = "create"
      BY <1>2, <2>1 DEF CreateTables, TypeOK, WorkerTypeOK, Local
    <2>3. ~IsOpen /\ ~IsOpen' BY <2>1, <2>2, OneOpen
    <2> QED BY <2>3, Unseen
  <1> QED BY <1>1, <1>2

\* The steps that go on, or give up, with an operation on a case that is there.
LEMMA StatementUnseen ==
    ASSUME OneCaller, LedgerInv, NEW w \in Worker,
           UNCHANGED <<metaState, meta, cur>>, cur # 0 => db'[cur].raw = db[cur].raw,
           loc[w].op \notin {"create", "delete"}, loc'[w].op \notin {"create", "delete"},
           IsOpen => cur # 0 /\ \A b \in Batch : (Pending(w, b)' <=> Pending(w, b))
    PROVE  UNCHANGED Ledger!vars
  <1>1. (IsOpen' <=> IsOpen) BY OneOpen
  <1> QED BY <1>1, InnerUnseen

LEMMA BeginUnseen ==
    ASSUME OneCaller, LedgerInv, NEW w \in Worker,
           \/ \E b \in Batch, force \in {FALSE, ForceAllowed} : AppendRecords(w, b, force)
           \/ Connect(w)
           \/ \E text \in Text : Note(w, text)
           \/ \E ips \in IpList : SetInfrastructureIps(w, ips)
    PROVE  UNCHANGED Ledger!vars
  <1>1. /\ TypeOK /\ pc[w] = "idle" /\ Readable /\ loc[w].op = "none"
        /\ UNCHANGED <<metaState, meta, cur, db>> /\ (InOrder \/ Gone)
    <2>1. pc[w] = "idle" /\ Readable /\ UNCHANGED <<metaState, meta, cur, db>>
      BY DEF AppendRecords, Connect, Note, SetInfrastructureIps, Edit, Begin, metaVars, dbVars
    <2> QED BY <2>1, AloneIn, Finds DEF Bound
  <1>2. cur # 0 BY <1>1 DEF InOrder, Found, Gone, Readable
  <1>0. TypeOK BY <1>1
  <1> USE <1>0 DEF TypeOK, WorkerTypeOK, Goto
  <1>3. /\ pc'[w] \notin {"insert", "stamp", "append_count", "write"}
        /\ loc'[w].op \in {"append", "analyze", "note", "infra"}
        /\ pc'[w] = "truncate" => loc'[w].adding = {}
    <2>1. CASE \E b \in Batch, force \in {FALSE, ForceAllowed} : AppendRecords(w, b, force)
      BY <1>1, <2>1 DEF AppendRecords, NoLocal
    <2>2. CASE Connect(w) BY <1>1, <2>2 DEF Connect, NoLocal
    <2>3. CASE \E text \in Text : Note(w, text)
      BY <1>1, <2>3 DEF Note, Edit, NoLocal
    <2>4. CASE \E ips \in IpList : SetInfrastructureIps(w, ips)
      BY <1>1, <2>4 DEF SetInfrastructureIps, Edit, NoLocal
    <2> QED BY <2>1, <2>2, <2>3, <2>4
  <1>4. \A b \in Batch : ~Pending(w, b) /\ ~Pending(w, b)' BY <1>1, <1>3 DEF Pending
  <1>5. \A b \in Batch : (Pending(w, b)' <=> Pending(w, b)) BY <1>4 DEF Pending
  <1> QED BY <1>1, <1>2, <1>3, <1>5, StatementUnseen

LEMMA InnerPending ==
    ASSUME OneCaller, LedgerInv, NEW w \in Worker, pc[w] \in Inner, pc'[w] \in Inner,
           UNCHANGED <<metaState, meta, cur>>, cur # 0, db'[cur].raw = db[cur].raw,
           loc'[w].op = loc[w].op,
           \A b \in Batch : (Pending(w, b)' <=> Pending(w, b))
    PROVE  UNCHANGED Ledger!vars
  <1>1. loc[w].op \notin {"create", "delete"} BY AloneIn DEF Bound, Inner, Saving
  <1> QED BY <1>1, StatementUnseen

LEMMA SectionUnseen ==
    ASSUME OneCaller, LedgerInv, NEW w \in Worker,
           \/ AppendOpen(w) \/ RebuildOpen(w) \/ AnalyzeOpen(w)
           \/ AppendStart(w) \/ InsertRecords(w) \/ StampTimes(w)
           \/ RebuildRead(w) \/ RebuildDrop(w) \/ RebuildCreate(w) \/ RebuildClose(w)
    PROVE  UNCHANGED Ledger!vars
  <1>0. TypeOK /\ WorkersOK /\ AtRest /\ InHand(w) /\ Bound(w) BY AloneIn
  <1> USE <1>0 DEF TypeOK, WorkerTypeOK, Goto, Inner
  <1>1. CASE AppendOpen(w) \/ RebuildOpen(w) \/ AnalyzeOpen(w)
    <2>1. /\ pc[w] \in {"append_open", "rebuild_open", "analyze_open"}
          /\ pc'[w] \in {"append_start", "rebuild_read", "analyze_read"}
          /\ UNCHANGED <<metaState, meta, db, loc>>
          /\ \E f \in File : Open(w, f)
      BY <1>1 DEF AppendOpen, RebuildOpen, AnalyzeOpen, OpenDb, metaVars
    <2>2. Shared(w) = {} BY <1>0, <2>1, Finds DEF InSection
    <2>3. InOrder BY <1>0, <2>1 DEF InHand, Before
    <2>4. cur' = cur /\ cur # 0 BY <2>1, <2>2, <2>3 DEF Open, InOrder, Found
    <2>5. \A b \in Batch : (Pending(w, b)' <=> Pending(w, b)) BY <2>1 DEF Pending
    <2> QED BY <2>1, <2>4, <2>5, InnerPending
  <1>2. CASE AppendStart(w) \/ InsertRecords(w) \/ StampTimes(w) \/ RebuildRead(w)
             \/ RebuildDrop(w) \/ RebuildCreate(w) \/ RebuildClose(w)
    <2>1. /\ cur \in File /\ cur # 0 /\ db[cur] \in DbFile /\ handle[w] = cur
          /\ UNCHANGED <<metaState, meta, cur>>
      BY <1>0, <1>2, Statement DEF AppendStart, InsertRecords, StampTimes, RebuildRead,
                          RebuildDrop, RebuildCreate, RebuildClose
    <2>2. CASE AppendStart(w)
      <3>1. pc[w] = "append_start" /\ db' = db BY <2>2 DEF AppendStart, InDb
      <3>2. pc'[w] = IF loc[w].recs = <<>> THEN "append_count" ELSE "append_raw"
        BY <2>2 DEF AppendStart, RawFirst
      <3>3. loc'[w].op = loc[w].op /\ loc'[w].recs = loc[w].recs
        BY <2>2 DEF AppendStart, Local
      <3>4. \A b \in Batch : (Pending(w, b)' <=> Pending(w, b))
        BY <3>1, <3>2, <3>3 DEF Pending
      <3> QED BY <2>1, <3>1, <3>2, <3>3, <3>4, InnerPending
    <2>3. CASE InsertRecords(w)
      <3>1. pc[w] = "insert" /\ pc'[w] \in {"insert", "stamp"}
        BY <2>3 DEF InsertRecords, InDb
      <3>2. db'[cur].raw = db[cur].raw BY <2>1, <2>3 DEF InsertRecords, DbTypeOK, DbFile
      <3>3. loc'[w].op = loc[w].op /\ loc'[w].recs = loc[w].recs /\ loc'[w].adding = loc[w].adding
        BY <2>3 DEF InsertRecords, Local
      <3>4. \A b \in Batch : (Pending(w, b)' <=> Pending(w, b))
        BY <3>1, <3>3 DEF Pending
      <3> QED BY <2>1, <3>1, <3>2, <3>3, <3>4, InnerPending
    <2>4. CASE StampTimes(w)
      <3>1. pc[w] = "stamp" /\ pc'[w] \in {"append_count", "rebuild_close"} /\ loc' = loc
        BY <2>4 DEF StampTimes, InDb
      <3>2. db'[cur].raw = db[cur].raw BY <2>1, <2>4 DEF StampTimes, DbTypeOK, DbFile
      <3>3. pc'[w] = "rebuild_close" => loc[w].adding = {}
        BY <1>0, <2>4, <3>1 DEF StampTimes, Bound
      <3>4. \A b \in Batch : (Pending(w, b)' <=> Pending(w, b))
        BY <3>1, <3>3 DEF Pending
      <3> QED BY <2>1, <3>1, <3>2, <3>4, InnerPending
    <2>5. CASE RebuildRead(w) \/ RebuildDrop(w) \/ RebuildCreate(w) \/ RebuildClose(w)
      <3>1. pc[w] \in {"rebuild_read", "rebuild_drop", "rebuild_create", "rebuild_close"}
        BY <2>5 DEF RebuildRead, RebuildDrop, RebuildCreate, RebuildClose, InDb
      <3>2. loc[w].op = "analyze" /\ loc[w].adding = {}
        BY <1>0, <3>1 DEF WorkersOK, AppendOK, ConnectPC, Bound
      <3>3. db'[cur].raw = db[cur].raw
        <4>1. CASE RebuildRead(w) \/ RebuildClose(w) BY <4>1 DEF RebuildRead, RebuildClose
        <4>2. CASE RebuildDrop(w) BY <2>1, <4>2 DEF RebuildDrop, DbTypeOK, DbFile
        <4>3. CASE RebuildCreate(w) BY <2>1, <4>3 DEF RebuildCreate, DbTypeOK, DbFile
        <4> QED BY <2>5, <4>1, <4>2, <4>3
      <3>4. /\ loc'[w].op = loc[w].op /\ loc'[w].adding = loc[w].adding
            /\ pc'[w] \in {"rebuild_drop", "rebuild_create", "rebuild_close", "insert", "rebuild_load"}
        <4>1. CASE RebuildRead(w) BY <4>1 DEF RebuildRead, Local
        <4>2. CASE RebuildDrop(w) \/ RebuildCreate(w) \/ RebuildClose(w)
          BY <4>2 DEF RebuildDrop, RebuildCreate, RebuildClose
        <4> QED BY <2>5, <4>1, <4>2
      <3>5. \A b \in Batch : (Pending(w, b)' <=> Pending(w, b))
        BY <3>2, <3>4 DEF Pending
      <3> QED BY <2>1, <3>1, <3>3, <3>4, <3>5, InnerPending
    <2> QED BY <1>2, <2>2, <2>3, <2>4, <2>5
  <1> QED BY <1>1, <1>2

LEMMA LoadUnseen ==
    ASSUME OneCaller, LedgerInv, NEW w \in Worker,
           AppendCount(w) \/ RebuildLoad(w) \/ AnalyzeRead(w) \/ DigestLoad(w)
    PROVE  UNCHANGED Ledger!vars
  <1>0. TypeOK /\ WorkersOK /\ AtRest /\ InHand(w) /\ Bound(w) /\ Progress(w) BY AloneIn
  <1> USE <1>0 DEF TypeOK, WorkerTypeOK, Goto
  <1>1. UNCHANGED <<metaState, meta, cur, db>>
    BY DEF AppendCount, RebuildLoad, AnalyzeRead, DigestLoad, InDb, metaVars, dbVars
  <1>2. CASE AppendCount(w)
    <2>1. pc[w] = "append_count" BY <1>2 DEF AppendCount, InDb
    <2>2. cur # 0 /\ loc[w].op = "append"
      BY <1>0, <2>1 DEF InHand, Found, WorkersOK, AppendOK
    <2>3. PICK b \in loc[w].adding : loc' = [loc EXCEPT ![w].mem = WithSource(w, b)]
      BY <1>2 DEF AppendCount
    <2>4. /\ pc'[w] = "truncate" /\ loc'[w].op = "append" /\ loc'[w].recs = loc[w].recs
          /\ loc'[w].adding = loc[w].adding
      <3>1. pc'[w] = "truncate" BY <1>2 DEF AppendCount
      <3>2. loc'[w] = [loc[w] EXCEPT !.mem = WithSource(w, b)] BY <2>3
      <3>3. loc[w] \in Local OBVIOUS
      <3> QED BY <2>2, <3>1, <3>2, <3>3 DEF Local
    <2>5. \A c \in Batch : (Pending(w, c)' <=> Pending(w, c)) BY <2>1, <2>4 DEF Pending
    <2> QED BY <1>1, <2>2, <2>4, <2>5, StatementUnseen
  <1>3. CASE RebuildLoad(w) \/ AnalyzeRead(w) \/ DigestLoad(w)
    <2>1. pc[w] \in {"rebuild_load", "analyze_read", "digest_load"}
      BY <1>3 DEF RebuildLoad, AnalyzeRead, DigestLoad, InDb
    <2>2. Found /\ loc[w].op \in {"analyze", "digest"} /\ loc[w].adding = {}
      BY <1>0, <2>1 DEF InHand, Before, InOrder, WorkersOK, AppendOK, ConnectPC, Progress, Bound
    <2>3. loc'[w].op \in {"none", "analyze", "digest"} /\ loc'[w].adding = {}
      <3>1. CASE Return(w) BY <3>1 DEF Return, NoLocal
      <3>2. CASE ~Return(w)
        <4>1. \E x \in Local : x.op = loc[w].op /\ x.adding = loc[w].adding /\ x = loc[w] OBVIOUS
        <4>2. \/ \E doc : loc'[w] = [loc[w] EXCEPT !.mem = doc]
              \/ loc'[w] = [loc[w] EXCEPT !.op = "digest", !.seen = Len(db[handle[w]].events)]
          BY <1>3, <3>2 DEF RebuildLoad, AnalyzeRead, DigestLoad
        <4> QED BY <2>2, <4>1, <4>2 DEF Local
      <3> QED BY <3>1, <3>2
    <2>4. \A c \in Batch : (Pending(w, c)' <=> Pending(w, c)) BY <2>2, <2>3 DEF Pending
    <2> QED BY <1>1, <2>2, <2>3, <2>4, StatementUnseen DEF Found
  <1> QED BY <1>2, <1>3

LEMMA TruncateUnseen ==
    ASSUME OneCaller, LedgerInv, NEW w \in Worker, Truncate(w)
    PROVE  UNCHANGED Ledger!vars
  <1>0. TypeOK /\ InHand(w) /\ Bound(w) BY AloneIn
  <1> USE <1>0 DEF TypeOK, WorkerTypeOK, Goto
  <1>1. pc[w] = "truncate" /\ dir /\ cur # 0 BY DEF Truncate, InHand
  <1>2. /\ metaState' = "empty" /\ pc'[w] = "write" /\ UNCHANGED <<meta, cur, db>>
        /\ loc' = [loc EXCEPT ![w].inc = metaInc]
    BY <1>1 DEF Truncate, dbVars
  <1>3. /\ loc'[w].op = loc[w].op /\ loc'[w].recs = loc[w].recs
        /\ loc'[w].adding = loc[w].adding
    BY <1>2 DEF Local
  <1>4. loc[w].op # "delete" /\ (loc[w].op # "create" => metaState = "ok")
    BY <1>1 DEF Bound, Saving, Readable
  <1>5. IsOpen' <=> IsOpen BY <1>2, <1>3, <1>4, OneOpen
  <1>6. \A b \in Batch : (Pending(w, b)' <=> Pending(w, b)) BY <1>1, <1>2, <1>3 DEF Pending
  <1> QED BY <1>2, <1>5, <1>6, InnerUnseen

\* An operation that is refused has inserted nothing: in a layout with room,
\* no INSERT is refused between an append's raw rows and its count.
LEMMA RefusedUnseen ==
    ASSUME OneCaller, LedgerInv, NEW w \in Worker, OpenRefused(w) \/ DbError(w)
    PROVE  UNCHANGED Ledger!vars
  <1>0. /\ TypeOK /\ WorkersOK /\ AtRest /\ Roomy /\ InHand(w) /\ Bound(w)
        /\ handle[w] # 0 => InSection(w) /\ handle[w] = cur
    BY AloneIn
  <1> USE <1>0 DEF TypeOK, WorkerTypeOK
  <1>1. /\ UNCHANGED <<metaState, meta, cur, db>>
        /\ loc'[w].op = "none" /\ loc'[w].adding = {}
    BY DEF OpenRefused, DbError, Return, NoLocal, metaVars, dbVars
  <1>2. \A b \in Batch : ~Pending(w, b)' BY <1>1 DEF Pending
  <1>3. CASE OpenRefused(w)
    <2>1. pc[w] \in {"create_tables", "append_open", "rebuild_open", "analyze_open"}
      BY <1>3 DEF OpenRefused
    <2>2. \A b \in Batch : (Pending(w, b)' <=> Pending(w, b)) BY <1>2, <2>1 DEF Pending
    <2>3. CASE pc[w] = "create_tables"
      <3>1. metaState = "absent" BY <2>3 DEF InHand, Gone
      <3>2. ~IsOpen /\ ~IsOpen' BY <1>1, <3>1, OneOpen
      <3> QED BY <3>2, Unseen
    <2>4. CASE pc[w] # "create_tables"
      <3>1. cur # 0 BY <2>1, <2>4 DEF InHand, Before, InOrder, Found
      <3>2. loc[w].op \notin {"create", "delete"} BY <2>1, <2>4 DEF Bound, Saving
      <3> QED BY <1>1, <2>2, <3>1, <3>2, StatementUnseen
    <2> QED BY <2>3, <2>4
  <1>4. CASE DbError(w)
    <2>1. InSection(w) /\ handle[w] = cur /\ ~Runs(w) /\ cur # 0 BY <1>4 DEF DbError
    <2>2. loc[w].op \notin {"create", "delete"} BY <2>1 DEF Bound, Saving, InSection
    <2>3. \A b \in Batch : ~Pending(w, b)
      <3> SUFFICES ASSUME NEW b \in Batch, Pending(w, b) PROVE FALSE OBVIOUS
      <3>1. pc[w] \in {"insert", "stamp", "append_count"} BY <2>1 DEF Pending, InSection
      <3>2. db[cur].tables = Table BY <3>1 DEF InHand
      <3>3. cur \in File BY <2>1, Finds
      <3>4. Code(w) \subseteq db[cur].layout BY <3>2, <3>3 DEF Roomy, Table
      <3> QED BY <2>1, <3>1, <3>2, <3>4 DEF Runs, Table
    <2>4. \A b \in Batch : (Pending(w, b)' <=> Pending(w, b)) BY <1>2, <2>3
    <2> QED BY <1>1, <2>1, <2>2, <2>4, StatementUnseen
  <1> QED BY <1>3, <1>4

\* The raw rows of an append: the last one is a copy that is not recorded yet.
LEMMA AppendRawUnseen ==
    ASSUME OneCaller, LedgerInv, NEW w \in Worker, AppendRaw(w)
    PROVE  UNCHANGED Ledger!vars
  <1>0. TypeOK /\ WorkersOK /\ AtRest /\ InHand(w) /\ Bound(w) BY AloneIn
  <1> USE <1>0 DEF TypeOK, WorkerTypeOK, Goto
  <1>1. /\ pc[w] = "append_raw" /\ cur \in File /\ cur # 0 /\ db[cur] \in DbFile
        /\ handle[w] = cur /\ UNCHANGED <<metaState, meta, cur>>
    BY Statement DEF AppendRaw
  <1>2. loc[w].op = "append" BY <1>1 DEF WorkersOK, AppendOK
  <1>3. PICK b \in Batch : loc[w].adding = {b} /\ loc[w].recs = RecsOf(b)
    BY <1>2 DEF WorkersOK, AppendOK
  <1>4. PICK k \in 1..(Len(loc[w].recs) - loc[w].done) :
          /\ db' = [db EXCEPT ![cur].raw = @ \o RawRows(w, k)]
          /\ IF loc[w].done + k = Len(loc[w].recs)
             THEN loc' = [loc EXCEPT ![w].done = 0] /\ Goto(w, "insert")
             ELSE loc' = [loc EXCEPT ![w].done = @ + k] /\ UNCHANGED pc
    BY <1>1 DEF AppendRaw
  <1> DEFINE n == loc[w].done + k
             more == RawRows(w, k)
             rows == db[cur].raw
  <1>5. loc[w].done \in Nat /\ Len(loc[w].recs) = SizeOf[b] /\ SizeOf[b] \in Nat
    BY <1>3, LocalType, RecsOfType, BatchAssumption
  <1>6. k \in Nat /\ k > 0 /\ n <= SizeOf[b] BY <1>5
  <1>7. more \in Seq(RawRow) /\ Len(more) = k BY <1>5, <1>6, RawRowsType
  <1>8. db'[cur].raw = rows \o more BY <1>1, <1>4 DEF DbTypeOK, DbFile
  <1>9. rows \in Seq(RawRow) BY <1>1 DEF DbFile
  <1>10. \A j \in Indices(more) : more[j].rec = [batch |-> b, pos |-> loc[w].done + j]
    <2> TAKE j \in Indices(more)
    <2>1. j \in 1..k BY <1>7 DEF Indices
    <2>2. loc[w].done + j \in 1..SizeOf[b] BY <1>5, <1>6, <2>1
    <2>3. more[j].rec = loc[w].recs[loc[w].done + j] BY <2>1 DEF RawRows
    <2> QED BY <1>3, <2>2, <2>3 DEF RecsOf
  <1>11. /\ loc'[w].op = loc[w].op /\ loc'[w].adding = loc[w].adding
         /\ loc'[w].recs = loc[w].recs
         /\ pc'[w] = IF n = SizeOf[b] THEN "insert" ELSE "append_raw"
    BY <1>1, <1>4, <1>5 DEF Local
  <1> HIDE DEF more, rows
  <1>12. \A j \in Indices(more) : more[j].rec.batch = b /\ more[j].rec.pos = loc[w].done + j
    <2> TAKE j \in Indices(more)
    <2>1. PICK r : r = more[j].rec OBVIOUS
    <2>2. r = [batch |-> b, pos |-> loc[w].done + j] BY <1>10, <2>1, Zenon
    <2>3. r.batch = b /\ r.pos = loc[w].done + j BY <2>2
    <2> QED BY <2>1, <2>3, Zenon
  <1>13. \A c \in Batch : ~Pending(w, c) BY <1>1 DEF Pending
  <1>14. \A c \in Batch : Pending(w, c)' <=> c = b /\ n = SizeOf[b]
    <2>1. RecsOf(b) # <<>> BY <1>3, <1>5, <1>6, EmptySeq
    <2> QED BY <1>3, <1>11, <2>1 DEF Pending
  <1>15. IsOpen' <=> IsOpen BY <1>1, <1>11, OneOpen
  <1>16. ASSUME NEW c \in Batch, SizeOf[c] > 0
         PROVE  CopiesOf(c)' - Uncommitted(c)' = CopiesOf(c) - Uncommitted(c)
    <2>1. Uncommitted(c) = 0 BY <1>13, OneUncommitted
    <2>2. CopiesOf(c) = Cardinality(Copied(Last(c), rows)) BY <1>1, CopiesAre DEF rows
    <2>3. CopiesOf(c)' = Cardinality(Copied(Last(c), rows \o more)) BY <1>1, <1>8, CopiesAre
    <2>4. Cardinality(Copied(Last(c), rows)) \in Nat BY <1>9, CopiedFinite
    <2>5. CASE c = b /\ n = SizeOf[b]
      <3>1. Uncommitted(c)' = 1 BY <1>14, <2>5, OneUncommittedNext
      <3>2. k \in Indices(more) BY <1>6, <1>7 DEF Indices
      <3>3. more[k].rec = Last(c) BY <1>10, <2>5, <3>2 DEF Last
      <3>4. \A j \in Indices(more) : j # k => more[j].rec # Last(c)
        <4> TAKE j \in Indices(more)
        <4>1. j \in Nat BY <1>7 DEF Indices
        <4>2. j # k => loc[w].done + j # SizeOf[b] BY <1>5, <1>6, <2>5, <4>1
        <4>3. more[j].rec.pos = loc[w].done + j BY <1>12, Zenon
        <4>4. Last(c).pos = SizeOf[b] BY <2>5 DEF Last
        <4> QED BY <4>2, <4>3, <4>4
      <3>5. CopiesOf(c)' = CopiesOf(c) + 1 BY <1>7, <1>9, <2>2, <2>3, <3>2, <3>3, <3>4, CopiedOnce
      <3> QED BY <2>1, <2>2, <2>4, <3>1, <3>5
    <2>6. CASE ~(c = b /\ n = SizeOf[b])
      <3>1. Uncommitted(c)' = 0 BY <1>14, <2>6, OneUncommittedNext
      <3>2. \A j \in Indices(more) : more[j].rec # Last(c)
        <4> TAKE j \in Indices(more)
        <4>1. j \in Nat /\ j <= k BY <1>6, <1>7 DEF Indices
        <4>2. c = b => loc[w].done + j # SizeOf[b] BY <1>5, <1>6, <2>6, <4>1
        <4>3. more[j].rec.pos = loc[w].done + j /\ more[j].rec.batch = b BY <1>12, Zenon
        <4>4. Last(c).pos = SizeOf[c] /\ Last(c).batch = c BY DEF Last
        <4> QED BY <4>2, <4>3, <4>4
      <3>3. CopiesOf(c)' = CopiesOf(c) BY <1>7, <1>9, <2>2, <2>3, <3>2, CopiedSame
      <3> QED BY <2>1, <3>1, <3>3
    <2> QED BY <2>5, <2>6
  <1> QED BY <1>1, <1>15, <1>16, Unseen

\* A delete begins: there is no case any more.
LEMMA DeleteIs ==
    ASSUME OneCaller, LedgerInv, NEW w \in Worker, Delete(w)
    PROVE  Ledger!Delete \/ UNCHANGED Ledger!vars
  <1>0. TypeOK /\ Bound(w) BY AloneIn
  <1>1. pc[w] = "idle" /\ loc[w].op = "none" /\ metaState' = metaState
    BY <1>0 DEF Delete, Begin, Bound, metaVars
  <1>2. loc'[w].op = "delete" BY <1>0 DEF Delete, NoLocal, TypeOK, WorkerTypeOK
  <1>3. ~IsOpen' BY <1>2, OneOpen
  <1>4. CASE IsOpen BY <1>3, <1>4 DEF Ledger!Delete, Ledger!Blank
  <1>5. CASE ~IsOpen BY <1>3, <1>5, Unseen
  <1> QED BY <1>4, <1>5

LEMMA RemoveUnseen ==
    ASSUME OneCaller, LedgerInv, NEW w \in Worker, Unlink(w) \/ RmDir(w)
    PROVE  UNCHANGED Ledger!vars
  <1>0. TypeOK /\ InHand(w) /\ Bound(w) BY AloneIn
  <1> USE <1>0 DEF TypeOK, WorkerTypeOK
  <1>1. pc[w] = "rm" /\ loc[w].op = "delete" BY DEF Unlink, RmDir, Bound
  <1>2. ~IsOpen BY <1>1, OneOpen
  <1>3. CASE RmDir(w)
    <2>1. metaState = "absent" /\ metaState' = metaState
      BY <1>1, <1>3 DEF RmDir, InHand
    <2>2. ~IsOpen' BY <2>1, OneOpen
    <2> QED BY <1>2, <2>2, Unseen
  <1>4. CASE Unlink(w)
    <2>1. PICK e \in loc[w].todo :
            \/ loc' = [loc EXCEPT ![w].todo = @ \ {e}]
            \/ \/ e = "case.json" /\ metaState = "absent"
               \/ e = "case.duckdb" /\ cur = 0
      BY <1>4 DEF Unlink
    <2>2. loc' = [loc EXCEPT ![w].todo = @ \ {e}] BY <1>1, <2>1 DEF InHand
    <2>3. loc'[w].op = "delete" BY <1>1, <2>2 DEF Local
    <2>4. ~IsOpen' BY <2>3, OneOpen
    <2> QED BY <1>2, <2>4, Unseen
  <1> QED BY <1>3, <1>4

\* What the save that ends an operation records.
LEMMA WriteIs ==
    ASSUME OneCaller, LedgerInv, NEW w \in Worker, Write(w)
    PROVE  [Ledger!Next]_(Ledger!vars)
  <1>0. TypeOK /\ InHand(w) /\ Bound(w) /\ WorkersOK BY AloneIn
  <1> USE <1>0 DEF TypeOK, WorkerTypeOK, Goto
  <1>1. /\ pc[w] = "write" /\ cur # 0 /\ cur \in File /\ metaState = "empty"
        /\ loc[w].inc = metaInc
    BY DEF Write, InHand, DbTypeOK, File
  <1>2. /\ meta' = loc[w].mem /\ metaState' = "ok" /\ UNCHANGED <<cur, db>>
    BY <1>1 DEF Write, dbVars
  <1>3. /\ loc'[w].op \in {"none", "analyze"}
        /\ loc'[w].adding = {} \/ pc'[w] = "analyze_open"
    BY DEF Write, Return, NoLocal
  <1>4. IsOpen' BY <1>2, <1>3, OneOpen
  <1>5. \A b \in Batch : Uncommitted(b)' = 0 /\ CopiesOf(b)' = CopiesOf(b)
    <2> TAKE b \in Batch
    <2>1. ~Pending(w, b)' BY <1>3 DEF Pending
    <2>2. CopiesOf(b)' = CopiesOf(b) BY <1>2 DEF CopiesOf
    <2> QED BY <2>1, <2>2, OneUncommittedNext
  <1>6. IsOpen <=> loc[w].op # "create" BY <1>1, OneOpen DEF Bound
  <1>7. Adds(w) BY <1>1 DEF Bound, Saving
  <1>8. loc[w].op # "append" => \A b \in Batch : Uncommitted(b) = 0
    <2> SUFFICES ASSUME loc[w].op # "append", NEW b \in Batch PROVE Uncommitted(b) = 0 OBVIOUS
    <2>1. ~Pending(w, b) BY DEF Bound, Pending
    <2> QED BY <2>1, OneUncommitted
  <1>9. CASE loc[w].op = "create"
    <2>1. db[cur].raw = <<>> /\ meta' = NewMeta(Code(w)) BY <1>2, <1>7, <1>9 DEF Adds
    <2>2. \A b \in Batch : CopiesOf(b) = 0
      <3> TAKE b \in Batch
      <3>1. Copied(Last(b), <<>>) = {} BY EmptySeq DEF Copied, Indices
      <3> QED BY <1>1, <2>1, <3>1, CopiesAre, FS_EmptySet
    <2>3. Ledger!Create
      BY <1>4, <1>5, <1>6, <1>9, <2>1, <2>2 DEF Ledger!Create, NewMeta
    <2> QED BY <2>3 DEF Ledger!Next
  <1>10. CASE loc[w].op = "append"
    <2>1. PICK b \in Batch : loc[w].adding = {b} /\ loc[w].recs = RecsOf(b)
      BY <1>10 DEF WorkersOK, AppendOK
    <2>2. /\ meta'.sources = Append(meta.sources, b) /\ meta'.notes = meta.notes
          /\ meta'.infrastructure_ips = meta.infrastructure_ips
      BY <1>2, <1>7, <1>10, <2>1 DEF Adds
    <2>3. ForceAllowed \/ IsNew(b) BY <2>1 DEF Bound
    <2>4. SizeOf[b] \in Nat /\ (SizeOf[b] > 0 => loc[w].recs # <<>>)
      BY <2>1, RecsOfType, BatchAssumption, EmptySeq
    <2>5. \A c \in Batch : Uncommitted(c) = IF c = b /\ loc[w].recs # <<>> THEN 1 ELSE 0
      <3> TAKE c \in Batch
      <3>1. Pending(w, c) <=> c = b /\ loc[w].recs # <<>> BY <1>1, <2>1 DEF Pending
      <3> QED BY <3>1, OneUncommitted
    <2>6. CopiesOf(b) \in Nat
      <3>1. db[cur].raw \in Seq(RawRow) BY <1>1 DEF DbTypeOK, DbFile
      <3> QED BY <1>1, <3>1, CopiedFinite, CopiesAre
    <2>7. SizeOf[b] > 0 =>
            CopiesOf(b)' - Uncommitted(b)' = (CopiesOf(b) - Uncommitted(b)) + 1
      BY <1>5, <2>4, <2>5, <2>6
    <2>8. \A c \in Batch : c # b =>
            CopiesOf(c)' - Uncommitted(c)' = CopiesOf(c) - Uncommitted(c)
      BY <1>5, <2>5
    <2>9. PICK force \in {FALSE, ForceAllowed} : force \/ IsNew(b) BY <2>3
    <2>10. Ledger!Accept(b, force)
      <3>1. IsOpen BY <1>6, <1>10
      <3>2. SizeOf[b] > 0 /\ ~force => \A i \in 1..Len(meta.sources) : meta.sources[i] # b
        BY <2>9 DEF IsNew
      <3>3. [c \in Batch |-> IF IsOpen' /\ SizeOf[c] > 0 THEN CopiesOf(c)' - Uncommitted(c)' ELSE 0]
              = [[c \in Batch |-> IF IsOpen /\ SizeOf[c] > 0 THEN CopiesOf(c) - Uncommitted(c) ELSE 0]
                   EXCEPT ![b] = IF SizeOf[b] = 0 THEN 0 ELSE @ + 1]
        <4> DEFINE before == [c \in Batch |-> IF IsOpen /\ SizeOf[c] > 0
                                             THEN CopiesOf(c) - Uncommitted(c) ELSE 0]
                   after  == [c \in Batch |-> IF IsOpen' /\ SizeOf[c] > 0
                                             THEN CopiesOf(c)' - Uncommitted(c)' ELSE 0]
                   stored == IF SizeOf[b] = 0 THEN 0 ELSE before[b] + 1
        <4>1. \A c \in Batch : c # b => after[c] = before[c] BY <1>4, <2>8, <3>1
        <4>2. after[b] = stored BY <1>4, <2>4, <2>7, <3>1
        <4>3. after = [c \in Batch |-> after[c]] /\ before = [c \in Batch |-> before[c]]
          OBVIOUS
        <4> HIDE DEF before, after, stored
        <4>4. after = [before EXCEPT ![b] = stored] BY <4>1, <4>2, <4>3
        <4> QED BY <4>4 DEF before, after, stored
      <3> QED BY <1>4, <2>2, <3>1, <3>2, <3>3 DEF Ledger!Accept, Ledger!Copies
    <2> QED BY <2>9, <2>10 DEF Ledger!Next
  <1>11. CASE loc[w].op = "note"
    <2>1. PICK text \in Text : meta'.notes = Append(meta.notes, text)
      BY <1>2, <1>7, <1>11 DEF Adds
    <2>2. /\ meta'.sources = meta.sources
          /\ meta'.infrastructure_ips = meta.infrastructure_ips
      BY <1>2, <1>7, <1>11 DEF Adds
    <2>3. Ledger!AddNote(text)
      BY <1>4, <1>5, <1>6, <1>8, <1>11, <2>1, <2>2 DEF Ledger!AddNote
    <2> QED BY <2>3 DEF Ledger!Next
  <1>12. CASE loc[w].op = "infra"
    <2>1. meta'.sources = meta.sources /\ meta'.notes = meta.notes
      BY <1>2, <1>7, <1>12 DEF Adds
    <2>2. meta'.infrastructure_ips \in IpList
      BY <1>2, LocalType DEF Meta
    <2>3. Ledger!SetInfrastructureIps(meta'.infrastructure_ips)
      BY <1>4, <1>5, <1>6, <1>8, <1>12, <2>1 DEF Ledger!SetInfrastructureIps
    <2> QED BY <2>2, <2>3 DEF Ledger!Next
  <1>13. CASE loc[w].op \in {"analyze", "digest"}
    <2>1. /\ meta'.sources = meta.sources /\ meta'.notes = meta.notes
          /\ meta'.infrastructure_ips = meta.infrastructure_ips
      BY <1>2, <1>7, <1>13 DEF Adds, SameEntries
    <2>2. UNCHANGED Ledger!vars
      BY <1>4, <1>5, <1>6, <1>8, <1>13, <2>1, Unseen
    <2> QED BY <2>2
  <1> QED BY <1>1, <1>9, <1>10, <1>11, <1>12, <1>13 DEF Bound, Saving

LEMMA LedgerInit == Init => Ledger!Init
  <1> SUFFICES ASSUME Init PROVE Ledger!Init OBVIOUS
  <1>1. \A w \in Worker : loc[w].adding = {} /\ loc[w].op = "none" BY DEF Init, NoLocal
  <1>2. \A b \in Batch : Uncommitted(b) = 0
    <2> TAKE b \in Batch
    <2> DEFINE S == {w \in Worker : Pending(w, b)}
    <2>1. Uncommitted(b) = Cardinality(S) BY DEF Uncommitted, Pending
    <2>2. S = {} BY <1>1 DEF Pending
    <2> QED BY <2>1, <2>2, FS_EmptySet
  <1>3. CASE NoCase
    <2>1. ~IsOpen BY <1>3 DEF NoCase, IsOpen
    <2> QED BY <2>1 DEF Ledger!Init, Ledger!Blank
  <1>4. ASSUME NEW b \in Batch, NEW layout \in OldLayouts, EarlierCase(b, layout)
        PROVE  Ledger!Init
    <2>1. IsOpen BY <1>1, <1>4 DEF EarlierCase, IsOpen
    <2> DEFINE raw == [i \in 1..SizeOf[b] |-> [id |-> i - 1, rec |-> RecsOf(b)[i]]]
    <2>2. cur = 1 /\ db[1].raw = raw
      <3>1. 1 \in File BY BoundAssumption DEF File
      <3> QED BY <1>4, <3>1 DEF EarlierCase, EarlierFile
    <2>3. SizeOf[b] \in Nat BY BatchAssumption
    <2>4. Len(raw) = SizeOf[b] BY <2>3, LenProperties
    <2>5. \A i \in 1..SizeOf[b] : raw[i].rec = [batch |-> b, pos |-> i] BY DEF RecsOf
    <2> HIDE DEF raw
    <2>6. \A c \in Batch : CopiesOf(c) = Cardinality(Copied(Last(c), raw)) BY <2>2, CopiesAre
    <2>7. ASSUME NEW c \in Batch, SizeOf[c] > 0
          PROVE  CopiesOf(c) = IF c = b THEN 1 ELSE 0
      <3>1. \A i \in 1..SizeOf[b] : raw[i].rec = Last(c) <=> c = b /\ i = SizeOf[b]
        <4> TAKE i \in 1..SizeOf[b]
        <4>1. raw[i].rec = [batch |-> b, pos |-> i] BY <2>5
        <4> QED BY <4>1 DEF Last
      <3>2. CASE c = b
        <4>1. SizeOf[b] \in 1..SizeOf[b] BY <2>3, <2>7, <3>2
        <4>2. Copied(Last(c), raw) = {SizeOf[b]}
          BY <2>4, <3>1, <3>2, <4>1 DEF Copied, Indices
        <4> QED BY <2>6, <3>2, <4>2, FS_Singleton
      <3>3. CASE c # b
        <4>1. Copied(Last(c), raw) = {} BY <2>4, <3>1, <3>3 DEF Copied, Indices
        <4> QED BY <2>6, <3>3, <4>1, FS_EmptySet
      <3> QED BY <3>2, <3>3
    <2>8. /\ meta.sources = <<b>> /\ meta.notes = <<>> /\ meta.infrastructure_ips = {}
      BY <1>4 DEF EarlierCase, NewMeta
    <2>9. [c \in Batch |-> IF IsOpen /\ SizeOf[c] > 0 THEN CopiesOf(c) - Uncommitted(c) ELSE 0]
            = [c \in Batch |-> IF c = b THEN (IF SizeOf[b] = 0 THEN 0 ELSE 1) ELSE 0]
      <3>1. \A c \in Batch : SizeOf[c] \in Nat BY BatchAssumption
      <3> QED BY <1>2, <2>1, <2>7, <3>1
    <2> QED BY <2>1, <2>8, <2>9 DEF Ledger!Init, Ledger!Copies
  <1> QED BY <1>3, <1>4 DEF Init

LEMMA LedgerStep ==
    ASSUME OneCaller, MaxFaults = 0, LedgerInv, NEW w \in Worker, Step(w)
    PROVE  [Ledger!Next]_(Ledger!vars)
  <1>1. ~Fail(w) BY AloneIn DEF Fail, TypeOK, CounterTypeOK
  <1>2. Ledger!Delete => Ledger!Next BY DEF Ledger!Next
  <1> QED
    BY <1>1, <1>2, CreateUnseen, BeginUnseen, SectionUnseen, LoadUnseen, TruncateUnseen,
       RefusedUnseen, AppendRawUnseen, DeleteIs, RemoveUnseen, WriteIs DEF Step

LEMMA LedgerNext ==
    OneCaller /\ MaxFaults = 0 /\ LedgerInv /\ [Next]_vars => [Ledger!Next]_(Ledger!vars)
  <1> SUFFICES ASSUME OneCaller, MaxFaults = 0, LedgerInv, [Next]_vars
               PROVE  [Ledger!Next]_(Ledger!vars)
    OBVIOUS
  <1>1. CASE UNCHANGED vars
    BY <1>1 DEF vars, metaVars, dbVars, Ledger!vars, IsOpen, CopiesOf, Uncommitted
  <1>2. ASSUME NEW w \in Worker, Step(w) PROVE [Ledger!Next]_(Ledger!vars)
    BY <1>2, LedgerStep
  <1> QED BY <1>1, <1>2 DEF Next

\* One caller, nothing cut short, no column the tables of an old case lack: the
\* store is the ledger.  Every call, with all its steps on two files, takes
\* effect at one of them: the batch is accepted, whole and once, the note added,
\* the list replaced, the case created at the write of case.json; everything
\* else the store does is invisible to the caller.
THEOREM StoreIsLedger ==
    OneCaller /\ MaxFaults = 0 /\ WideLayouts => (Spec => ImplementsLedger)
  <1>1. SUFFICES ASSUME OneCaller, MaxFaults = 0, WideLayouts PROVE Spec => ImplementsLedger
    OBVIOUS
  <1>2. Init => LedgerInv BY <1>1, LedgerInvInit
  <1>3. LedgerInv /\ [Next]_vars => LedgerInv' BY <1>1, LedgerInvNext
  <1>4. LedgerInv /\ [Next]_vars => [Ledger!Next]_(Ledger!vars) BY <1>1, LedgerNext
  <1> QED BY <1>2, <1>3, <1>4, LedgerInit, PTL DEF Spec, ImplementsLedger, Ledger!Spec

=============================================================================
