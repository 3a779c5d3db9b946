------------------------ MODULE CaseStoreSafetyProofs ------------------------
(***************************************************************************)
(* Why an event always has its raw record beside it, and why a recorded    *)
(* source is always there: the inductive invariant behind EventsDerived    *)
(* and SourceBacked.  Why no two events of a file share an id, and why a   *)
(* row without a stamp has somebody to stamp it: EventIdsUnique and        *)
(* UntimedOwned.                                                           *)
(***************************************************************************)
EXTENDS CaseStoreProofs

AllIn(recs, rows) == \A i \in Indices(recs) : Stored(recs[i], rows)

\* The database sections: the statements a worker runs with the file open.
InSection(w) == pc[w] \in {"append_start", "append_raw", "insert", "stamp", "append_count",
                           "rebuild_read", "rebuild_drop", "rebuild_create", "rebuild_close",
                           "analyze_read"}
HandleOK(w) == InSection(w) => handle[w] \in File

\* An append holds the records of the batch it adds, none inserted at first;
\* a rebuild and an analysis belong to connect.
ConnectPC == {"rebuild_open", "rebuild_read", "rebuild_drop", "rebuild_create",
              "rebuild_close", "rebuild_load", "analyze_open", "analyze_read"}
AppendOK(w) ==
    /\ loc[w].op = "append" =>
         \E b \in Batch : loc[w].adding = {b} /\ loc[w].recs = RecsOf(b)
    /\ pc[w] \in {"append_open", "append_start"} => loc[w].done = 0
    /\ pc[w] \in {"append_open", "append_start", "append_raw", "append_count"} =>
         loc[w].op = "append"
    /\ pc[w] \in {"insert", "stamp"} => loc[w].op \in {"append", "analyze"}
    /\ pc[w] \in ConnectPC => loc[w].op = "analyze"

\* How much of what a worker holds is among the raw records of its file: the
\* raw rows go in first, and everything later only adds rows.
RecsOK(w) ==
    /\ pc[w] = "append_raw" =>
         \A i \in 1..loc[w].done : Stored(loc[w].recs[i], db[handle[w]].raw)
    /\ pc[w] \in {"insert", "stamp", "append_count", "rebuild_drop", "rebuild_create"} =>
         AllIn(loc[w].recs, db[handle[w]].raw)

WorkersOK == \A w \in Worker : HandleOK(w) /\ AppendOK(w) /\ RecsOK(w)

DerivedInv == TypeOK /\ WorkersOK /\ EventsDerived

-----------------------------------------------------------------------------
(* What a step leaves alone *)

\* A step of w moves no other worker.
LEMMA OthersStay ==
    ASSUME TypeOK, NEW w \in Worker, Step(w), NEW v \in Worker, v # w
    PROVE  pc'[v] = pc[v] /\ handle'[v] = handle[v] /\ loc'[v] = loc[v]
  <1> USE DEF TypeOK, WorkerTypeOK, Begin, Goto, Return, OpenDb, InDb
  <1>1. CASE Create(w) \/ CreateTables(w)
    BY <1>1 DEF Create, CreateTables
  <1>2. CASE \E b \in Batch, force \in {FALSE, ForceAllowed} : AppendRecords(w, b, force)
    BY <1>2 DEF AppendRecords
  <1>3. CASE AppendOpen(w) \/ RebuildOpen(w) \/ AnalyzeOpen(w)
    BY <1>3 DEF AppendOpen, RebuildOpen, AnalyzeOpen
  <1>4. CASE AppendStart(w) \/ AppendRaw(w) \/ AppendCount(w)
    BY <1>4 DEF AppendStart, AppendRaw, AppendCount
  <1>5. CASE InsertRecords(w) \/ StampTimes(w)
    BY <1>5 DEF InsertRecords, StampTimes
  <1>6. CASE Connect(w) \/ RebuildRead(w) \/ RebuildDrop(w) \/ RebuildCreate(w)
    BY <1>6 DEF Connect, RebuildRead, RebuildDrop, RebuildCreate
  <1>7. CASE RebuildClose(w) \/ RebuildLoad(w) \/ AnalyzeRead(w) \/ DigestLoad(w)
    BY <1>7 DEF RebuildClose, RebuildLoad, AnalyzeRead, DigestLoad
  <1>8. CASE (\E text \in Text : Note(w, text)) \/ (\E ips \in IpList : SetInfrastructureIps(w, ips))
    BY <1>8 DEF Note, SetInfrastructureIps, Edit
  <1>9. CASE Truncate(w) \/ Write(w)
    BY <1>9 DEF Truncate, Write
  <1>10. CASE Delete(w) \/ Unlink(w) \/ RmDir(w)
    BY <1>10 DEF Delete, Unlink, RmDir
  <1>11. CASE OpenRefused(w) \/ DbError(w) \/ Fail(w)
    BY <1>11 DEF OpenRefused, DbError, Fail
  <1> QED
    BY <1>1, <1>2, <1>3, <1>4, <1>5, <1>6, <1>7, <1>8, <1>9, <1>10, <1>11 DEF Step

\* The statements that write to a database file, and what they write.
DbWrites(w) == CreateTables(w) \/ AppendRaw(w) \/ InsertRecords(w) \/ StampTimes(w)
               \/ RebuildDrop(w) \/ RebuildCreate(w)

LEMMA OnlyDbWrites ==
    ASSUME NEW w \in Worker, Step(w), ~DbWrites(w)
    PROVE  db' = db
  BY DEF Step, DbWrites, Create, AppendRecords, AppendOpen, RebuildOpen, AnalyzeOpen, OpenDb,
         AppendStart, AppendCount, Connect, RebuildRead, RebuildClose, RebuildLoad, AnalyzeRead,
         DigestLoad, Note, SetInfrastructureIps, Edit, Truncate, Write, Delete, Unlink, RmDir,
         OpenRefused, DbError, Fail, Begin, dbVars

LEMMA StoredConcat ==
    ASSUME NEW S, NEW rows \in Seq(S), NEW more \in Seq(S), NEW rec, Stored(rec, rows)
    PROVE  Stored(rec, rows \o more)
  <1>1. PICK i \in 1..Len(rows) : rows[i].rec = rec BY DEF Stored, Indices
  <1>2. i \in 1..Len(rows \o more) /\ (rows \o more)[i] = rows[i] BY ConcatProperties
  <1> QED BY <1>1, <1>2 DEF Stored, Indices

LEMMA StoredAppended ==
    ASSUME NEW S, NEW rows \in Seq(S), NEW more \in Seq(S), NEW j \in 1..Len(more)
    PROVE  Stored(more[j].rec, rows \o more)
  <1>1. Len(rows) \in Nat /\ Len(more) \in Nat OBVIOUS
  <1>2. Len(rows) + j \in 1..Len(rows) + Len(more) BY <1>1
  <1>3. Len(rows \o more) = Len(rows) + Len(more) BY ConcatProperties
  <1>4. (rows \o more)[Len(rows) + j] = more[(Len(rows) + j) - Len(rows)]
    BY <1>1, <1>2, ConcatProperties
  <1>5. (Len(rows) + j) - Len(rows) = j BY <1>1
  <1> QED BY <1>2, <1>3, <1>4, <1>5 DEF Stored, Indices

\* No statement takes a raw record away.
LEMMA RawGrows ==
    ASSUME TypeOK, NEW w \in Worker, Step(w), NEW f \in File, NEW rec,
           Stored(rec, db[f].raw)
    PROVE  Stored(rec, db'[f].raw)
  <1>1. CASE ~DbWrites(w) BY <1>1, OnlyDbWrites
  <1>2. CASE AppendRaw(w)
    <2>1. PICK k \in 1..(Len(loc[w].recs) - loc[w].done) :
            db' = [db EXCEPT ![handle[w]].raw = @ \o RawRows(w, k)]
      BY <1>2 DEF AppendRaw
    <2>2. Len(loc[w].recs) \in Nat /\ loc[w].done \in Nat BY LocalType
    <2>3. RawRows(w, k) \in Seq(RawRow) BY <2>2, RawRowsType
    <2>4. db[f].raw \in Seq(RawRow) BY DEF TypeOK, DbTypeOK, DbFile
    <2>5. Stored(rec, db[f].raw \o RawRows(w, k)) BY <2>3, <2>4, StoredConcat
    <2>6. db'[f].raw = db[f].raw \/ db'[f].raw = db[f].raw \o RawRows(w, k)
      BY <2>1 DEF TypeOK, DbTypeOK, DbFile
    <2> QED BY <2>5, <2>6
  <1>3. CASE CreateTables(w) \/ InsertRecords(w) \/ StampTimes(w)
             \/ RebuildDrop(w) \/ RebuildCreate(w)
    <2> USE DEF TypeOK, DbTypeOK, DbFile
    <2>1. CASE CreateTables(w)
      <3>1. PICK g \in File :
              db' = [db EXCEPT ![g] = [db[g] EXCEPT
                        !.tables = Table,
                        !.layout = LayoutUsed(w, g)]]
        BY <2>1 DEF CreateTables
      <3>2. db'[f].raw = db[f].raw BY <3>1
      <3> QED BY <3>2
    <2>2. CASE InsertRecords(w) BY <2>2 DEF InsertRecords
    <2>3. CASE StampTimes(w) BY <2>3 DEF StampTimes
    <2>4. CASE RebuildDrop(w) BY <2>4 DEF RebuildDrop
    <2>5. CASE RebuildCreate(w)
      <3>1. db'[f].raw = db[f].raw BY <2>5 DEF RebuildCreate
      <3> QED BY <3>1
    <2> QED BY <1>3, <2>1, <2>2, <2>3, <2>4, <2>5
  <1> QED BY <1>1, <1>2, <1>3 DEF DbWrites

-----------------------------------------------------------------------------
(* EventsDerived is inductive with WorkersOK *)

LEMMA OthersOK ==
    ASSUME TypeOK, WorkersOK, NEW w \in Worker, Step(w), NEW v \in Worker, v # w
    PROVE  (HandleOK(v) /\ AppendOK(v) /\ RecsOK(v))'
  <1>1. pc'[v] = pc[v] /\ handle'[v] = handle[v] /\ loc'[v] = loc[v] BY OthersStay
  <1>2. HandleOK(v)' BY <1>1 DEF WorkersOK, HandleOK, InSection
  <1>3. AppendOK(v)' BY <1>1 DEF WorkersOK, AppendOK
  <1>4. ASSUME NEW rec, handle[v] \in File, Stored(rec, db[handle[v]].raw)
        PROVE  Stored(rec, db'[handle'[v]].raw)
    BY <1>1, <1>4, RawGrows
  <1>5. RecsOK(v)'
    <2>1. CASE InSection(v)
      <3>1. handle[v] \in File BY <2>1 DEF WorkersOK, HandleOK
      <3> QED BY <1>1, <1>4, <3>1 DEF WorkersOK, RecsOK, AllIn
    <2>2. CASE ~InSection(v) BY <1>1, <2>2 DEF RecsOK, InSection
    <2> QED BY <2>1, <2>2
  <1> QED BY <1>2, <1>3, <1>5

LEMMA ReturnOK ==
    ASSUME TypeOK, NEW w \in Worker, Return(w)
    PROVE  (HandleOK(w) /\ AppendOK(w) /\ RecsOK(w))'
  <1>1. pc'[w] = "idle" /\ loc'[w] = NoLocal
    BY DEF TypeOK, WorkerTypeOK, Return
  <1> QED BY <1>1 DEF HandleOK, AppendOK, RecsOK, InSection, NoLocal, ConnectPC

\* A worker outside the database sections that is not appending owes nothing.
LEMMA OutsideOK ==
    ASSUME NEW w \in Worker, loc'[w].op # "append",
           pc'[w] \in {"create_tables", "truncate", "write", "rebuild_open", "rebuild_load",
                       "analyze_open", "digest_load", "rm"},
           pc'[w] \in ConnectPC => loc'[w].op = "analyze"
    PROVE  (HandleOK(w) /\ AppendOK(w) /\ RecsOK(w))'
  BY DEF HandleOK, AppendOK, RecsOK, InSection

LEMMA AppendRecordsOK ==
    ASSUME TypeOK, NEW w \in Worker, NEW b \in Batch, NEW force, AppendRecords(w, b, force)
    PROVE  (HandleOK(w) /\ AppendOK(w) /\ RecsOK(w))'
  <1>1. pc'[w] = "append_open" BY DEF TypeOK, WorkerTypeOK, AppendRecords, Goto
  <1>2. loc'[w] = [NoLocal EXCEPT !.op = "append", !.adding = {b}, !.mem = meta, !.recs = RecsOf(b)]
    BY DEF TypeOK, WorkerTypeOK, AppendRecords
  <1>3. loc'[w].op = "append" /\ loc'[w].adding = {b} /\ loc'[w].recs = RecsOf(b) /\ loc'[w].done = 0
    BY <1>2 DEF NoLocal
  <1> QED BY <1>1, <1>3 DEF HandleOK, AppendOK, RecsOK, InSection, ConnectPC

LEMMA OpenDbOK ==
    ASSUME TypeOK, WorkersOK, NEW w \in Worker,
           AppendOpen(w) \/ RebuildOpen(w) \/ AnalyzeOpen(w)
    PROVE  (HandleOK(w) /\ AppendOK(w) /\ RecsOK(w))'
  <1>1. handle'[w] \in File /\ loc' = loc
    BY DEF AppendOpen, RebuildOpen, AnalyzeOpen, OpenDb, TypeOK, WorkerTypeOK
  <1>2. CASE AppendOpen(w)
    <2>1. pc[w] = "append_open" /\ pc'[w] = "append_start"
      BY <1>2 DEF AppendOpen, OpenDb, Goto, TypeOK, WorkerTypeOK
    <2> QED BY <1>1, <2>1 DEF WorkersOK, HandleOK, AppendOK, RecsOK, InSection, ConnectPC
  <1>3. CASE RebuildOpen(w) \/ AnalyzeOpen(w)
    <2>1. pc[w] \in ConnectPC /\ pc'[w] \in {"rebuild_read", "analyze_read"}
      BY <1>3 DEF RebuildOpen, AnalyzeOpen, OpenDb, Goto, TypeOK, WorkerTypeOK, ConnectPC
    <2> QED BY <1>1, <2>1 DEF WorkersOK, HandleOK, AppendOK, RecsOK, InSection
  <1> QED BY <1>2, <1>3

LEMMA AppendStartOK ==
    ASSUME TypeOK, WorkersOK, NEW w \in Worker, AppendStart(w)
    PROVE  (HandleOK(w) /\ AppendOK(w) /\ RecsOK(w))'
  <1>1. handle[w] \in File /\ handle' = handle /\ pc[w] = "append_start"
    BY DEF AppendStart, InDb, WorkersOK, HandleOK, InSection
  <1>2. loc[w].op = "append" /\ loc[w].done = 0
    BY <1>1 DEF WorkersOK, AppendOK
  <1>3. loc'[w].op = loc[w].op /\ loc'[w].adding = loc[w].adding
        /\ loc'[w].recs = loc[w].recs /\ loc'[w].done = loc[w].done
    BY DEF AppendStart, TypeOK, WorkerTypeOK, Local
  <1>4. pc'[w] = IF loc[w].recs = <<>> THEN "append_count" ELSE "append_raw"
    BY DEF AppendStart, RawFirst, Goto, TypeOK, WorkerTypeOK
  <1>5. HandleOK(w)' BY <1>1 DEF HandleOK
  <1>6. AppendOK(w)' BY <1>2, <1>3, <1>4 DEF WorkersOK, AppendOK, ConnectPC
  <1>7. RecsOK(w)'
    <2>1. CASE loc[w].recs = <<>>
      BY <1>3, <1>4, <2>1, EmptySeq DEF RecsOK, AllIn, Indices
    <2>2. CASE loc[w].recs # <<>>
      BY <1>2, <1>3, <1>4, <2>2 DEF RecsOK
    <2> QED BY <2>1, <2>2
  <1> QED BY <1>5, <1>6, <1>7

LEMMA AppendRawOK ==
    ASSUME TypeOK, WorkersOK, NEW w \in Worker, AppendRaw(w)
    PROVE  (HandleOK(w) /\ AppendOK(w) /\ RecsOK(w))'
  <1>1. handle[w] \in File /\ handle' = handle /\ pc[w] = "append_raw"
    BY DEF AppendRaw, InDb, WorkersOK, HandleOK, InSection
  <1>2. PICK k \in 1..(Len(loc[w].recs) - loc[w].done) :
          /\ db' = [db EXCEPT ![handle[w]].raw = @ \o RawRows(w, k)]
          /\ IF loc[w].done + k = Len(loc[w].recs)
             THEN /\ loc' = [loc EXCEPT ![w].done = 0]
                  /\ Goto(w, "insert")
             ELSE /\ loc' = [loc EXCEPT ![w].done = @ + k]
                  /\ UNCHANGED pc
    BY DEF AppendRaw
  <1>3. Len(loc[w].recs) \in Nat /\ loc[w].done \in Nat /\ loc[w].recs \in Seq(Rec)
    BY LocalType
  <1>4. k \in Nat /\ k > 0 /\ loc[w].done + k <= Len(loc[w].recs) BY <1>3
  <1> DEFINE old == db[handle[w]].raw
             new == old \o RawRows(w, k)
  <1>5. db'[handle[w]].raw = new
    BY <1>1, <1>2 DEF TypeOK, DbTypeOK, DbFile
  <1>6. old \in Seq(RawRow) BY <1>1 DEF TypeOK, DbTypeOK, DbFile
  <1>7. RawRows(w, k) \in Seq(RawRow) /\ Len(RawRows(w, k)) = k BY <1>4, RawRowsType
  <1>8. \A i \in 1..(loc[w].done + k) : Stored(loc[w].recs[i], new)
    <2> TAKE i \in 1..(loc[w].done + k)
    <2>1. CASE i <= loc[w].done
      <3>1. Stored(loc[w].recs[i], old) BY <1>1, <1>3, <2>1 DEF WorkersOK, RecsOK
      <3> QED BY <1>6, <1>7, <3>1, StoredConcat
    <2>2. CASE i > loc[w].done
      <3> DEFINE j == i - loc[w].done
      <3>1. j \in 1..k BY <1>3, <1>4, <2>2
      <3>2. RawRows(w, k)[j].rec = loc[w].recs[loc[w].done + j] BY <3>1 DEF RawRows
      <3>3. loc[w].done + j = i BY <1>3
      <3>4. Stored(RawRows(w, k)[j].rec, new) BY <1>6, <1>7, <3>1, StoredAppended
      <3> QED BY <3>2, <3>3, <3>4
    <2> QED BY <1>3, <2>1, <2>2
  <1>9. loc'[w].op = loc[w].op /\ loc'[w].adding = loc[w].adding /\ loc'[w].recs = loc[w].recs
    BY <1>2 DEF TypeOK, WorkerTypeOK, Local
  <1> HIDE DEF old, new
  <1>10. CASE loc[w].done + k = Len(loc[w].recs)
    <2>1. pc'[w] = "insert" BY <1>2, <1>10 DEF Goto, TypeOK, WorkerTypeOK
    <2>2. RecsOK(w)'
      <3>1. \A i \in Indices(loc[w].recs) : Stored(loc[w].recs[i], new)
        BY <1>8, <1>10 DEF Indices
      <3>2. handle'[w] = handle[w] BY <1>1
      <3> QED BY <1>5, <1>9, <2>1, <3>1, <3>2 DEF RecsOK, AllIn
    <2>3. HandleOK(w)' /\ AppendOK(w)'
      BY <1>1, <1>9, <2>1 DEF HandleOK, WorkersOK, AppendOK, ConnectPC
    <2> QED BY <2>2, <2>3
  <1>11. CASE loc[w].done + k # Len(loc[w].recs)
    <2>1. pc'[w] = "append_raw" /\ loc'[w].done = loc[w].done + k
      BY <1>1, <1>2, <1>11 DEF TypeOK, WorkerTypeOK, Local
    <2>2. RecsOK(w)' BY <1>1, <1>5, <1>8, <1>9, <2>1 DEF RecsOK
    <2>3. HandleOK(w)' /\ AppendOK(w)'
      BY <1>1, <1>9, <2>1 DEF HandleOK, WorkersOK, AppendOK, ConnectPC
    <2> QED BY <2>2, <2>3
  <1> QED BY <1>10, <1>11

\* The statements of a section that leave recs alone and stay in it.
LEMMA SameRecsOK ==
    ASSUME TypeOK, WorkersOK, NEW w \in Worker, Step(w),
           handle[w] \in File, handle'[w] = handle[w],
           loc'[w].op = loc[w].op, loc'[w].adding = loc[w].adding, loc'[w].recs = loc[w].recs,
           pc[w] \in {"insert", "stamp", "rebuild_drop", "rebuild_create"},
           pc'[w] \in {"insert", "stamp", "append_count", "rebuild_create", "rebuild_close"},
           pc'[w] = "append_count" => loc[w].op = "append",
           pc'[w] \in {"rebuild_create", "rebuild_close"} => loc[w].op = "analyze"
    PROVE  (HandleOK(w) /\ AppendOK(w) /\ RecsOK(w))'
  <1>1. AllIn(loc[w].recs, db[handle[w]].raw) BY DEF WorkersOK, RecsOK
  <1>2. AllIn(loc[w].recs, db'[handle[w]].raw) BY <1>1, RawGrows DEF AllIn
  <1>3. RecsOK(w)' BY <1>2 DEF RecsOK, AllIn
  <1>4. HandleOK(w)' BY DEF HandleOK
  <1>5. AppendOK(w)' BY DEF WorkersOK, AppendOK, ConnectPC
  <1> QED BY <1>3, <1>4, <1>5

LEMMA StatementOK ==
    ASSUME TypeOK, WorkersOK, NEW w \in Worker, Step(w),
           InsertRecords(w) \/ StampTimes(w) \/ RebuildDrop(w) \/ RebuildCreate(w)
    PROVE  (HandleOK(w) /\ AppendOK(w) /\ RecsOK(w))'
  <1>1. handle[w] \in File /\ handle'[w] = handle[w]
    BY InDbType DEF InsertRecords, StampTimes, RebuildDrop, RebuildCreate
  <1>2. CASE InsertRecords(w)
    <2>1. pc[w] = "insert" /\ pc'[w] \in {"insert", "stamp"}
      BY <1>2 DEF InsertRecords, InDb, Goto, TypeOK, WorkerTypeOK
    <2>2. loc'[w].op = loc[w].op /\ loc'[w].adding = loc[w].adding /\ loc'[w].recs = loc[w].recs
      BY <1>2 DEF InsertRecords, TypeOK, WorkerTypeOK, Local
    <2> QED BY <1>1, <2>1, <2>2, SameRecsOK
  <1>3. CASE StampTimes(w)
    <2>1. pc[w] = "stamp" /\ loc'[w] = loc[w]
          /\ pc'[w] = IF loc[w].op = "append" THEN "append_count" ELSE "rebuild_close"
      BY <1>3 DEF StampTimes, InDb, Goto, TypeOK, WorkerTypeOK
    <2>2. loc[w].op \in {"append", "analyze"} BY <2>1 DEF WorkersOK, AppendOK
    <2> QED BY <1>1, <2>1, <2>2, SameRecsOK
  <1>4. CASE RebuildDrop(w)
    <2>1. pc[w] = "rebuild_drop" /\ loc'[w] = loc[w] /\ pc'[w] = "rebuild_create"
      BY <1>4 DEF RebuildDrop, InDb, Goto, TypeOK, WorkerTypeOK
    <2>2. loc[w].op = "analyze" BY <2>1 DEF WorkersOK, AppendOK, ConnectPC
    <2> QED BY <1>1, <2>1, <2>2, SameRecsOK
  <1>5. CASE RebuildCreate(w)
    <2>1. pc[w] = "rebuild_create" /\ loc'[w] = loc[w] /\ pc'[w] \in {"rebuild_close", "insert"}
      BY <1>5 DEF RebuildCreate, InDb, Goto, TypeOK, WorkerTypeOK
    <2>2. loc[w].op = "analyze" BY <2>1 DEF WorkersOK, AppendOK, ConnectPC
    <2> QED BY <1>1, <2>1, <2>2, SameRecsOK
  <1> QED BY <1>2, <1>3, <1>4, <1>5

LEMMA RebuildReadOK ==
    ASSUME TypeOK, WorkersOK, NEW w \in Worker, RebuildRead(w)
    PROVE  (HandleOK(w) /\ AppendOK(w) /\ RecsOK(w))'
  <1>1. handle[w] \in File /\ db[handle[w]].raw \in Seq(RawRow)
    BY InDbType DEF RebuildRead, DbFile
  <1>2. PICK recs \in Orders(db[handle[w]].raw) :
          loc' = [loc EXCEPT ![w] = [@ EXCEPT !.recs = recs, !.start = 0, !.done = 0]]
    BY DEF RebuildRead
  <1>3. AllIn(recs, db[handle[w]].raw) BY <1>1, OrdersType DEF AllIn, Stored, Indices
  <1>4. pc[w] = "rebuild_read" /\ pc'[w] = "rebuild_drop" /\ handle' = handle /\ db' = db
    BY DEF RebuildRead, InDb, Goto, TypeOK, WorkerTypeOK
  <1>5. loc'[w].recs = recs /\ loc'[w].op = loc[w].op /\ loc'[w].adding = loc[w].adding
    BY <1>2 DEF TypeOK, WorkerTypeOK, Local
  <1>6. HandleOK(w)' BY <1>1, <1>4 DEF HandleOK
  <1>7. RecsOK(w)' BY <1>3, <1>4, <1>5 DEF RecsOK
  <1>8. loc[w].op = "analyze" BY <1>4 DEF WorkersOK, AppendOK, ConnectPC
  <1>9. AppendOK(w)' BY <1>4, <1>5, <1>8 DEF AppendOK
  <1> QED BY <1>6, <1>7, <1>9

LEMMA AppendCountOK ==
    ASSUME TypeOK, WorkersOK, NEW w \in Worker, AppendCount(w)
    PROVE  (HandleOK(w) /\ AppendOK(w) /\ RecsOK(w))'
  <1>1. pc[w] = "append_count" /\ pc'[w] = "truncate"
    BY DEF AppendCount, InDb, Goto, TypeOK, WorkerTypeOK
  <1>2. loc'[w].op = loc[w].op /\ loc'[w].adding = loc[w].adding /\ loc'[w].recs = loc[w].recs
    BY DEF AppendCount, TypeOK, WorkerTypeOK, Local
  <1> QED BY <1>1, <1>2 DEF WorkersOK, HandleOK, AppendOK, RecsOK, InSection, ConnectPC

LEMMA TruncateOK ==
    ASSUME TypeOK, WorkersOK, NEW w \in Worker, Truncate(w), ~Return(w)
    PROVE  (HandleOK(w) /\ AppendOK(w) /\ RecsOK(w))'
  <1>1. pc'[w] = "write" BY DEF Truncate, Goto, TypeOK, WorkerTypeOK
  <1>2. loc'[w].op = loc[w].op /\ loc'[w].adding = loc[w].adding /\ loc'[w].recs = loc[w].recs
    BY DEF Truncate, TypeOK, WorkerTypeOK, Local
  <1> QED BY <1>1, <1>2 DEF WorkersOK, HandleOK, AppendOK, RecsOK, InSection, ConnectPC

LEMMA OtherStepsOK ==
    ASSUME TypeOK, WorkersOK, NEW w \in Worker, ~Return(w),
           \/ Create(w) \/ CreateTables(w) \/ Connect(w)
           \/ RebuildClose(w) \/ RebuildLoad(w) \/ AnalyzeRead(w) \/ DigestLoad(w)
           \/ (\E text \in Text : Note(w, text))
           \/ (\E ips \in IpList : SetInfrastructureIps(w, ips))
           \/ Write(w) \/ Delete(w) \/ Unlink(w)
    PROVE  (HandleOK(w) /\ AppendOK(w) /\ RecsOK(w))'
  <1> USE DEF TypeOK, WorkerTypeOK, Local, Goto, NoLocal, ConnectPC
  <1>1. CASE Create(w) BY <1>1, OutsideOK DEF Create
  <1>2. CASE CreateTables(w)
    <2>1. pc'[w] = "truncate" BY <1>2 DEF CreateTables
    <2>2. loc'[w].op = loc[w].op /\ loc'[w].adding = loc[w].adding /\ loc'[w].recs = loc[w].recs
      BY <1>2 DEF CreateTables
    <2> QED BY <2>1, <2>2 DEF WorkersOK, HandleOK, AppendOK, RecsOK, InSection
  <1>3. CASE Connect(w)
    <2>1. pc'[w] \in {"analyze_open", "rebuild_open"} /\ loc'[w].op = "analyze"
      BY <1>3 DEF Connect
    <2> QED BY <2>1, OutsideOK
  <1>4. CASE RebuildClose(w)
    <2>1. pc[w] = "rebuild_close" /\ pc'[w] = "rebuild_load" /\ loc'[w] = loc[w]
      BY <1>4 DEF RebuildClose, InDb
    <2>2. loc[w].op = "analyze" BY <2>1 DEF WorkersOK, AppendOK
    <2> QED BY <2>1, <2>2, OutsideOK
  <1>5. CASE RebuildLoad(w)
    <2>1. pc[w] = "rebuild_load" /\ pc'[w] = "truncate" /\ loc'[w].op = loc[w].op
      BY <1>5 DEF RebuildLoad
    <2>2. loc[w].op = "analyze" BY <2>1 DEF WorkersOK, AppendOK
    <2> QED BY <2>1, <2>2, OutsideOK
  <1>6. CASE AnalyzeRead(w)
    <2>1. pc'[w] = "digest_load" /\ loc'[w].op = "digest" BY <1>6 DEF AnalyzeRead
    <2> QED BY <2>1, OutsideOK
  <1>7. CASE DigestLoad(w)
    <2>1. pc'[w] = "truncate" /\ loc'[w].op = loc[w].op
          /\ loc'[w].adding = loc[w].adding /\ loc'[w].recs = loc[w].recs
      BY <1>7 DEF DigestLoad
    <2> QED BY <2>1 DEF WorkersOK, HandleOK, AppendOK, RecsOK, InSection
  <1>8. CASE (\E text \in Text : Note(w, text)) \/ (\E ips \in IpList : SetInfrastructureIps(w, ips))
    <2>1. pc'[w] = "truncate" /\ loc'[w].op \in {"note", "infra"}
      BY <1>8 DEF Note, SetInfrastructureIps, Edit
    <2> QED BY <2>1, OutsideOK
  <1>9. CASE Write(w)
    <2>1. pc'[w] = "analyze_open" /\ loc'[w].op = "analyze" BY <1>9 DEF Write
    <2> QED BY <2>1, OutsideOK
  <1>10. CASE Delete(w)
    <2>1. pc'[w] = "rm" /\ loc'[w].op = "delete" BY <1>10 DEF Delete
    <2> QED BY <2>1, OutsideOK
  <1>11. CASE Unlink(w)
    <2>1. pc'[w] = "rm" /\ loc'[w].op = loc[w].op
          /\ loc'[w].adding = loc[w].adding /\ loc'[w].recs = loc[w].recs
      BY <1>11 DEF Unlink
    <2> QED BY <2>1 DEF WorkersOK, HandleOK, AppendOK, RecsOK, InSection
  <1> QED BY <1>1, <1>2, <1>3, <1>4, <1>5, <1>6, <1>7, <1>8, <1>9, <1>10, <1>11

LEMMA WorkersStep ==
    ASSUME TypeOK, WorkersOK, NEW w \in Worker, Step(w)
    PROVE  WorkersOK'
  <1>1. (HandleOK(w) /\ AppendOK(w) /\ RecsOK(w))'
    <2>1. CASE Return(w) BY <2>1, ReturnOK
    <2>2. CASE ~Return(w)
      <3>1. ~(RmDir(w) \/ OpenRefused(w) \/ DbError(w) \/ Fail(w))
        BY <2>2 DEF RmDir, OpenRefused, DbError, Fail
      <3>2. CASE \E b \in Batch, force \in {FALSE, ForceAllowed} : AppendRecords(w, b, force)
        BY <3>2, AppendRecordsOK
      <3>3. CASE AppendOpen(w) \/ RebuildOpen(w) \/ AnalyzeOpen(w)
        BY <3>3, OpenDbOK
      <3>4. CASE AppendStart(w) \/ AppendRaw(w) \/ AppendCount(w) \/ RebuildRead(w) \/ Truncate(w)
        BY <2>2, <3>4, AppendStartOK, AppendRawOK, AppendCountOK, RebuildReadOK, TruncateOK
      <3>5. CASE InsertRecords(w) \/ StampTimes(w) \/ RebuildDrop(w) \/ RebuildCreate(w)
        BY <3>5, StatementOK
      <3> QED BY <2>2, <3>1, <3>2, <3>3, <3>4, <3>5, OtherStepsOK DEF Step
    <2> QED BY <2>1, <2>2
  <1> QED BY <1>1, OthersOK DEF WorkersOK

LEMMA EventsStay ==
    ASSUME TypeOK, EventsDerived, NEW w \in Worker, Step(w), NEW f \in File,
           NEW rows \in Seq(EventRow), db'[f].events = rows,
           \A i \in Indices(rows) :
               Stored(rows[i].rec, db[f].raw)
    PROVE  \A i \in Indices(db'[f].events) : Stored(db'[f].events[i].rec, db'[f].raw)
  BY RawGrows

LEMMA InsertKeepsEvents ==
    ASSUME TypeOK, WorkersOK, EventsDerived, NEW w \in Worker, InsertRecords(w), Step(w)
    PROVE  EventsDerived'
  <1>1. handle[w] \in File /\ pc[w] = "insert"
    BY InDbType DEF InsertRecords, InDb
  <1>2. PICK k \in 1..(Len(loc[w].recs) - loc[w].done) :
          db' = [db EXCEPT ![handle[w]].events = @ \o EventRows(w, k)]
    BY DEF InsertRecords
  <1>3. Len(loc[w].recs) \in Nat /\ loc[w].done \in Nat BY LocalType
  <1>4. k \in Nat /\ loc[w].done + k <= Len(loc[w].recs) BY <1>3
  <1> DEFINE h == handle[w]
             old == db[h].events
             more == EventRows(w, k)
             new == old \o more
  <1>5. old \in Seq(EventRow) BY <1>1 DEF TypeOK, DbTypeOK, DbFile
  <1>6. more \in Seq(EventRow) /\ Len(more) = k BY <1>4, EventRowsType
  <1>7. db'[h].events = new BY <1>1, <1>2 DEF TypeOK, DbTypeOK, DbFile
  <1>8. \A i \in Indices(old) : Stored(old[i].rec, db[h].raw) BY <1>1 DEF EventsDerived
  <1>9. \A j \in 1..k : Stored(more[j].rec, db[h].raw)
    <2> TAKE j \in 1..k
    <2>1. more[j].rec = loc[w].recs[loc[w].done + j] BY DEF EventRows
    <2>2. loc[w].done + j \in Indices(loc[w].recs) BY <1>3, <1>4 DEF Indices
    <2> QED BY <1>1, <2>1, <2>2 DEF WorkersOK, RecsOK, AllIn
  <1> HIDE DEF old, more
  <1>10. \A i \in Indices(new) : Stored(new[i].rec, db[h].raw)
    <2> TAKE i \in Indices(new)
    <2>1. Len(new) = Len(old) + k /\ Len(old) \in Nat
      <3>1. Len(new) = Len(old) + Len(more) BY <1>5, <1>6, ConcatProperties
      <3>2. Len(old) \in Nat BY <1>5, LenProperties
      <3> QED BY <1>6, <3>1, <3>2
    <2>2. i \in 1..Len(old) + k BY <2>1 DEF Indices
    <2>3. CASE i <= Len(old)
      BY <1>5, <1>6, <1>8, <2>1, <2>2, <2>3, ConcatProperties DEF Indices
    <2>4. CASE i > Len(old)
      <3>1. new[i] = more[i - Len(old)]
        BY <1>5, <1>6, <2>1, <2>2, <2>4, ConcatProperties
      <3>2. i - Len(old) \in 1..k BY <1>4, <2>1, <2>2, <2>4
      <3> QED BY <1>9, <3>1, <3>2
    <2> QED BY <2>1, <2>2, <2>3, <2>4
  <1>11. new \in Seq(EventRow) BY <1>5, <1>6, ConcatProperties
  <1>12. ASSUME NEW f \in File
         PROVE  \A i \in Indices(db'[f].events) : Stored(db'[f].events[i].rec, db'[f].raw)
    <2>1. CASE f = h BY <1>7, <1>10, <1>11, <2>1, EventsStay
    <2>2. CASE f # h
      <3>1. db'[f] = db[f] BY <1>2, <2>2 DEF TypeOK, DbTypeOK
      <3> QED BY <3>1 DEF EventsDerived
    <2> QED BY <2>1, <2>2
  <1> QED BY <1>12 DEF EventsDerived

LEMMA StampKeepsEvents ==
    ASSUME TypeOK, EventsDerived, NEW w \in Worker, StampTimes(w)
    PROVE  EventsDerived'
  <1>1. handle[w] \in File BY InDbType DEF StampTimes
  <1> DEFINE old == db[handle[w]].events
             new == Stamped(old, loc[w].start)
  <1>2. old \in Seq(EventRow) /\ loc[w].start \in Nat
    BY <1>1, LocalType DEF TypeOK, DbTypeOK, DbFile
  <1>3. Len(new) = Len(old) BY <1>2, StampedType
  <1>4. \A i \in Indices(old) : new[i].rec = old[i].rec
    BY <1>2, ElementOfSeq DEF Stamped, Indices, EventRow
  <1>5. db' = [db EXCEPT ![handle[w]].events = new] BY DEF StampTimes
  <1> HIDE DEF new
  <1>6. ASSUME NEW f \in File
        PROVE  \A i \in Indices(db'[f].events) : Stored(db'[f].events[i].rec, db'[f].raw)
    <2>1. CASE f = handle[w]
      <3>1. db'[f].events = new /\ db'[f].raw = db[f].raw
        BY <1>1, <1>5, <2>1 DEF TypeOK, DbTypeOK, DbFile
      <3> QED BY <1>3, <1>4, <2>1, <3>1 DEF EventsDerived, Indices
    <2>2. CASE f # handle[w]
      <3>1. db'[f] = db[f] BY <1>5, <2>2 DEF TypeOK, DbTypeOK
      <3> QED BY <3>1 DEF EventsDerived
    <2> QED BY <2>1, <2>2
  <1> QED BY <1>6 DEF EventsDerived

LEMMA EventsStep ==
    ASSUME TypeOK, WorkersOK, EventsDerived, NEW w \in Worker, Step(w)
    PROVE  EventsDerived'
  <1>1. CASE ~DbWrites(w) BY <1>1, OnlyDbWrites DEF EventsDerived
  <1>2. CASE InsertRecords(w) BY <1>2, InsertKeepsEvents
  <1>3. CASE StampTimes(w) BY <1>3, StampKeepsEvents
  <1>4. CASE AppendRaw(w) \/ CreateTables(w) \/ RebuildCreate(w)
    <2>1. ASSUME NEW f \in File PROVE db'[f].events = db[f].events
      <3> USE DEF TypeOK, DbTypeOK, DbFile
      <3>1. CASE AppendRaw(w) BY <3>1 DEF AppendRaw
      <3>2. CASE CreateTables(w)
        <4>1. PICK g \in File :
                db' = [db EXCEPT ![g] = [db[g] EXCEPT
                          !.tables = Table,
                          !.layout = LayoutUsed(w, g)]]
          BY <3>2 DEF CreateTables
        <4> QED BY <4>1
      <3>3. CASE RebuildCreate(w) BY <3>3 DEF RebuildCreate
      <3> QED BY <1>4, <3>1, <3>2, <3>3
    <2> QED BY <2>1, RawGrows DEF EventsDerived
  <1>5. CASE RebuildDrop(w)
    <2>1. ASSUME NEW f \in File PROVE db'[f].events = db[f].events \/ db'[f].events = <<>>
      BY <1>5 DEF RebuildDrop, TypeOK, DbTypeOK, DbFile
    <2>2. Indices(<<>>) = {} BY EmptySeq DEF Indices
    <2> QED BY <2>1, <2>2, RawGrows DEF EventsDerived
  <1> QED BY <1>1, <1>2, <1>3, <1>4, <1>5 DEF DbWrites

LEMMA DerivedInit == Init => DerivedInv
  <1> SUFFICES ASSUME Init PROVE DerivedInv OBVIOUS
  <1>1. TypeOK BY InitType
  <1>2. WorkersOK
    BY DEF Init, WorkersOK, HandleOK, AppendOK, RecsOK, InSection, NoLocal, ConnectPC
  <1>3. EventsDerived
    <2>1. CASE NoCase
      BY <2>1, EmptySeq DEF NoCase, EventsDerived, EmptyFile, Indices
    <2>2. ASSUME NEW b \in Batch, NEW layout \in OldLayouts, EarlierCase(b, layout)
          PROVE  EventsDerived
      <3> DEFINE file == EarlierFile(b, layout)
      <3>1. SizeOf[b] \in Nat BY BatchAssumption
      <3>2. Len(file.events) = SizeOf[b] /\ Len(file.raw) = SizeOf[b]
        BY <3>1, LenProperties DEF EarlierFile
      <3>3. \A i \in Indices(file.events) : Stored(file.events[i].rec, file.raw)
        BY <3>1, <3>2 DEF EarlierFile, Indices, Stored
      <3>4. \A f \in File : db[f] = file \/ db[f] = EmptyFile
        BY <2>2 DEF EarlierCase
      <3> QED BY <3>3, <3>4, EmptySeq DEF EventsDerived, EmptyFile, Indices
    <2> QED BY <2>1, <2>2 DEF Init
  <1> QED BY <1>1, <1>2, <1>3 DEF DerivedInv

LEMMA DerivedNext == DerivedInv /\ [Next]_vars => DerivedInv'
  <1> SUFFICES ASSUME DerivedInv, [Next]_vars PROVE DerivedInv' OBVIOUS
  <1>1. CASE UNCHANGED vars
    <2>1. TypeOK' BY <1>1, StutterType DEF DerivedInv
    <2>2. WorkersOK'
      BY <1>1 DEF DerivedInv, WorkersOK, HandleOK, AppendOK, RecsOK, InSection, vars, dbVars
    <2>3. EventsDerived' BY <1>1 DEF DerivedInv, EventsDerived, vars, dbVars
    <2> QED BY <2>1, <2>2, <2>3 DEF DerivedInv
  <1>2. ASSUME NEW w \in Worker, Step(w) PROVE DerivedInv'
    BY <1>2, StepType, WorkersStep, EventsStep DEF DerivedInv
  <1> QED BY <1>1, <1>2 DEF Next

\* However appends, migrations, analyses and deletions interleave, in one
\* process or several, and wherever they are cut short, every analytic row has
\* its raw record in the same database file: dropping and rebuilding the events
\* table never loses an event.
THEOREM EventsAlwaysDerived == Spec => []EventsDerived
  <1>1. DerivedInv => EventsDerived BY DEF DerivedInv
  <1> QED BY <1>1, DerivedInit, DerivedNext, PTL DEF Spec

-----------------------------------------------------------------------------
(* A case that is not deleted: one file, and what is recorded is in it      *)

\* Every open connection is to the file at the path.
PathOK == \A w \in Worker : handle[w] \in {0, cur} /\ pc[w] # "rm"

TablesThere == cur # 0 /\ "raw_records" \in db[cur].tables

\* Whoever got past the checks at the start of an operation found a case.
TablesOK ==
    /\ metaState # "absent" => TablesThere
    /\ \A w \in Worker : pc[w] \notin {"idle", "create_tables"} => TablesThere

Backed(b) == cur # 0 /\ AllStored(b, db[cur].raw)
AllBacked(doc) == \A i \in Indices(doc.sources) : Backed(doc.sources[i])

\* What a worker is going to save is as true as what is saved.
SourcesOK == AllBacked(meta) /\ \A w \in Worker : AllBacked(loc[w].mem)

KeptInv == TypeOK /\ WorkersOK /\ PathOK /\ TablesOK /\ SourcesOK

LEMMA NoDelete ==
    ASSUME Deletes = FALSE, PathOK, NEW w \in Worker, Step(w)
    PROVE  ~(Delete(w) \/ Unlink(w) \/ RmDir(w))
  BY DEF PathOK, Delete, Unlink, RmDir

LEMMA OpenPath ==
    ASSUME TypeOK, PathOK, NEW w \in Worker, NEW f \in File, Open(w, f)
    PROVE  /\ cur' = f /\ cur \in {0, f}
           /\ \A v \in Worker : handle[v] \in {0, cur'}
  <1>1. Shared(w) \subseteq {cur} BY DEF Shared, PathOK
  <1>2. CASE f \in Shared(w) /\ UNCHANGED <<cur, made>>
    BY <1>1, <1>2 DEF PathOK
  <1>3. CASE Shared(w) = {} /\ cur # 0 /\ f = cur /\ UNCHANGED <<cur, made>>
    BY <1>3 DEF PathOK
  <1>4. CASE cur = 0 /\ cur' = f BY <1>4 DEF PathOK
  <1> QED BY <1>2, <1>3, <1>4 DEF Open

\* Only an open of a path that leads nowhere changes where it leads.
LEMMA CurOrOpen ==
    ASSUME Deletes = FALSE, TypeOK, PathOK, NEW w \in Worker, Step(w)
    PROVE  cur' = cur \/ \E f \in File : Open(w, f)
  <1>1. CASE CreateTables(w) \/ AppendOpen(w) \/ RebuildOpen(w) \/ AnalyzeOpen(w)
    BY <1>1 DEF CreateTables, AppendOpen, RebuildOpen, AnalyzeOpen, OpenDb
  <1>2. CASE ~(CreateTables(w) \/ AppendOpen(w) \/ RebuildOpen(w) \/ AnalyzeOpen(w))
    BY <1>2, NoDelete
       DEF Step, Create, AppendRecords, AppendStart, AppendRaw, AppendCount, InsertRecords,
           StampTimes, Connect, RebuildRead, RebuildDrop, RebuildCreate, RebuildClose,
           RebuildLoad, AnalyzeRead, DigestLoad, Note, SetInfrastructureIps, Edit, Truncate,
           Write, OpenRefused, DbError, Fail, Begin, InDb, dbVars
  <1> QED BY <1>1, <1>2

LEMMA CurStays ==
    ASSUME Deletes = FALSE, TypeOK, PathOK, NEW w \in Worker, Step(w), cur # 0
    PROVE  cur' = cur /\ cur \in File
  <1>1. cur \in File BY DEF TypeOK, DbTypeOK, File
  <1>2. ASSUME NEW f \in File, Open(w, f) PROVE cur' = cur
    BY <1>2, OpenPath
  <1>3. cur' = cur BY <1>2, CurOrOpen
  <1> QED BY <1>1, <1>3

LEMMA BackedStays ==
    ASSUME Deletes = FALSE, TypeOK, PathOK, NEW w \in Worker, Step(w), NEW b, Backed(b)
    PROVE  Backed(b)'
  BY CurStays, RawGrows DEF Backed, AllStored

\* What a step opens, closes or leaves open.
LEMMA HandleAfter ==
    ASSUME Deletes = FALSE, TypeOK, PathOK, NEW w \in Worker, Step(w)
    PROVE  pc'[w] # "rm" /\ handle'[w] \in {0, handle[w], cur'}
  <1> USE DEF TypeOK, WorkerTypeOK, Goto, Return, Begin
  <1>1. CASE Create(w) \/ Connect(w)
             \/ \E b \in Batch, force \in {FALSE, ForceAllowed} : AppendRecords(w, b, force)
    BY <1>1 DEF Create, Connect, AppendRecords
  <1>2. CASE CreateTables(w)
    BY <1>2 DEF CreateTables
  <1>3. CASE AppendOpen(w) \/ RebuildOpen(w) \/ AnalyzeOpen(w)
    <2>1. PICK f \in File : Open(w, f) /\ handle' = [handle EXCEPT ![w] = f]
      BY <1>3 DEF AppendOpen, RebuildOpen, AnalyzeOpen, OpenDb
    <2>2. pc'[w] # "rm" BY <1>3 DEF AppendOpen, RebuildOpen, AnalyzeOpen, OpenDb
    <2> QED BY <2>1, <2>2, OpenPath
  <1>4. CASE AppendStart(w) \/ AppendRaw(w) \/ AppendCount(w) \/ InsertRecords(w) \/ StampTimes(w)
    BY <1>4 DEF AppendStart, RawFirst, AppendRaw, AppendCount, InsertRecords, StampTimes, InDb
  <1>5. CASE RebuildRead(w) \/ RebuildDrop(w) \/ RebuildCreate(w) \/ RebuildClose(w)
    BY <1>5 DEF RebuildRead, RebuildDrop, RebuildCreate, RebuildClose, InDb
  <1>6. CASE RebuildLoad(w) \/ AnalyzeRead(w) \/ DigestLoad(w)
    BY <1>6 DEF RebuildLoad, AnalyzeRead, DigestLoad, InDb
  <1>7. CASE (\E text \in Text : Note(w, text)) \/ (\E ips \in IpList : SetInfrastructureIps(w, ips))
    BY <1>7 DEF Note, SetInfrastructureIps, Edit
  <1>8. CASE Truncate(w) \/ Write(w)
    BY <1>8 DEF Truncate, Write
  <1>9. CASE OpenRefused(w) \/ DbError(w) \/ Fail(w)
    BY <1>9 DEF OpenRefused, DbError, Fail
  <1> QED
    BY <1>1, <1>2, <1>3, <1>4, <1>5, <1>6, <1>7, <1>8, <1>9, NoDelete DEF Step

LEMMA PathStep ==
    ASSUME Deletes = FALSE, TypeOK, PathOK, NEW w \in Worker, Step(w)
    PROVE  PathOK'
  <1>1. \A v \in Worker : handle[v] \in {0, cur'}
    BY CurOrOpen, OpenPath DEF PathOK
  <1>2. \A v \in Worker : v # w => handle'[v] = handle[v] /\ pc'[v] = pc[v] BY OthersStay
  <1> QED BY <1>1, <1>2, HandleAfter DEF PathOK

LEMMA TablesStay ==
    ASSUME Deletes = FALSE, TypeOK, PathOK, NEW w \in Worker, Step(w), TablesThere
    PROVE  TablesThere'
  <1>1. cur' = cur /\ cur \in File BY CurStays DEF TablesThere
  <1>2. "raw_records" \in db'[cur].tables
    <2> USE <1>1 DEF TablesThere, TypeOK, DbTypeOK, DbFile
    <2>1. CASE ~DbWrites(w) BY <2>1, OnlyDbWrites
    <2>2. CASE AppendRaw(w) BY <2>2 DEF AppendRaw
    <2>3. CASE InsertRecords(w) BY <2>3 DEF InsertRecords
    <2>4. CASE StampTimes(w) BY <2>4 DEF StampTimes
    <2>5. CASE RebuildDrop(w)
      <3>1. db'[cur].tables \in {db[cur].tables, db[cur].tables \ {"events"}}
        BY <2>5 DEF RebuildDrop
      <3> QED BY <3>1
    <2>6. CASE RebuildCreate(w)
      <3>1. db'[cur].tables \in {db[cur].tables, db[cur].tables \cup {"events"}}
        BY <2>6 DEF RebuildCreate
      <3> QED BY <3>1
    <2>7. CASE CreateTables(w)
      <3>1. PICK g \in File :
              db' = [db EXCEPT ![g] = [db[g] EXCEPT
                        !.tables = Table,
                        !.layout = LayoutUsed(w, g)]]
        BY <2>7 DEF CreateTables
      <3>2. db'[cur].tables = db[cur].tables \/ db'[cur].tables = Table BY <3>1
      <3> QED BY <3>2 DEF Table
    <2> QED BY <2>1, <2>2, <2>3, <2>4, <2>5, <2>6, <2>7 DEF DbWrites
  <1> QED BY <1>1, <1>2 DEF TablesThere

LEMMA TablesCreated ==
    ASSUME TypeOK, PathOK, NEW w \in Worker, CreateTables(w)
    PROVE  TablesThere'
  <1>1. PICK f \in File :
          /\ Open(w, f)
          /\ db' = [db EXCEPT ![f] = [db[f] EXCEPT
                       !.tables = Table,
                       !.layout = LayoutUsed(w, f)]]
    BY DEF CreateTables
  <1>2. cur' = f /\ cur' # 0 BY <1>1, OpenPath DEF File
  <1>3. db'[f].tables = Table BY <1>1 DEF TypeOK, DbTypeOK, DbFile
  <1> QED BY <1>2, <1>3 DEF TablesThere, Table

\* An operation that begins found a case.json, or is a create.
LEMMA FoundCase ==
    ASSUME Deletes = FALSE, TypeOK, PathOK, TablesOK, NEW w \in Worker, Step(w),
           pc'[w] \notin {"idle", "create_tables"}
    PROVE  TablesThere'
  <1>1. CASE pc[w] \notin {"idle", "create_tables"}
    BY <1>1, TablesStay DEF TablesOK
  <1>2. CASE metaState # "absent"
    BY <1>2, TablesStay DEF TablesOK
  <1>3. CASE CreateTables(w) BY <1>3, TablesCreated
  <1>4. CASE Create(w) BY <1>4 DEF Create, Goto, TypeOK, WorkerTypeOK
  <1>5. CASE OpenRefused(w) \/ DbError(w) \/ Fail(w)
    BY <1>5 DEF OpenRefused, DbError, Fail, Return, TypeOK, WorkerTypeOK
  <1>6. CASE Connect(w) \/ (\E text \in Text : Note(w, text))
             \/ (\E ips \in IpList : SetInfrastructureIps(w, ips))
             \/ \E b \in Batch, force \in {FALSE, ForceAllowed} : AppendRecords(w, b, force)
    <2>1. metaState # "absent"
      BY <1>6 DEF Connect, Note, SetInfrastructureIps, Edit, AppendRecords, Readable
    <2> QED BY <1>2, <2>1
  <1>7. CASE ~(CreateTables(w) \/ Create(w) \/ OpenRefused(w) \/ DbError(w) \/ Fail(w)
               \/ Connect(w) \/ (\E text \in Text : Note(w, text))
               \/ (\E ips \in IpList : SetInfrastructureIps(w, ips))
               \/ \E b \in Batch, force \in {FALSE, ForceAllowed} : AppendRecords(w, b, force))
    <2>1. pc[w] \notin {"idle", "create_tables"}
      BY <1>7, NoDelete
         DEF Step, AppendOpen, RebuildOpen, AnalyzeOpen, OpenDb, AppendStart, AppendRaw,
             AppendCount, InsertRecords, StampTimes, RebuildRead, RebuildDrop, RebuildCreate,
             RebuildClose, RebuildLoad, AnalyzeRead, DigestLoad, Truncate, Write, InDb
    <2> QED BY <1>1, <2>1
  <1> QED BY <1>3, <1>4, <1>5, <1>6, <1>7

\* Only save_meta touches case.json while no case is deleted.
SavesMeta(w) == Truncate(w) \/ Write(w)

LEMMA OnlySavesMeta ==
    ASSUME Deletes = FALSE, PathOK, NEW w \in Worker, Step(w), ~SavesMeta(w)
    PROVE  meta' = meta /\ metaState' = metaState
  BY NoDelete
     DEF Step, SavesMeta, CreateTables, Create, AppendRecords, AppendOpen, RebuildOpen,
         AnalyzeOpen, OpenDb, AppendStart, AppendRaw, AppendCount, InsertRecords, StampTimes,
         Connect, RebuildRead, RebuildDrop, RebuildCreate, RebuildClose, RebuildLoad,
         AnalyzeRead, DigestLoad, Note, SetInfrastructureIps, Edit, OpenRefused, DbError, Fail,
         InDb, metaVars

LEMMA TablesStep ==
    ASSUME Deletes = FALSE, TypeOK, PathOK, TablesOK, NEW w \in Worker, Step(w)
    PROVE  TablesOK'
  <1>1. ASSUME NEW v \in Worker, pc'[v] \notin {"idle", "create_tables"}
        PROVE  TablesThere'
    <2>1. CASE v = w BY <1>1, <2>1, FoundCase
    <2>2. CASE v # w
      <3>1. pc'[v] = pc[v] BY <2>2, OthersStay
      <3> QED BY <1>1, <3>1, TablesStay DEF TablesOK
    <2> QED BY <2>1, <2>2
  <1>2. ASSUME metaState' # "absent" PROVE TablesThere'
    <2>1. CASE SavesMeta(w)
      <3>1. pc[w] \in {"truncate", "write"} BY <2>1 DEF SavesMeta, Truncate, Write
      <3> QED BY <3>1, TablesStay DEF TablesOK
    <2>2. CASE ~SavesMeta(w)
      BY <1>2, <2>2, OnlySavesMeta, TablesStay DEF TablesOK
    <2> QED BY <2>1, <2>2
  <1> QED BY <1>1, <1>2 DEF TablesOK

LEMMA AllBackedStays ==
    ASSUME Deletes = FALSE, TypeOK, PathOK, NEW w \in Worker, Step(w),
           NEW doc, AllBacked(doc)
    PROVE  \A i \in Indices(doc.sources) : Backed(doc.sources[i])'
  BY BackedStays DEF AllBacked

LEMMA NothingRecorded ==
    ASSUME NEW layout
    PROVE  Indices(NewMeta(layout).sources) = {}
  BY EmptySeq DEF NewMeta, Indices

\* The metadata a worker holds after its step: as before, a new document, the
\* saved one with other fields changed, or (append's last step) one source more.
LEMMA MemAfter ==
    ASSUME Deletes = FALSE, TypeOK, PathOK, NEW w \in Worker, Step(w), ~AppendCount(w)
    PROVE  loc'[w].mem.sources \in {loc[w].mem.sources, meta.sources, <<>>}
  <1> USE DEF TypeOK, WorkerTypeOK, Local
  <1>1. CASE Return(w) BY <1>1 DEF Return, NoLocal, NewMeta
  <1>2. CASE Create(w) BY <1>2 DEF Create
  <1>3. CASE CreateTables(w)
    <2>1. loc'[w].mem = NewMeta(Code(w)) BY <1>3 DEF CreateTables
    <2> QED BY <2>1 DEF NewMeta
  <1>4. CASE \E b \in Batch, force \in {FALSE, ForceAllowed} : AppendRecords(w, b, force)
    <2>1. loc'[w].mem = meta BY <1>4 DEF AppendRecords, NoLocal
    <2> QED BY <2>1
  <1>5. CASE AppendOpen(w) \/ RebuildOpen(w) \/ AnalyzeOpen(w)
    BY <1>5 DEF AppendOpen, RebuildOpen, AnalyzeOpen, OpenDb
  <1>6. CASE AppendStart(w) BY <1>6 DEF AppendStart
  <1>7. CASE AppendRaw(w)
    <2>1. PICK k \in 1..(Len(loc[w].recs) - loc[w].done) :
            \/ loc' = [loc EXCEPT ![w].done = 0]
            \/ loc' = [loc EXCEPT ![w].done = @ + k]
      BY <1>7 DEF AppendRaw
    <2> QED BY <2>1
  <1>8. CASE InsertRecords(w) BY <1>8 DEF InsertRecords
  <1>9. CASE StampTimes(w) \/ RebuildDrop(w) \/ RebuildCreate(w) \/ RebuildClose(w)
    BY <1>9 DEF StampTimes, RebuildDrop, RebuildCreate, RebuildClose
  <1>10. CASE Connect(w)
    <2>1. loc'[w].mem = meta BY <1>10 DEF Connect, NoLocal
    <2> QED BY <2>1
  <1>11. CASE RebuildRead(w) BY <1>11 DEF RebuildRead
  <1>12. CASE RebuildLoad(w) /\ ~Return(w)
    <2>1. loc'[w].mem = [meta EXCEPT !.fingerprint = Code(w), !.record_count = Len(loc[w].recs)]
      BY <1>12 DEF RebuildLoad
    <2> QED BY <2>1 DEF MetaTypeOK, Meta
  <1>13. CASE AnalyzeRead(w) /\ ~Return(w)
    <2>1. loc' = [loc EXCEPT ![w] = [@ EXCEPT
                     !.op = "digest",
                     !.seen = Len(db[handle[w]].events)]]
      BY <1>13 DEF AnalyzeRead
    <2>2. loc'[w].mem = loc[w].mem BY <2>1
    <2> QED BY <2>2
  <1>14. CASE DigestLoad(w) /\ ~Return(w)
    <2>1. loc'[w].mem = [meta EXCEPT !.digest = loc[w].seen] BY <1>14 DEF DigestLoad
    <2> QED BY <2>1 DEF MetaTypeOK, Meta
  <1>15. CASE \E text \in Text : Note(w, text)
    <2>1. PICK text \in Text : loc'[w].mem = [meta EXCEPT !.notes = Append(@, text)]
      BY <1>15 DEF Note, Edit, NoLocal
    <2> QED BY <2>1 DEF MetaTypeOK, Meta
  <1>16. CASE \E ips \in IpList : SetInfrastructureIps(w, ips)
    <2>1. PICK ips \in IpList : loc'[w].mem = [meta EXCEPT !.infrastructure_ips = ips]
      BY <1>16 DEF SetInfrastructureIps, Edit, NoLocal
    <2> QED BY <2>1 DEF MetaTypeOK, Meta
  <1>17. CASE (Truncate(w) \/ Write(w)) /\ ~Return(w) BY <1>17 DEF Truncate, Write
  <1>18. CASE OpenRefused(w) \/ DbError(w) \/ Fail(w)
    BY <1>1, <1>18 DEF OpenRefused, DbError, Fail
  <1> QED
    BY <1>1, <1>2, <1>3, <1>4, <1>5, <1>6, <1>7, <1>8, <1>9, <1>10, <1>11, <1>12, <1>13, <1>14,
       <1>15, <1>16, <1>17, <1>18, NoDelete DEF Step

\* The source an append adds is complete in raw_records by then.
LEMMA AppendedBacked ==
    ASSUME Deletes = FALSE, TypeOK, WorkersOK, PathOK, SourcesOK,
           NEW w \in Worker, Step(w), AppendCount(w)
    PROVE  AllBacked(loc[w].mem)'
  <1>1. pc[w] = "append_count" /\ handle[w] # 0 BY DEF AppendCount, InDb
  <1>2. handle[w] = cur /\ cur # 0 BY <1>1 DEF PathOK
  <1>3. PICK b \in loc[w].adding :
          loc' = [loc EXCEPT ![w].mem = WithSource(w, b)]
    BY DEF AppendCount
  <1>4. b \in Batch /\ loc[w].recs = RecsOf(b)
    BY <1>1, <1>3 DEF WorkersOK, AppendOK
  <1>5. Backed(b)
    <2>1. AllIn(RecsOf(b), db[cur].raw) BY <1>1, <1>2, <1>4 DEF WorkersOK, RecsOK
    <2>2. Indices(RecsOf(b)) = 1..SizeOf[b] BY <1>4, RecsOfType DEF Indices
    <2>3. \A i \in 1..SizeOf[b] : RecsOf(b)[i] = [batch |-> b, pos |-> i] BY DEF RecsOf
    <2> QED BY <1>2, <2>1, <2>2, <2>3 DEF Backed, AllStored, AllIn
  <1> DEFINE old == loc[w].mem.sources
  <1>6. old \in Seq(Batch) BY LocalType DEF Meta
  <1>7. loc'[w].mem.sources = Append(old, b)
    BY <1>3 DEF WithSource, TypeOK, WorkerTypeOK, Local, Meta
  <1>8. ASSUME NEW i \in Indices(Append(old, b)) PROVE Backed(Append(old, b)[i])
    <2>1. CASE i \in Indices(old)
      <3>1. Append(old, b)[i] = old[i] BY <1>6, <2>1 DEF Indices
      <3> QED BY <2>1, <3>1 DEF SourcesOK, AllBacked
    <2>2. CASE i \notin Indices(old)
      <3>1. i = Len(old) + 1 BY <1>6, <1>8, <2>2 DEF Indices
      <3> QED BY <1>5, <1>6, <3>1
    <2> QED BY <2>1, <2>2
  <1>9. PICK s : s = Append(old, b) OBVIOUS
  <1>10. \A i \in Indices(s) : Backed(s[i])'
    BY <1>8, <1>9, BackedStays
  <1> QED BY <1>7, <1>9, <1>10 DEF AllBacked

LEMMA SourcesStep ==
    ASSUME Deletes = FALSE, TypeOK, WorkersOK, PathOK, SourcesOK, NEW w \in Worker, Step(w)
    PROVE  SourcesOK'
  <1>1. AllBacked(loc[w].mem)'
    <2>1. CASE AppendCount(w) BY <2>1, AppendedBacked
    <2>2. CASE ~AppendCount(w)
      <3>1. CASE loc'[w].mem.sources = loc[w].mem.sources
        BY <3>1, AllBackedStays DEF SourcesOK, AllBacked
      <3>2. CASE loc'[w].mem.sources = meta.sources
        BY <3>2, AllBackedStays DEF SourcesOK, AllBacked
      <3>3. CASE loc'[w].mem.sources = <<>>
        BY <3>3, EmptySeq DEF AllBacked, Indices
      <3> QED BY <2>2, <3>1, <3>2, <3>3, MemAfter
    <2> QED BY <2>1, <2>2
  <1>2. ASSUME NEW v \in Worker, v # w PROVE AllBacked(loc[v].mem)'
    <2>1. loc'[v] = loc[v] BY <1>2, OthersStay
    <2> QED BY <2>1, AllBackedStays DEF SourcesOK, AllBacked
  <1>3. AllBacked(meta)'
    <2>1. meta' = meta \/ meta' = loc[w].mem
      <3>1. CASE Truncate(w) BY <3>1 DEF Truncate
      <3>2. CASE Write(w) BY <3>2 DEF Write
      <3> QED BY <3>1, <3>2, OnlySavesMeta DEF SavesMeta
    <2> QED BY <2>1, AllBackedStays DEF SourcesOK, AllBacked
  <1> QED BY <1>1, <1>2, <1>3 DEF SourcesOK

LEMMA KeptInit == Init => KeptInv
  <1> SUFFICES ASSUME Init PROVE KeptInv OBVIOUS
  <1>1. TypeOK /\ WorkersOK BY DerivedInit DEF DerivedInv
  <1>2. PathOK BY DEF Init, PathOK
  <1>3. \A w \in Worker : pc[w] = "idle" /\ Indices(loc[w].mem.sources) = {}
    BY NothingRecorded DEF Init, NoLocal
  <1>4. TablesOK /\ AllBacked(meta)
    <2>1. CASE NoCase
      BY <1>3, <2>1, NothingRecorded DEF NoCase, TablesOK, AllBacked
    <2>2. ASSUME NEW b \in Batch, NEW layout \in OldLayouts, EarlierCase(b, layout)
          PROVE  TablesOK /\ AllBacked(meta)
      <3> DEFINE file == EarlierFile(b, layout)
      <3>1. cur = 1 /\ db[cur] = file
        BY <2>2, BoundAssumption DEF EarlierCase, File
      <3>2. TablesOK BY <1>3, <3>1 DEF TablesOK, TablesThere, EarlierFile, Table
      <3>3. SizeOf[b] \in Nat BY BatchAssumption
      <3>4. Len(file.raw) = SizeOf[b] BY <3>3, LenProperties DEF EarlierFile
      <3>5. \A i \in 1..SizeOf[b] : file.raw[i].rec = [batch |-> b, pos |-> i]
        BY DEF EarlierFile, RecsOf
      <3>6. Backed(b) BY <3>1, <3>4, <3>5 DEF Backed, AllStored, Stored, Indices
      <3>7. meta.sources = <<b>> BY <2>2 DEF EarlierCase, NewMeta
      <3>8. \A i \in Indices(meta.sources) : meta.sources[i] = b BY <3>7 DEF Indices
      <3> QED BY <3>2, <3>6, <3>8 DEF AllBacked
    <2> QED BY <2>1, <2>2 DEF Init
  <1>5. SourcesOK BY <1>3, <1>4 DEF SourcesOK, AllBacked
  <1> QED BY <1>1, <1>2, <1>4, <1>5 DEF KeptInv

LEMMA KeptNext == Deletes = FALSE /\ KeptInv /\ [Next]_vars => KeptInv'
  <1> SUFFICES ASSUME Deletes = FALSE, KeptInv, [Next]_vars PROVE KeptInv' OBVIOUS
  <1>1. CASE UNCHANGED vars
    <2> USE <1>1 DEF KeptInv, vars, metaVars, dbVars
    <2>1. TypeOK' BY StutterType
    <2>2. WorkersOK'
      BY DEF WorkersOK, HandleOK, AppendOK, RecsOK, InSection
    <2>3. PathOK' BY DEF PathOK
    <2>4. TablesOK' BY DEF TablesOK, TablesThere
    <2>5. SourcesOK' BY DEF SourcesOK, AllBacked, Backed
    <2> QED BY <2>1, <2>2, <2>3, <2>4, <2>5
  <1>2. ASSUME NEW w \in Worker, Step(w) PROVE KeptInv'
    BY <1>2, StepType, WorkersStep, PathStep, TablesStep, SourcesStep DEF KeptInv
  <1> QED BY <1>1, <1>2 DEF Next

\* A case that is never deleted: whatever fails or interleaves, every source
\* case.json records, and append() therefore refuses to take again, has all its
\* records in raw_records.  No evidence is refused that is not there.
THEOREM SourcesAlwaysBacked == Deletes = FALSE => (Spec => []SourceBacked)
  <1>1. KeptInv => SourceBacked
    BY DEF KeptInv, SourcesOK, AllBacked, Backed, SourceBacked
  <1>2. SUFFICES ASSUME Deletes = FALSE PROVE Spec => []SourceBacked OBVIOUS
  <1>3. KeptInv /\ [Next]_vars => KeptInv' BY <1>2, KeptNext
  <1> QED BY <1>1, <1>3, KeptInit, PTL DEF Spec

\* And a case that can be read can be rebuilt: its raw_records table is there.
THEOREM AlwaysRebuildable == Deletes = FALSE => (Spec => []Rebuildable)
  <1>1. KeptInv => Rebuildable
    BY DEF KeptInv, TablesOK, TablesThere, Rebuildable, Readable
  <1>2. SUFFICES ASSUME Deletes = FALSE PROVE Spec => []Rebuildable OBVIOUS
  <1>3. KeptInv /\ [Next]_vars => KeptInv' BY <1>2, KeptNext
  <1> QED BY <1>1, <1>3, KeptInit, PTL DEF Spec

-----------------------------------------------------------------------------
(* The rows of events: their ids and their stamps                           *)

\* One thread of control in each process: the GUI serving one request, CLI runs.
OnePerProcess == \A v, w \in Worker : ProcessOf[v] = ProcessOf[w] => v = w

\* A connection is open in the database sections only, and to a file that was made.
HandlesOK ==
    /\ cur <= made
    /\ \A w \in Worker : handle[w] <= made /\ (handle[w] # 0 => InSection(w))

\* DuckDB's lock: no two workers have one file open.
Exclusive == \A v, w \in Worker : v # w /\ handle[v] # 0 => handle[v] # handle[w]

Below(n, rows) == \A i \in Indices(rows) : rows[i].id < n

\* Where an inserting worker is with its ids: what is in the table is below
\* the next id it gives.
IdsOK(w) ==
    LET rows == db[handle[w]].events IN
    /\ pc[w] = "append_raw" => Below(loc[w].start, rows)
    /\ pc[w] = "insert" => Below(loc[w].start + loc[w].done, rows)
    /\ pc[w] \in {"rebuild_drop", "rebuild_create"} => loc[w].start = 0 /\ loc[w].done = 0
    /\ pc[w] = "rebuild_create" => rows = <<>>

IdsInv ==
    /\ TypeOK /\ WorkersOK /\ HandlesOK /\ Exclusive
    /\ \A w \in Worker : IdsOK(w)
    /\ EventIdsUnique

\* Only three statements change the rows of events, in the worker's own file.
EventsWrites(w) == InsertRecords(w) \/ StampTimes(w) \/ RebuildDrop(w)

LEMMA EventsElsewhere ==
    ASSUME TypeOK, NEW w \in Worker, Step(w), NEW f \in File,
           f # handle[w] \/ ~EventsWrites(w)
    PROVE  db'[f].events = db[f].events
  <1> USE DEF TypeOK, DbTypeOK, DbFile
  <1>1. CASE ~DbWrites(w) BY <1>1, OnlyDbWrites
  <1>2. CASE AppendRaw(w) BY <1>2 DEF AppendRaw
  <1>3. CASE CreateTables(w)
    <2>1. PICK g \in File :
            db' = [db EXCEPT ![g] = [db[g] EXCEPT
                      !.tables = Table, !.layout = LayoutUsed(w, g)]]
      BY <1>3 DEF CreateTables
    <2> QED BY <2>1
  <1>4. CASE RebuildCreate(w) BY <1>4 DEF RebuildCreate
  <1>5. CASE InsertRecords(w) BY <1>5 DEF InsertRecords, EventsWrites
  <1>6. CASE StampTimes(w) BY <1>6 DEF StampTimes, EventsWrites
  <1>7. CASE RebuildDrop(w) BY <1>7 DEF RebuildDrop, EventsWrites
  <1> QED BY <1>1, <1>2, <1>3, <1>4, <1>5, <1>6, <1>7 DEF DbWrites

\* What INSERT, UPDATE and DROP leave in the file.
LEMMA EventsInserted ==
    ASSUME TypeOK, NEW w \in Worker, InsertRecords(w)
    PROVE  \E k \in 1..(Len(loc[w].recs) - loc[w].done) :
             /\ k \in Nat /\ loc[w].done + k <= Len(loc[w].recs)
             /\ handle[w] \in File
             /\ db[handle[w]].events \in Seq(EventRow)
             /\ EventRows(w, k) \in Seq(EventRow) /\ Len(EventRows(w, k)) = k
             /\ db'[handle[w]] = [db[handle[w]] EXCEPT !.events = @ \o EventRows(w, k)]
             /\ handle'[w] = handle[w]
             /\ loc'[w] = [loc[w] EXCEPT !.done = @ + k]
             /\ pc'[w] = IF loc[w].done + k = Len(loc[w].recs) THEN "stamp" ELSE "insert"
  <1>1. PICK k \in 1..(Len(loc[w].recs) - loc[w].done) :
          /\ db' = [db EXCEPT ![handle[w]].events = @ \o EventRows(w, k)]
          /\ loc' = [loc EXCEPT ![w].done = @ + k]
          /\ IF loc[w].done + k = Len(loc[w].recs) THEN Goto(w, "stamp") ELSE UNCHANGED pc
    BY DEF InsertRecords
  <1>2. Len(loc[w].recs) \in Nat /\ loc[w].done \in Nat BY LocalType
  <1>3. k \in Nat /\ loc[w].done + k <= Len(loc[w].recs) BY <1>2
  <1>4. handle[w] \in File /\ db[handle[w]] \in DbFile BY InDbType DEF InsertRecords
  <1>5. EventRows(w, k) \in Seq(EventRow) /\ Len(EventRows(w, k)) = k BY <1>3, EventRowsType
  <1>6. pc[w] = "insert" /\ handle'[w] = handle[w] BY DEF InsertRecords, InDb
  <1>7. pc'[w] = IF loc[w].done + k = Len(loc[w].recs) THEN "stamp" ELSE "insert"
    BY <1>1, <1>6 DEF Goto, TypeOK, WorkerTypeOK
  <1>8. loc'[w] = [loc[w] EXCEPT !.done = @ + k] BY <1>1 DEF TypeOK, WorkerTypeOK
  <1>9. db'[handle[w]] = [db[handle[w]] EXCEPT !.events = @ \o EventRows(w, k)]
    BY <1>1, <1>4 DEF TypeOK, DbTypeOK
  <1> QED BY <1>3, <1>4, <1>5, <1>6, <1>7, <1>8, <1>9 DEF DbFile

LEMMA EventsStamped ==
    ASSUME TypeOK, NEW w \in Worker, StampTimes(w)
    PROVE  /\ handle[w] \in File
           /\ db[handle[w]].events \in Seq(EventRow)
           /\ db'[handle[w]] = [db[handle[w]] EXCEPT !.events = Stamped(@, loc[w].start)]
           /\ Len(db'[handle[w]].events) = Len(db[handle[w]].events)
           /\ \A i \in Indices(db[handle[w]].events) :
                /\ db'[handle[w]].events[i].id = db[handle[w]].events[i].id
                /\ db'[handle[w]].events[i].rec = db[handle[w]].events[i].rec
                /\ db'[handle[w]].events[i].timed
                     = (db[handle[w]].events[i].timed \/ db[handle[w]].events[i].id >= loc[w].start)
           /\ pc'[w] = IF loc[w].op = "append" THEN "append_count" ELSE "rebuild_close"
  <1> DEFINE rows == db[handle[w]].events
  <1>1. handle[w] \in File /\ db[handle[w]] \in DbFile BY InDbType DEF StampTimes
  <1>2. rows \in Seq(EventRow) BY <1>1 DEF DbFile
  <1>3. db'[handle[w]] = [db[handle[w]] EXCEPT !.events = Stamped(@, loc[w].start)]
    BY <1>1 DEF StampTimes, TypeOK, DbTypeOK
  <1>4. db'[handle[w]].events = Stamped(rows, loc[w].start) BY <1>1, <1>3 DEF DbFile
  <1>5. loc[w].start \in Nat BY LocalType
  <1>6. Len(Stamped(rows, loc[w].start)) = Len(rows) BY <1>2, <1>5, StampedType
  <1>7. ASSUME NEW i \in Indices(rows)
        PROVE  /\ Stamped(rows, loc[w].start)[i].id = rows[i].id
               /\ Stamped(rows, loc[w].start)[i].rec = rows[i].rec
               /\ Stamped(rows, loc[w].start)[i].timed = (rows[i].timed \/ rows[i].id >= loc[w].start)
    <2>1. rows[i] \in EventRow BY <1>2, ElementOfSeq DEF Indices
    <2>2. Stamped(rows, loc[w].start)[i]
            = [rows[i] EXCEPT !.timed = @ \/ rows[i].id >= loc[w].start]
      BY DEF Stamped, Indices
    <2>3. rows[i] = [id |-> rows[i].id, rec |-> rows[i].rec, timed |-> rows[i].timed]
      BY <2>1 DEF EventRow
    <2> QED BY <2>2, <2>3
  <1>8. pc'[w] = IF loc[w].op = "append" THEN "append_count" ELSE "rebuild_close"
    BY DEF StampTimes, InDb, Goto, TypeOK, WorkerTypeOK
  <1> HIDE DEF rows
  <1> QED BY <1>1, <1>2, <1>3, <1>4, <1>6, <1>7, <1>8 DEF rows

LEMMA EventsDropped ==
    ASSUME TypeOK, NEW w \in Worker, RebuildDrop(w)
    PROVE  /\ handle[w] \in File
           /\ db'[handle[w]].events = <<>>
           /\ db'[handle[w]].tables = db[handle[w]].tables \ {"events"}
           /\ pc'[w] = "rebuild_create" /\ loc' = loc /\ handle' = handle
  <1>1. handle[w] \in File BY InDbType DEF RebuildDrop
  <1> QED BY <1>1 DEF RebuildDrop, Goto, TypeOK, DbTypeOK, DbFile, WorkerTypeOK, InDb

-----------------------------------------------------------------------------
(* Connections                                                              *)

\* What becomes of the connection of the worker that steps.
LEMMA HandleMoves ==
    ASSUME TypeOK, HandlesOK, NEW w \in Worker, Step(w)
    PROVE  /\ \/ handle'[w] = 0
              \/ handle'[w] = handle[w] /\ InSection(w)'
              \/ handle[w] = 0 /\ InSection(w)' /\ \E f \in File : Open(w, f) /\ handle'[w] = f
           /\ \/ cur' \in {0, cur} /\ made' = made
              \/ \E f \in File : Open(w, f)
  <1> USE DEF TypeOK, WorkerTypeOK, Goto, Return, Begin, HandlesOK, InSection
  <1>1. CASE Create(w) \/ Connect(w)
             \/ \E b \in Batch, force \in {FALSE, ForceAllowed} : AppendRecords(w, b, force)
    BY <1>1 DEF Create, Connect, AppendRecords, dbVars
  <1>2. CASE CreateTables(w)
    BY <1>2 DEF CreateTables
  <1>3. CASE AppendOpen(w) \/ RebuildOpen(w) \/ AnalyzeOpen(w)
    BY <1>3 DEF AppendOpen, RebuildOpen, AnalyzeOpen, OpenDb
  <1>4. CASE AppendStart(w) \/ AppendRaw(w) \/ AppendCount(w) \/ InsertRecords(w) \/ StampTimes(w)
    BY <1>4 DEF AppendStart, RawFirst, AppendRaw, AppendCount, InsertRecords, StampTimes, InDb
  <1>5. CASE RebuildRead(w) \/ RebuildDrop(w) \/ RebuildCreate(w) \/ RebuildClose(w)
    BY <1>5 DEF RebuildRead, RebuildDrop, RebuildCreate, RebuildClose, InDb
  <1>6. CASE RebuildLoad(w) \/ AnalyzeRead(w) \/ DigestLoad(w)
    BY <1>6 DEF RebuildLoad, AnalyzeRead, DigestLoad, InDb, dbVars
  <1>7. CASE (\E text \in Text : Note(w, text)) \/ (\E ips \in IpList : SetInfrastructureIps(w, ips))
    BY <1>7 DEF Note, SetInfrastructureIps, Edit, dbVars
  <1>8. CASE Truncate(w) \/ Write(w)
    BY <1>8 DEF Truncate, Write, dbVars
  <1>9. CASE Delete(w) \/ Unlink(w) \/ RmDir(w)
    BY <1>9 DEF Delete, Unlink, RmDir, dbVars
  <1>10. CASE OpenRefused(w) \/ DbError(w) \/ Fail(w)
    BY <1>10 DEF OpenRefused, DbError, Fail, dbVars
  <1> QED
    BY <1>1, <1>2, <1>3, <1>4, <1>5, <1>6, <1>7, <1>8, <1>9, <1>10 DEF Step

\* An opened file is one that was made.
LEMMA OpenMade ==
    ASSUME TypeOK, HandlesOK, NEW w \in Worker, NEW f \in File, Open(w, f)
    PROVE  f <= made' /\ cur' <= made' /\ made <= made'
  <1>1. \A v \in Worker : handle[v] \in Nat /\ handle[v] <= made
    BY DEF HandlesOK, TypeOK, WorkerTypeOK
  <1>2. cur \in Nat /\ made \in Nat /\ cur <= made BY DEF HandlesOK, TypeOK, DbTypeOK
  <1>3. CASE f \in Shared(w) /\ UNCHANGED <<cur, made>>
    BY <1>1, <1>2, <1>3 DEF Shared
  <1>4. CASE f = cur /\ UNCHANGED <<cur, made>> BY <1>2, <1>4
  <1>5. CASE f = made + 1 /\ cur' = f /\ made' = f BY <1>2, <1>5
  <1> QED BY <1>3, <1>4, <1>5 DEF Open

LEMMA HandlesStep ==
    ASSUME TypeOK, HandlesOK, NEW w \in Worker, Step(w)
    PROVE  HandlesOK'
  <1>1. cur \in Nat /\ made \in Nat /\ \A v \in Worker : handle[v] \in Nat
    BY DEF TypeOK, DbTypeOK, WorkerTypeOK
  <1>2. cur' <= made' /\ made <= made' /\ made' \in Nat
    <2>1. CASE cur' \in {0, cur} /\ made' = made BY <1>1, <2>1 DEF HandlesOK
    <2>2. CASE \E f \in File : Open(w, f)
      BY <2>2, OpenMade, OpenType DEF TypeOK
    <2> QED BY <2>1, <2>2, HandleMoves
  <1>3. handle'[w] <= made' /\ (handle'[w] # 0 => InSection(w)')
    <2>1. CASE handle'[w] = 0 BY <1>2, <2>1
    <2>2. CASE handle'[w] = handle[w] /\ InSection(w)' BY <1>1, <1>2, <2>2 DEF HandlesOK
    <2>3. CASE InSection(w)' /\ \E f \in File : Open(w, f) /\ handle'[w] = f
      BY <2>3, OpenMade
    <2> QED BY <2>1, <2>2, <2>3, HandleMoves
  <1>4. ASSUME NEW v \in Worker, v # w
        PROVE  handle'[v] <= made' /\ (handle'[v] # 0 => InSection(v)')
    <2>1. pc'[v] = pc[v] /\ handle'[v] = handle[v] BY <1>4, OthersStay
    <2> QED BY <1>1, <1>2, <2>1 DEF HandlesOK, InSection
  <1> QED BY <1>2, <1>3, <1>4 DEF HandlesOK

\* Nobody else has the file a worker opens: its process has no other thread,
\* and another process would hold the lock.
LEMMA OpenedAlone ==
    ASSUME OnePerProcess, TypeOK, HandlesOK, NEW w \in Worker, handle[w] = 0,
           NEW f \in File, Open(w, f), NEW v \in Worker, v # w
    PROVE  handle[v] # f
  <1>1. Shared(w) = {} BY DEF Shared, OnePerProcess
  <1>2. handle[v] \in Nat /\ handle[v] <= made /\ made \in Nat
    BY DEF HandlesOK, TypeOK, WorkerTypeOK, DbTypeOK
  <1>3. CASE f = cur /\ ~Locked(w) BY <1>3 DEF Locked, OnePerProcess
  <1>4. CASE f = made + 1 BY <1>2, <1>4
  <1> QED BY <1>1, <1>3, <1>4 DEF Open

LEMMA ExclusiveStep ==
    ASSUME OnePerProcess, TypeOK, HandlesOK, Exclusive, NEW w \in Worker, Step(w)
    PROVE  Exclusive'
  <1>1. \A v \in Worker : v # w => handle'[v] = handle[v] BY OthersStay
  <1>2. ASSUME NEW v \in Worker, v # w, handle'[w] # 0 PROVE handle'[v] # handle'[w]
    <2>1. CASE handle'[w] = handle[w] BY <1>1, <1>2, <2>1 DEF Exclusive
    <2>2. CASE handle[w] = 0 /\ \E f \in File : Open(w, f) /\ handle'[w] = f
      BY <1>1, <1>2, <2>2, OpenedAlone
    <2> QED BY <1>2, <2>1, <2>2, HandleMoves
  <1>3. ASSUME NEW u \in Worker, NEW v \in Worker, u # v, handle'[u] # 0
        PROVE  handle'[u] # handle'[v]
    <2>1. CASE u = w BY <1>2, <1>3, <2>1
    <2>2. CASE v = w
      <3>1. CASE handle'[w] = 0 BY <1>3, <2>2, <3>1
      <3>2. CASE handle'[w] # 0 BY <1>2, <1>3, <2>2, <3>2
      <3> QED BY <3>1, <3>2
    <2>3. CASE u # w /\ v # w BY <1>1, <1>3, <2>3 DEF Exclusive
    <2> QED BY <2>1, <2>2, <2>3
  <1> QED BY <1>3 DEF Exclusive

-----------------------------------------------------------------------------
(* Ids                                                                      *)

\* The rows an INSERT adds are numbered on from start + done.
LEMMA NewIds ==
    ASSUME TypeOK, NEW w \in Worker, NEW k \in Nat, NEW i \in 1..k,
           loc[w].done + k <= Len(loc[w].recs)
    PROVE  /\ EventRows(w, k)[i].id = loc[w].start + (loc[w].done + i) - 1
           /\ EventRows(w, k)[i].id \in Nat
           /\ EventRows(w, k)[i].timed = FALSE
  BY NthRecord DEF EventRows

LEMMA InsertIds ==
    ASSUME TypeOK, NEW w \in Worker, InsertRecords(w), IdsOK(w),
           \A i, j \in Indices(db[handle[w]].events) :
               i # j => db[handle[w]].events[i].id # db[handle[w]].events[j].id
    PROVE  /\ \A i, j \in Indices(db'[handle[w]].events) :
                 i # j => db'[handle[w]].events[i].id # db'[handle[w]].events[j].id
           /\ IdsOK(w)'
  <1>1. PICK k \in 1..(Len(loc[w].recs) - loc[w].done) :
             /\ k \in Nat /\ loc[w].done + k <= Len(loc[w].recs)
             /\ handle[w] \in File
             /\ db[handle[w]].events \in Seq(EventRow)
             /\ EventRows(w, k) \in Seq(EventRow) /\ Len(EventRows(w, k)) = k
             /\ db'[handle[w]] = [db[handle[w]] EXCEPT !.events = @ \o EventRows(w, k)]
             /\ handle'[w] = handle[w]
             /\ loc'[w] = [loc[w] EXCEPT !.done = @ + k]
             /\ pc'[w] = IF loc[w].done + k = Len(loc[w].recs) THEN "stamp" ELSE "insert"
    BY EventsInserted
  <1> DEFINE old == db[handle[w]].events
             more == EventRows(w, k)
             new == old \o more
             next == loc[w].start + loc[w].done
  <1>2. db'[handle[w]].events = new BY <1>1 DEF TypeOK, DbTypeOK, DbFile
  <1>3. loc[w].start \in Nat /\ loc[w].done \in Nat BY LocalType
  <1>4. pc[w] = "insert" BY DEF InsertRecords, InDb
  <1>5. Below(next, old) BY <1>4 DEF IdsOK
  <1>6. Len(old) \in Nat /\ Len(new) = Len(old) + k BY <1>1, ConcatProperties, LenProperties
  <1>7. ASSUME NEW i \in Indices(new)
        PROVE  /\ i <= Len(old) => i \in Indices(old) /\ new[i].id = old[i].id
                                  /\ new[i].id \in Nat /\ new[i].id < next
               /\ i > Len(old) => new[i].id = next + (i - Len(old)) - 1
    <2>1. i \in 1..(Len(old) + k) BY <1>6 DEF Indices
    <2>2. CASE i <= Len(old)
      <3>1. i \in Indices(old) BY <1>6, <2>1, <2>2 DEF Indices
      <3>2. new[i] = old[i] BY <1>1, <2>1, <2>2, <1>6, ConcatProperties
      <3>3. old[i] \in EventRow BY <1>1, <3>1, ElementOfSeq DEF Indices
      <3> QED BY <1>5, <1>6, <2>1, <2>2, <3>1, <3>2, <3>3 DEF Below, EventRow
    <2>3. CASE i > Len(old)
      <3>1. k \in Nat /\ loc[w].done + k <= Len(loc[w].recs) BY <1>1
      <3>2. new[i] = more[i - Len(old)] BY <1>1, <1>6, <2>1, <2>3, ConcatProperties
      <3>3. ASSUME NEW m \in 1..k PROVE more[m].id = loc[w].start + (loc[w].done + m) - 1
        BY <3>1, <3>3, NewIds
      <3> HIDE DEF old, more, new, next
      <3>4. i - Len(old) \in 1..k BY <1>6, <2>1, <2>3, <3>1
      <3>5. new[i].id = loc[w].start + (loc[w].done + (i - Len(old))) - 1
        BY <3>2, <3>3, <3>4
      <3>6. loc[w].start + (loc[w].done + (i - Len(old))) - 1 = next + (i - Len(old)) - 1
        BY <1>3, <3>1, <3>4 DEF next
      <3> QED BY <1>6, <2>1, <2>3, <3>5, <3>6
    <2> QED BY <1>6, <2>1, <2>2, <2>3
  <1> HIDE DEF old, more, new
  <1>8. Indices(new) = 1..(Len(old) + k) BY <1>6 DEF Indices
  <1>9. next \in Nat BY <1>3
  <1> HIDE DEF next
  <1>10. ASSUME NEW i \in Indices(new), NEW j \in Indices(new), i # j
         PROVE  new[i].id # new[j].id
    <2>1. CASE i <= Len(old) /\ j <= Len(old)
      BY <1>7, <1>10, <2>1 DEF old
    <2>2. CASE i <= Len(old) /\ j > Len(old)
      BY <1>6, <1>7, <1>8, <1>9, <2>2
    <2>3. CASE i > Len(old) /\ j <= Len(old)
      BY <1>6, <1>7, <1>8, <1>9, <2>3
    <2>4. CASE i > Len(old) /\ j > Len(old)
      BY <1>6, <1>7, <1>8, <1>9, <1>10, <2>4
    <2> QED BY <1>6, <1>8, <2>1, <2>2, <2>3, <2>4
  <1>11. Below(next + k, new)
    <2> SUFFICES ASSUME NEW i \in Indices(new) PROVE new[i].id < next + k BY DEF Below
    <2>1. CASE i <= Len(old) BY <1>1, <1>7, <1>9, <2>1
    <2>2. CASE i > Len(old) BY <1>1, <1>6, <1>7, <1>8, <1>9, <2>2
    <2> QED BY <1>6, <1>8, <2>1, <2>2
  <1>12. loc'[w].start + loc'[w].done = next + k
    <2>1. loc'[w].start = loc[w].start /\ loc'[w].done = loc[w].done + k
      BY <1>1, LocalType DEF Local
    <2> QED BY <1>1, <1>3, <2>1 DEF next
  <1>13. IdsOK(w)' BY <1>1, <1>2, <1>11, <1>12 DEF IdsOK
  <1> QED BY <1>2, <1>10, <1>13

\* Every other step of a worker leaves it below its next id.
LEMMA OwnIds ==
    ASSUME TypeOK, WorkersOK, HandlesOK, NEW w \in Worker, Step(w), IdsOK(w), ~InsertRecords(w)
    PROVE  IdsOK(w)'
  <1> USE DEF TypeOK, WorkerTypeOK, Goto
  <1>1. CASE AppendStart(w)
    <2>1. PICK n \in 0..MaxRowId :
            IsNextId(n, db[handle[w]].events) /\ loc' = [loc EXCEPT ![w].start = n]
      BY <1>1 DEF AppendStart
    <2>2. db' = db /\ handle' = handle /\ pc'[w] \in {"append_count", "append_raw"}
      BY <1>1 DEF AppendStart, RawFirst, InDb
    <2>3. loc'[w].start = n BY <2>1 DEF Local
    <2> QED BY <2>1, <2>2, <2>3 DEF IdsOK, IsNextId, Below, Indices
  <1>2. CASE AppendRaw(w)
    <2>1. pc[w] = "append_raw" /\ handle[w] \in File /\ handle' = handle
      BY <1>2, InDbType DEF AppendRaw, InDb
    <2>2. db'[handle[w]].events = db[handle[w]].events
      BY <1>2, <2>1, EventsElsewhere DEF EventsWrites, InsertRecords, StampTimes, RebuildDrop, InDb
    <2>3. loc[w].start \in Nat BY LocalType
    <2>4. loc'[w].start = loc[w].start /\ pc'[w] \in {"append_raw", "insert"}
          /\ (pc'[w] = "insert" => loc'[w].done = 0)
      <3>1. PICK k \in 1..(Len(loc[w].recs) - loc[w].done) :
              IF loc[w].done + k = Len(loc[w].recs)
              THEN loc' = [loc EXCEPT ![w].done = 0] /\ Goto(w, "insert")
              ELSE loc' = [loc EXCEPT ![w].done = @ + k] /\ UNCHANGED pc
        BY <1>2 DEF AppendRaw
      <3> QED BY <2>1, <3>1 DEF Local
    <2> QED BY <2>1, <2>2, <2>3, <2>4 DEF IdsOK, Below
  <1>3. CASE RebuildRead(w)
    <2>1. pc'[w] = "rebuild_drop" /\ loc'[w].start = 0 /\ loc'[w].done = 0
      BY <1>3 DEF RebuildRead, Local
    <2> QED BY <2>1 DEF IdsOK
  <1>4. CASE RebuildDrop(w)
    <2>1. pc[w] = "rebuild_drop" BY <1>4 DEF RebuildDrop, InDb
    <2> QED BY <1>4, <2>1, EventsDropped DEF IdsOK
  <1>5. CASE RebuildCreate(w)
    <2>1. pc[w] = "rebuild_create" /\ handle[w] \in File /\ handle' = handle /\ loc' = loc
          /\ pc'[w] \in {"rebuild_close", "insert"}
      BY <1>5, InDbType DEF RebuildCreate, InDb
    <2>2. db'[handle[w]].events = db[handle[w]].events
      BY <1>5, <2>1, EventsElsewhere DEF EventsWrites, InsertRecords, StampTimes, RebuildDrop, InDb
    <2> QED BY <2>1, <2>2, EmptySeq DEF IdsOK, Below, Indices
  <1>6. CASE ~(AppendStart(w) \/ AppendRaw(w) \/ RebuildRead(w) \/ RebuildDrop(w) \/ RebuildCreate(w))
    <2>1. pc'[w] \notin {"append_raw", "insert", "rebuild_drop", "rebuild_create"}
      <3> USE DEF Return
      <3>1. CASE Create(w) \/ CreateTables(w)
                 \/ \E b \in Batch, force \in {FALSE, ForceAllowed} : AppendRecords(w, b, force)
        BY <3>1 DEF Create, CreateTables, AppendRecords
      <3>2. CASE AppendOpen(w) \/ RebuildOpen(w) \/ AnalyzeOpen(w)
        BY <3>2 DEF AppendOpen, RebuildOpen, AnalyzeOpen, OpenDb
      <3>3. CASE AppendCount(w) \/ StampTimes(w) \/ RebuildClose(w) \/ AnalyzeRead(w)
        BY <3>3 DEF AppendCount, StampTimes, RebuildClose, AnalyzeRead
      <3>4. CASE Connect(w) \/ RebuildLoad(w) \/ DigestLoad(w) \/ Truncate(w) \/ Write(w)
        BY <3>4 DEF Connect, RebuildLoad, DigestLoad, Truncate, Write
      <3>5. CASE (\E text \in Text : Note(w, text)) \/ (\E ips \in IpList : SetInfrastructureIps(w, ips))
        BY <3>5 DEF Note, SetInfrastructureIps, Edit
      <3>6. CASE Delete(w) \/ Unlink(w) \/ RmDir(w) \/ OpenRefused(w) \/ DbError(w) \/ Fail(w)
        BY <3>6 DEF Delete, Unlink, RmDir, OpenRefused, DbError, Fail
      <3> QED BY <1>6, <3>1, <3>2, <3>3, <3>4, <3>5, <3>6 DEF Step
    <2> QED BY <2>1 DEF IdsOK
  <1> QED BY <1>1, <1>2, <1>3, <1>4, <1>5, <1>6

\* What another worker does happens in another file.
LEMMA OthersIds ==
    ASSUME TypeOK, WorkersOK, Exclusive, NEW w \in Worker, Step(w),
           NEW v \in Worker, v # w, IdsOK(v)
    PROVE  IdsOK(v)'
  <1>1. pc'[v] = pc[v] /\ handle'[v] = handle[v] /\ loc'[v] = loc[v] BY OthersStay
  <1>2. CASE InSection(v)
    <2>1. handle[v] \in File /\ handle[v] # 0 /\ handle[v] # handle[w]
      BY <1>2 DEF WorkersOK, HandleOK, Exclusive, File
    <2>2. db'[handle[v]].events = db[handle[v]].events BY <2>1, EventsElsewhere
    <2> QED BY <1>1, <2>2 DEF IdsOK, Below
  <1>3. CASE ~InSection(v) BY <1>1, <1>3 DEF IdsOK, InSection
  <1> QED BY <1>2, <1>3

LEMMA UniqueStep ==
    ASSUME TypeOK, NEW w \in Worker, Step(w), IdsOK(w), EventIdsUnique
    PROVE  EventIdsUnique'
  <1> SUFFICES ASSUME NEW f \in File,
                      NEW i \in Indices(db'[f].events), NEW j \in Indices(db'[f].events), i # j
               PROVE  db'[f].events[i].id # db'[f].events[j].id
    BY DEF EventIdsUnique
  <1>1. CASE f # handle[w] \/ ~EventsWrites(w)
    <2>1. db'[f].events = db[f].events BY <1>1, EventsElsewhere
    <2> QED BY <2>1 DEF EventIdsUnique
  <1>2. CASE f = handle[w] /\ InsertRecords(w) BY <1>2, InsertIds DEF EventIdsUnique
  <1>3. CASE f = handle[w] /\ StampTimes(w)
    <2>1. /\ Len(db'[f].events) = Len(db[f].events)
          /\ \A n \in Indices(db[f].events) : db'[f].events[n].id = db[f].events[n].id
      BY <1>3, EventsStamped
    <2>2. i \in Indices(db[f].events) /\ j \in Indices(db[f].events) BY <2>1 DEF Indices
    <2> QED BY <2>1, <2>2 DEF EventIdsUnique
  <1>4. CASE f = handle[w] /\ RebuildDrop(w) BY <1>4, EventsDropped, EmptySeq DEF Indices
  <1> QED BY <1>1, <1>2, <1>3, <1>4 DEF EventsWrites

LEMMA IdsInit == Init => IdsInv
  <1> SUFFICES ASSUME Init PROVE IdsInv OBVIOUS
  <1>1. TypeOK /\ WorkersOK BY DerivedInit DEF DerivedInv
  <1>2. Exclusive BY DEF Init, Exclusive
  <1>3. HandlesOK
    <2>1. cur \in Nat /\ made \in Nat BY <1>1 DEF TypeOK, DbTypeOK
    <2>2. cur = made BY DEF Init, NoCase, EarlierCase
    <2> QED BY <2>1, <2>2 DEF Init, HandlesOK
  <1>4. \A w \in Worker : IdsOK(w) BY DEF Init, IdsOK
  <1>5. EventIdsUnique
    <2>1. CASE NoCase BY <2>1, EmptySeq DEF NoCase, EventIdsUnique, EmptyFile, Indices
    <2>2. ASSUME NEW b \in Batch, NEW layout \in OldLayouts, EarlierCase(b, layout)
          PROVE  EventIdsUnique
      <3> DEFINE rows == EarlierFile(b, layout).events
      <3>1. SizeOf[b] \in Nat BY BatchAssumption
      <3>2. Len(rows) = SizeOf[b] BY <3>1, LenProperties DEF EarlierFile
      <3>3. \A i \in Indices(rows) : rows[i].id = i - 1 BY <3>2 DEF EarlierFile, Indices
      <3>4. \A i, j \in Indices(rows) : i # j => rows[i].id # rows[j].id
        BY <3>1, <3>2, <3>3 DEF Indices
      <3>5. \A f \in File : db[f].events = rows \/ db[f].events = <<>>
        BY <2>2 DEF EarlierCase, EmptyFile
      <3> QED BY <3>4, <3>5, EmptySeq DEF EventIdsUnique, Indices
    <2> QED BY <2>1, <2>2 DEF Init
  <1> QED BY <1>1, <1>2, <1>3, <1>4, <1>5 DEF IdsInv

LEMMA IdsNext == OnePerProcess /\ IdsInv /\ [Next]_vars => IdsInv'
  <1> SUFFICES ASSUME OnePerProcess, IdsInv, [Next]_vars PROVE IdsInv' OBVIOUS
  <1>1. CASE UNCHANGED vars
    <2> USE <1>1 DEF IdsInv, vars, dbVars
    <2>1. TypeOK' BY StutterType
    <2>2. WorkersOK' BY DEF WorkersOK, HandleOK, AppendOK, RecsOK, InSection
    <2>3. HandlesOK' /\ Exclusive' BY DEF HandlesOK, Exclusive, InSection
    <2>4. \A w \in Worker : IdsOK(w)' BY DEF IdsOK, Below
    <2>5. EventIdsUnique' BY DEF EventIdsUnique
    <2> QED BY <2>1, <2>2, <2>3, <2>4, <2>5
  <1>2. ASSUME NEW w \in Worker, Step(w) PROVE IdsInv'
    <2> USE <1>2 DEF IdsInv
    <2>1. TypeOK' /\ WorkersOK' BY StepType, WorkersStep
    <2>2. HandlesOK' /\ Exclusive' BY HandlesStep, ExclusiveStep
    <2>3. IdsOK(w)'
      <3>1. CASE InsertRecords(w) BY <3>1, InsertIds, EventsInserted DEF EventIdsUnique
      <3>2. CASE ~InsertRecords(w) BY <3>2, OwnIds
      <3> QED BY <3>1, <3>2
    <2>4. \A v \in Worker : IdsOK(v)' BY <2>3, OthersIds
    <2>5. EventIdsUnique' BY UniqueStep
    <2> QED BY <2>1, <2>2, <2>4, <2>5
  <1> QED BY <1>1, <1>2 DEF Next

\* With one thread per process, DuckDB's lock is enough: whatever appends,
\* rebuilds, crashes and deletions do, in however many processes, no two rows of
\* an events table get the same id (start = max(id) + 1, read in one
\* statement and used in later ones).
THEOREM IdsAlwaysUnique == OnePerProcess => (Spec => []EventIdsUnique)
  <1>1. SUFFICES ASSUME OnePerProcess PROVE Spec => []EventIdsUnique OBVIOUS
  <1>2. IdsInv /\ [Next]_vars => IdsInv' BY <1>1, IdsNext
  <1>3. IdsInv => EventIdsUnique BY DEF IdsInv
  <1> QED BY <1>2, <1>3, IdsInit, PTL DEF Spec

-----------------------------------------------------------------------------
(* Stamps: with no failure, every unstamped row has somebody to stamp it    *)

\* No table, no rows.
LaidOut == \A f \in File : "events" \notin db[f].tables => db[f].events = <<>>

\* The worker that is going to stamp the row, and whose INSERT will not be
\* refused on the way there.
Stamps(w, f, id) ==
    /\ handle[w] = f /\ pc[w] \in {"insert", "stamp"}
    /\ loc[w].start <= id
    /\ pc[w] = "insert" => Code(w) \subseteq db[f].layout

Unstamped ==
    faults = 0 =>
        \A f \in File : \A i \in Indices(db[f].events) :
            db[f].events[i].timed \/ \E w \in Worker : Stamps(w, f, db[f].events[i].id)

StampsInv == TypeOK /\ LaidOut /\ Unstamped

\* What CREATE TABLE and DROP TABLE do to a file; nothing else touches its
\* tables and its layout.
LEMMA TablesKept ==
    ASSUME TypeOK, NEW w \in Worker, Step(w), NEW f \in File, "events" \in db[f].tables,
           ~(RebuildDrop(w) /\ f = handle[w])
    PROVE  "events" \in db'[f].tables /\ db'[f].layout = db[f].layout
  <1> USE DEF TypeOK, DbTypeOK, DbFile
  <1>1. CASE ~DbWrites(w) BY <1>1, OnlyDbWrites
  <1>2. CASE AppendRaw(w) BY <1>2 DEF AppendRaw
  <1>3. CASE CreateTables(w)
    <2>1. PICK g \in File :
            db' = [db EXCEPT ![g] = [db[g] EXCEPT
                      !.tables = Table, !.layout = LayoutUsed(w, g)]]
      BY <1>3 DEF CreateTables
    <2>2. CASE g # f BY <2>1, <2>2
    <2>3. CASE g = f BY <2>1, <2>3 DEF LayoutUsed, Table
    <2> QED BY <2>2, <2>3
  <1>4. CASE RebuildCreate(w)
    <2>1. CASE handle[w] # f BY <1>4, <2>1 DEF RebuildCreate
    <2>2. CASE handle[w] = f BY <1>4, <2>2 DEF RebuildCreate, LayoutUsed
    <2> QED BY <2>1, <2>2
  <1>5. CASE InsertRecords(w) BY <1>5 DEF InsertRecords
  <1>6. CASE StampTimes(w) BY <1>6 DEF StampTimes
  <1>7. CASE RebuildDrop(w) BY <1>7 DEF RebuildDrop
  <1> QED BY <1>1, <1>2, <1>3, <1>4, <1>5, <1>6, <1>7 DEF DbWrites

LEMMA LaidOutStep ==
    ASSUME TypeOK, LaidOut, NEW w \in Worker, Step(w)
    PROVE  LaidOut'
  <1> SUFFICES ASSUME NEW f \in File, "events" \notin db'[f].tables
               PROVE  db'[f].events = <<>>
    BY DEF LaidOut
  <1>1. CASE RebuildDrop(w) /\ f = handle[w] BY <1>1, EventsDropped
  <1>2. CASE ~(RebuildDrop(w) /\ f = handle[w])
    <2>1. "events" \notin db[f].tables BY <1>2, TablesKept
    <2>2. f # handle[w] \/ ~EventsWrites(w)
      <3>1. ASSUME StampTimes(w) \/ InsertRecords(w), f = handle[w] PROVE FALSE
        BY <2>1, <3>1 DEF StampTimes, InsertRecords, InDb, Runs
      <3> QED BY <1>2, <3>1 DEF EventsWrites
    <2>3. db'[f].events = db[f].events BY <2>2, EventsElsewhere
    <2> QED BY <2>1, <2>3 DEF LaidOut
  <1> QED BY <1>1, <1>2

\* Between its INSERT and its UPDATE a worker does nothing else.
LEMMA InsertingSteps ==
    ASSUME NEW w \in Worker, Step(w), pc[w] \in {"insert", "stamp"}
    PROVE  InsertRecords(w) \/ StampTimes(w) \/ DbError(w) \/ Fail(w)
  BY DEF Step, Begin, InDb, OpenDb, Create, CreateTables, AppendRecords, AppendOpen, AppendStart,
         AppendRaw, AppendCount, Connect, RebuildOpen, RebuildRead, RebuildDrop, RebuildCreate,
         RebuildClose, RebuildLoad, AnalyzeOpen, AnalyzeRead, DigestLoad, Note,
         SetInfrastructureIps, Edit, Truncate, Write, Delete, Unlink, RmDir, OpenRefused

\* Who was going to stamp a row of a table that stays still will, unless this
\* is the moment.
LEMMA StampsStay ==
    ASSUME TypeOK, NEW w \in Worker, Step(w), faults' = 0,
           NEW f \in File, "events" \in db[f].tables, ~(RebuildDrop(w) /\ f = handle[w]),
           NEW id, NEW v \in Worker, Stamps(v, f, id), ~(v = w /\ StampTimes(w))
    PROVE  Stamps(v, f, id)'
  <1>1. db'[f].layout = db[f].layout BY TablesKept
  <1>2. CASE v # w
    <2>1. pc'[v] = pc[v] /\ handle'[v] = handle[v] /\ loc'[v] = loc[v] BY <1>2, OthersStay
    <2> QED BY <1>1, <2>1 DEF Stamps, Code
  <1>3. CASE v = w
    <2>1. handle[w] = f /\ pc[w] \in {"insert", "stamp"} BY <1>3 DEF Stamps
    <2>2. ~DbError(w)
      BY <1>3, <2>1 DEF Stamps, DbError, Runs
    <2>3. ~Fail(w) BY DEF Fail, TypeOK, CounterTypeOK
    <2>4. InsertRecords(w) BY <1>3, <2>1, <2>2, <2>3, InsertingSteps
    <2>5. PICK k \in 1..(Len(loc[w].recs) - loc[w].done) :
             /\ handle'[w] = handle[w]
             /\ loc'[w] = [loc[w] EXCEPT !.done = @ + k]
             /\ pc'[w] = IF loc[w].done + k = Len(loc[w].recs) THEN "stamp" ELSE "insert"
      BY <2>4, EventsInserted
    <2>6. loc'[w].start = loc[w].start BY <2>5, LocalType DEF Local
    <2>7. pc[w] = "insert" BY <2>4 DEF InsertRecords, InDb
    <2> QED BY <1>1, <1>3, <2>5, <2>6, <2>7 DEF Stamps, Code
  <1> QED BY <1>2, <1>3

\* The rows an INSERT adds are the inserting worker's to stamp.
LEMMA InsertedStamps ==
    ASSUME TypeOK, NEW w \in Worker, Step(w), InsertRecords(w), faults' = 0, Unstamped, faults = 0,
           NEW f \in File, f = handle[w],
           NEW i \in Indices(db'[f].events), NEW id, id = db'[f].events[i].id
    PROVE  db'[f].events[i].timed \/ \E v \in Worker : Stamps(v, f, id)'
  <1> DEFINE old == db[f].events
  <1>1. PICK k \in 1..(Len(loc[w].recs) - loc[w].done) :
             /\ k \in Nat /\ loc[w].done + k <= Len(loc[w].recs)
             /\ handle[w] \in File
             /\ db[handle[w]].events \in Seq(EventRow)
             /\ EventRows(w, k) \in Seq(EventRow) /\ Len(EventRows(w, k)) = k
             /\ db'[handle[w]] = [db[handle[w]] EXCEPT !.events = @ \o EventRows(w, k)]
             /\ handle'[w] = handle[w]
             /\ loc'[w] = [loc[w] EXCEPT !.done = @ + k]
             /\ pc'[w] = IF loc[w].done + k = Len(loc[w].recs) THEN "stamp" ELSE "insert"
    BY EventsInserted
  <1> DEFINE more == EventRows(w, k)
             new == old \o more
  <1>2. db'[f].events = new /\ db'[f].layout = db[f].layout
    BY <1>1 DEF TypeOK, DbTypeOK, DbFile
  <1>3. "events" \in db[f].tables /\ Code(w) \subseteq db[f].layout /\ pc[w] = "insert"
    BY DEF InsertRecords, InDb, Runs
  <1>4. Len(old) \in Nat /\ Len(new) = Len(old) + k BY <1>1, ConcatProperties, LenProperties
  <1>5. k \in Nat /\ loc[w].done + k <= Len(loc[w].recs) BY <1>1
  <1>6. ~StampTimes(w) /\ ~RebuildDrop(w) BY <1>3 DEF StampTimes, RebuildDrop, InDb
  <1>7. i \in 1..(Len(old) + k) BY <1>2, <1>4 DEF Indices
  <1>8. CASE i <= Len(old)
    <2>1. i \in Indices(old) BY <1>4, <1>7, <1>8 DEF Indices
    <2>2. db'[f].events[i] = old[i] BY <1>1, <1>2, <1>4, <1>7, <1>8, ConcatProperties
    <2>3. CASE old[i].timed BY <2>2, <2>3
    <2>4. ASSUME NEW v \in Worker, Stamps(v, f, old[i].id) PROVE Stamps(v, f, id)'
      BY <1>3, <1>6, <2>2, <2>4, StampsStay
    <2> QED BY <2>1, <2>3, <2>4 DEF Unstamped
  <1>9. CASE i > Len(old)
    <2>1. db'[f].events[i] = more[i - Len(old)]
      BY <1>1, <1>2, <1>4, <1>7, <1>9, ConcatProperties
    <2>2. ASSUME NEW m \in 1..k PROVE loc[w].start <= more[m].id
      <3>1. more[m].id = loc[w].start + (loc[w].done + m) - 1 BY <1>5, <2>2, NewIds
      <3>2. loc[w].start \in Nat /\ loc[w].done \in Nat BY LocalType
      <3> HIDE DEF more
      <3> QED BY <1>5, <3>1, <3>2
    <2>3. i - Len(old) \in 1..k
      <3> HIDE DEF old
      <3> QED BY <1>4, <1>5, <1>7, <1>9
    <2>4. loc[w].start <= id BY <2>1, <2>2, <2>3
    <2>5. loc'[w].start = loc[w].start BY <1>1, LocalType DEF Local
    <2>6. pc'[w] \in {"insert", "stamp"} /\ handle'[w] = f BY <1>1
    <2>7. Stamps(w, f, id)' BY <1>2, <1>3, <2>4, <2>5, <2>6 DEF Stamps, Code
    <2> QED BY <2>7
  <1> HIDE DEF old
  <1> QED BY <1>4, <1>5, <1>7, <1>8, <1>9

LEMMA UnstampedStep ==
    ASSUME StampsInv, NEW w \in Worker, Step(w)
    PROVE  Unstamped'
  <1> SUFFICES ASSUME faults' = 0, NEW f \in File, NEW i \in Indices(db'[f].events),
                      NEW id, id = db'[f].events[i].id
               PROVE  db'[f].events[i].timed \/ \E v \in Worker : Stamps(v, f, id)'
    BY DEF Unstamped, Stamps
  <1>1. TypeOK /\ LaidOut /\ Unstamped BY DEF StampsInv
  <1>2. faults = 0
    <2>1. CASE Fail(w) BY <1>1, <2>1 DEF Fail, TypeOK, CounterTypeOK
    <2>2. CASE ~Fail(w)
      BY <2>2 DEF Step, Begin, InDb, OpenDb, Create, CreateTables, AppendRecords, AppendOpen,
         AppendStart, AppendRaw, AppendCount, InsertRecords, StampTimes, Connect, RebuildOpen,
         RebuildRead, RebuildDrop, RebuildCreate, RebuildClose, RebuildLoad, AnalyzeOpen,
         AnalyzeRead, DigestLoad, Note, SetInfrastructureIps, Edit, Truncate, Write, Delete,
         Unlink, RmDir, OpenRefused, DbError
    <2> QED BY <2>1, <2>2
  <1>3. CASE f # handle[w] \/ ~EventsWrites(w)
    <2>1. db'[f].events = db[f].events BY <1>1, <1>3, EventsElsewhere
    <2>2. i \in Indices(db[f].events) BY <2>1
    <2>3. "events" \in db[f].tables BY <1>1, <2>2, EmptySeq DEF LaidOut, Indices
    <2>4. ~(RebuildDrop(w) /\ f = handle[w]) BY <1>3 DEF EventsWrites
    <2>5. CASE db[f].events[i].timed BY <2>1, <2>5
    <2>6. ASSUME NEW v \in Worker, Stamps(v, f, db[f].events[i].id)
          PROVE  Stamps(v, f, id)'
      <3>1. ~(v = w /\ StampTimes(w)) BY <1>3, <2>6 DEF Stamps, EventsWrites
      <3> QED BY <1>1, <2>1, <2>3, <2>4, <2>6, <3>1, StampsStay
    <2> QED BY <1>1, <1>2, <2>2, <2>5, <2>6 DEF Unstamped
  <1>4. CASE f = handle[w] /\ InsertRecords(w) BY <1>1, <1>2, <1>4, InsertedStamps
  <1>5. CASE f = handle[w] /\ StampTimes(w)
    <2> DEFINE old == db[f].events
    <2>1. /\ Len(db'[f].events) = Len(old)
          /\ \A n \in Indices(old) :
               /\ db'[f].events[n].id = old[n].id
               /\ db'[f].events[n].timed = (old[n].timed \/ old[n].id >= loc[w].start)
      BY <1>1, <1>5, EventsStamped
    <2>2. i \in Indices(old) BY <2>1 DEF Indices
    <2>3. "events" \in db[f].tables /\ pc[w] = "stamp" BY <1>5 DEF StampTimes, InDb, Runs
    <2>4. ~RebuildDrop(w) BY <2>3 DEF RebuildDrop, InDb
    <2>5. CASE old[i].timed BY <2>1, <2>2, <2>5
    <2>6. ASSUME NEW v \in Worker, Stamps(v, f, old[i].id), v # w
          PROVE  Stamps(v, f, id)'
      <3>1. id = old[i].id BY <2>1, <2>2
      <3> QED BY <1>1, <2>3, <2>4, <2>6, <3>1, StampsStay
    <2>7. ASSUME Stamps(w, f, old[i].id) PROVE db'[f].events[i].timed
      <3>1. loc[w].start <= old[i].id BY <2>7 DEF Stamps
      <3>2. old[i].id >= loc[w].start BY <3>1
      <3> QED BY <2>1, <2>2, <3>2
    <2> QED BY <1>1, <1>2, <2>2, <2>5, <2>6, <2>7 DEF Unstamped
  <1>6. CASE f = handle[w] /\ RebuildDrop(w)
    BY <1>1, <1>6, EventsDropped, EmptySeq DEF Indices
  <1> QED BY <1>3, <1>4, <1>5, <1>6 DEF EventsWrites

LEMMA StampsInit == Init => StampsInv
  <1> SUFFICES ASSUME Init PROVE StampsInv OBVIOUS
  <1>1. TypeOK BY InitType
  <1>2. CASE NoCase
    BY <1>1, <1>2, EmptySeq DEF NoCase, EmptyFile, StampsInv, LaidOut, Unstamped, Indices
  <1>3. ASSUME NEW b \in Batch, NEW layout \in OldLayouts, EarlierCase(b, layout)
        PROVE  StampsInv
    <2> DEFINE rows == EarlierFile(b, layout).events
    <2>1. SizeOf[b] \in Nat BY BatchAssumption
    <2>2. Len(rows) = SizeOf[b] BY <2>1, LenProperties DEF EarlierFile
    <2>3. \A i \in Indices(rows) : rows[i].timed BY <2>2 DEF EarlierFile, Indices
    <2>4. \A f \in File : \/ db[f].events = rows /\ "events" \in db[f].tables
                          \/ db[f].events = <<>>
      BY <1>3 DEF EarlierCase, EarlierFile, EmptyFile, Table
    <2>5. LaidOut BY <2>4 DEF LaidOut
    <2> HIDE DEF rows
    <2>6. Unstamped BY <2>3, <2>4, EmptySeq DEF Unstamped, Indices
    <2> QED BY <1>1, <2>5, <2>6 DEF StampsInv
  <1> QED BY <1>2, <1>3 DEF Init

LEMMA StampsNext == StampsInv /\ [Next]_vars => StampsInv'
  <1> SUFFICES ASSUME StampsInv, [Next]_vars PROVE StampsInv' OBVIOUS
  <1>1. CASE UNCHANGED vars
    <2> USE <1>1 DEF StampsInv, vars, dbVars
    <2>1. TypeOK' BY StutterType
    <2>2. LaidOut' /\ Unstamped' BY DEF LaidOut, Unstamped, Stamps, Code
    <2> QED BY <2>1, <2>2
  <1>2. ASSUME NEW w \in Worker, Step(w) PROVE StampsInv'
    BY <1>2, StepType, LaidOutStep, UnstampedStep DEF StampsInv
  <1> QED BY <1>1, <1>2 DEF Next

\* However many threads and processes append, rebuild and delete: as long as no
\* operation was cut short, an event whose ts_parsed is unset belongs to a
\* worker that is between its INSERT and its UPDATE and whose start covers it.
\* The UPDATE's `id >= start` never misses a row it inserted.
THEOREM UntimedAlwaysOwned == Spec => []UntimedOwned
  <1>1. StampsInv => UntimedOwned BY DEF StampsInv, Unstamped, UntimedOwned, Stamps
  <1> QED BY <1>1, StampsInit, StampsNext, PTL DEF Spec

=============================================================================
