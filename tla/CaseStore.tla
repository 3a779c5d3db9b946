------------------------------ MODULE CaseStore ------------------------------
(***************************************************************************)
(* The on-disk life of ONE case (analysis/analytics/case_store.py): the    *)
(* directory, case.json (metadata, sources, notes) and case.duckdb (tables *)
(* raw_records and events), worked on by the GUI's threads and by CLI      *)
(* processes.  Every function of the store is a little program without a   *)
(* lock: it loads case.json, works on the database, and writes case.json   *)
(* back whole.  One action per step that touches the disk; any step may    *)
(* raise, or its process may die, and leave the rest undone.               *)
(*                                                                         *)
(* A batch (the records of one append) is a value with a size: two         *)
(* batches have the same content signature iff they are the same value.    *)
(* An operation refused before it touched the disk is a stuttering step.   *)
(***************************************************************************)
EXTENDS Naturals, Sequences, FiniteSets

CONSTANTS
    Process,        \* operating-system processes: the GUI, CLI runs
    Worker,         \* threads of control, each running one operation at a time
    ProcessOf,      \* the process of each worker
    Batch,          \* record batches, each with its own content signature
    SizeOf,         \* number of records of each batch; 0: parsed to nothing
    Text,           \* analyst notes
    IpList,         \* values of the infrastructure_ips list, {} among them
    Column,         \* names of columns of the events table
    ColumnsOf,      \* store._COLUMNS of the program version each process runs
    OldLayouts,     \* layouts a case of an earlier session may have
    Deletes,        \* may the case be deleted (run_case rm, the demo's reset)
    ForceAllowed,   \* may a caller pass force=True to append
    MaxOps,         \* bound: operations begun
    MaxFaults,      \* bound: operations cut short by an exception or a crash
    MaxFiles,       \* bound: database files created one after another
    MaxRowId        \* bound: row ids

ASSUME WorkerAssumption ==
    ProcessOf \in [Worker -> Process]
ASSUME BatchAssumption ==
    SizeOf \in [Batch -> Nat]
ASSUME ColumnsAssumption ==
    /\ ColumnsOf \in [Process -> SUBSET Column]
    /\ OldLayouts \subseteq SUBSET Column
ASSUME IpListAssumption ==
    {} \in IpList
ASSUME BoundAssumption ==
    /\ Deletes \in BOOLEAN /\ ForceAllowed \in BOOLEAN
    /\ MaxOps \in Nat /\ MaxFaults \in Nat /\ MaxFiles \in Nat \ {0} /\ MaxRowId \in Nat

VARIABLES
    dir,        \* does the case directory exist
    metaState,  \* what a reader of case.json finds
    meta,       \* the last document written to case.json
    metaInc,    \* how many times case.json was unlinked: the file's identity
    cur,        \* the database file the path leads to; 0: none
    made,       \* database files created so far
    db,         \* contents of every database file, unlinked ones included
    pc,         \* where each worker is in its operation
    handle,     \* the database file each worker has open; 0: none
    loc,        \* the local variables of each worker's operation
    begun, faults   \* bounds' counters

metaVars == <<dir, metaState, meta, metaInc>>
dbVars   == <<cur, made, db>>
vars     == <<metaVars, dbVars, pc, handle, loc, begun, faults>>

-----------------------------------------------------------------------------
(* Types *)

Layout   == SUBSET Column
File     == 1..MaxFiles
Table    == {"events", "raw_records"}

\* One record of a batch; a row of raw_records; a row of events, whose
\* ts_parsed is filled in by a statement of its own.
Rec      == [batch : Batch, pos : Nat]
RawRow   == [id : Nat, rec : Rec]
EventRow == [id : Nat, rec : Rec, timed : BOOLEAN]

DbFile   == [tables : SUBSET Table, layout : Layout,
             raw : Seq(RawRow), events : Seq(EventRow)]
EmptyFile == [tables |-> {}, layout |-> {}, raw |-> <<>>, events |-> <<>>]

\* case.json: sources as the batches whose signature they record, the digest
\* of the last analysis as the number of events it saw (0: no digest).
Meta     == [fingerprint : Layout, record_count : Nat, sources : Seq(Batch),
             notes : Seq(Text), infrastructure_ips : IpList, digest : Nat]
NewMeta(layout) ==
    [fingerprint |-> layout, record_count |-> 0, sources |-> <<>>,
     notes |-> <<>>, infrastructure_ips |-> {}, digest |-> 0]

MetaState == {"absent", "empty", "ok", "garbled"}

PC == {"idle", "create_tables", "append_open", "append_start", "append_raw",
       "insert", "stamp", "append_count", "rebuild_open", "rebuild_read",
       "rebuild_drop", "rebuild_create", "rebuild_close", "rebuild_load",
       "analyze_open", "analyze_read", "digest_load", "truncate", "write", "rm"}

Op == {"none", "create", "append", "note", "infra", "analyze", "digest", "delete"}

\* op: the operation; adding: the batch an append adds; mem: the metadata in
\* memory; recs: the records being inserted, numbered from start, the first
\* done of them inserted; seen: the events an analysis found; inc: the
\* case.json opened for writing; todo: what a delete still has to unlink.
Entry == {"case.json", "case.duckdb"}
Local == [op : Op, adding : SUBSET Batch, mem : Meta, recs : Seq(Rec), start : Nat,
          done : Nat, seen : Nat, inc : Nat, todo : SUBSET Entry]
NoLocal == [op |-> "none", adding |-> {}, mem |-> NewMeta({}), recs |-> <<>>,
            start |-> 0, done |-> 0, seen |-> 0, inc |-> 0, todo |-> {}]

MetaTypeOK    == dir \in BOOLEAN /\ metaState \in MetaState /\ meta \in Meta /\ metaInc \in Nat
DbTypeOK      == cur \in 0..MaxFiles /\ made \in 0..MaxFiles /\ db \in [File -> DbFile]
WorkerTypeOK  == /\ pc \in [Worker -> PC] /\ handle \in [Worker -> 0..MaxFiles]
                 /\ loc \in [Worker -> Local]
CounterTypeOK == begun \in Nat /\ faults \in Nat

TypeOK == MetaTypeOK /\ DbTypeOK /\ WorkerTypeOK /\ CounterTypeOK

-----------------------------------------------------------------------------
(* The database file (how DuckDB opens one is external, seen from here)     *)

Code(w) == ColumnsOf[ProcessOf[w]]

\* Connections of one process to one path share the instance that is open.
Shared(w) == {handle[v] : v \in {u \in Worker : ProcessOf[u] = ProcessOf[w]}} \ {0}

\* A file open in another process is locked: duckdb.connect raises IOException.
Locked(w) == \E v \in Worker : ProcessOf[v] # ProcessOf[w] /\ handle[v] = cur

CanOpen(w) ==
    \/ Shared(w) # {}
    \/ cur # 0 /\ ~Locked(w)
    \/ cur = 0 /\ dir /\ made < MaxFiles

\* Open the case's database: file f is the one this process still has open,
\* the one the path leads to, or a new empty one.
Open(w, f) ==
    \/ f \in Shared(w) /\ UNCHANGED <<cur, made>>
    \/ /\ Shared(w) = {} /\ cur # 0 /\ ~Locked(w)
       /\ f = cur /\ UNCHANGED <<cur, made>>
    \/ /\ Shared(w) = {} /\ cur = 0 /\ dir /\ made < MaxFiles
       /\ f = made + 1 /\ cur' = f /\ made' = f

\* Mutant: max(id) without the one.
IsLastId(n, rows) ==
    /\ \A i \in 1..Len(rows) : rows[i].id <= n
    /\ n = 0 \/ \E i \in 1..Len(rows) : rows[i].id = n

\* SELECT coalesce(max(id) + 1, 0) FROM events.
IsNextId(n, rows) ==
    /\ \A i \in 1..Len(rows) : rows[i].id < n
    /\ n = 0 \/ \E i \in 1..Len(rows) : rows[i].id + 1 = n

\* The orders SELECT rec FROM raw_records ORDER BY id may return; when the ids
\* ascend already there is one, and nothing to permute.
Ascending(rows) == \A i, j \in 1..Len(rows) : i < j => rows[i].id < rows[j].id
SortedBy(rows)  ==
    {p \in [1..Len(rows) -> 1..Len(rows)] : \A i, j \in 1..Len(rows) :
        i < j => p[i] # p[j] /\ rows[p[i]].id <= rows[p[j]].id}
Orders(rows) ==
    IF Ascending(rows) THEN {[i \in 1..Len(rows) |-> rows[i].rec]}
    ELSE {[i \in 1..Len(rows) |-> rows[p[i]].rec] : p \in SortedBy(rows)}

\* The records of a batch, in its order.
RecsOf(b) == [i \in 1..SizeOf[b] |-> [batch |-> b, pos |-> i]]

\* Mutant: ids one too small.
RawRowsOffByOne(w, k) ==
    [i \in 1..k |-> LET n == loc[w].done + i IN
        [id |-> loc[w].start + n - 2, rec |-> loc[w].recs[n]]]

\* Rows for the k records after the first done ones: each gets its own id.
RawRows(w, k) ==
    [i \in 1..k |-> LET n == loc[w].done + i IN
        [id |-> loc[w].start + n - 1, rec |-> loc[w].recs[n]]]
EventRows(w, k) ==
    [i \in 1..k |-> LET n == loc[w].done + i IN
        [id |-> loc[w].start + n - 1, rec |-> loc[w].recs[n], timed |-> FALSE]]

-----------------------------------------------------------------------------
(* Control *)

\* The operation of w is over: it returns, or an exception leaves it.  Either
\* way `finally: con.close()` has run and the file is unlocked.
Return(w) ==
    /\ pc' = [pc EXCEPT ![w] = "idle"]
    /\ handle' = [handle EXCEPT ![w] = 0]
    /\ loc' = [loc EXCEPT ![w] = NoLocal]

Goto(w, label) == pc' = [pc EXCEPT ![w] = label]

\* An operation begins.  One that is refused here (no case, an unreadable
\* case.json, a duplicate batch, an empty note) changes nothing.
Begin(w) ==
    /\ pc[w] = "idle" /\ begun < MaxOps
    /\ begun' = begun + 1
    /\ UNCHANGED <<dbVars, handle, faults>>

\* load_meta: the document, or an exception when it is missing or unreadable.
Readable == metaState = "ok"

\* Can the next statement of w's open connection execute?  An INSERT names
\* every column of the running version, and so do the queries between them.
Runs(w) ==
    LET file == db[handle[w]] IN
    /\ pc[w] \in {"append_start", "stamp", "append_count"} => "events" \in file.tables
    /\ pc[w] \in {"append_raw", "rebuild_read"} => "raw_records" \in file.tables
    /\ pc[w] \in {"insert", "analyze_read"} =>
         "events" \in file.tables /\ Code(w) \subseteq file.layout

\* The statement at label executes on w's connection.
InDb(w, label) ==
    /\ pc[w] = label /\ handle[w] # 0 /\ Runs(w)
    /\ UNCHANGED <<metaVars, cur, made, begun, faults>>

\* A database section is entered through case_store._open_db.
OpenDb(w, from, to) ==
    /\ pc[w] = from
    /\ \E f \in File : Open(w, f) /\ handle' = [handle EXCEPT ![w] = f]
    /\ Goto(w, to)
    /\ UNCHANGED <<metaVars, db, loc, begun, faults>>

-----------------------------------------------------------------------------
(* create *)

\* Mutant: case.json is written before the tables exist.
CreateSavesFirst(w) ==
    /\ Begin(w)
    /\ metaState = "absent"
    /\ dir' = TRUE
    /\ loc' = [loc EXCEPT ![w] = [@ EXCEPT !.op = "create", !.mem = NewMeta(Code(w))]]
    /\ Goto(w, "truncate")
    /\ UNCHANGED <<metaState, meta, metaInc>>

\* The check that no case.json is there, and mkdir(exist_ok=True).
Create(w) ==
    /\ Begin(w)
    /\ metaState = "absent"
    /\ dir' = TRUE
    /\ loc' = [loc EXCEPT ![w].op = "create"]
    /\ Goto(w, "create_tables")
    /\ UNCHANGED <<metaState, meta, metaInc>>

\* The layout of events after CREATE TABLE IF NOT EXISTS in file f.
LayoutUsed(w, f) == IF "events" \in db[f].tables THEN db[f].layout ELSE Code(w)

\* Open, CREATE TABLE IF NOT EXISTS twice, close.
CreateTables(w) ==
    /\ pc[w] = "create_tables"
    /\ \E f \in File :
         /\ Open(w, f)
         /\ db' = [db EXCEPT ![f] = [db[f] EXCEPT
                      !.tables = Table, !.layout = LayoutUsed(w, f)]]
    /\ loc' = [loc EXCEPT ![w].mem = NewMeta(Code(w))]
    /\ Goto(w, "truncate")
    /\ UNCHANGED <<metaVars, handle, begun, faults>>

-----------------------------------------------------------------------------
(* append *)

\* Mutant: the signatures are not compared.
IsAnything(b) == TRUE

\* Is the batch's signature not recorded yet?  An empty batch has none.
IsNew(b) == SizeOf[b] > 0 => \A i \in 1..Len(meta.sources) : meta.sources[i] # b

\* load_meta, and the refusal of a repeated batch, unless it is forced.
AppendRecords(w, b, force) ==
    /\ Begin(w)
    /\ Readable
    /\ force \/ IsNew(b)
    /\ loc' = [loc EXCEPT ![w] = [NoLocal EXCEPT !.op = "append", !.adding = {b},
                                                 !.mem = meta, !.recs = RecsOf(b)]]
    /\ Goto(w, "append_open")
    /\ UNCHANGED metaVars

\* Mutant: the source is recorded before its rows are inserted.
AppendRecordedFirst(w) ==
    /\ pc[w] = "append_open"
    /\ \E f \in File : Open(w, f) /\ handle' = [handle EXCEPT ![w] = f]
    /\ \E b \in loc[w].adding : meta' = [meta EXCEPT !.sources = Append(@, b)]
    /\ Goto(w, "append_start")
    /\ UNCHANGED <<dir, metaState, metaInc, db, loc, begun, faults>>

AppendOpen(w) == OpenDb(w, "append_open", "append_start")

\* Mutant: the analytic rows go in before the raw ones.
EventsFirst(w) == IF loc[w].recs = <<>> THEN "append_count" ELSE "insert"

\* insert raw first, then the analytic rows derived from them.
RawFirst(w) == IF loc[w].recs = <<>> THEN "append_count" ELSE "append_raw"

\* The first id of the batch is one past the largest id in EVENTS, although
\* the next statement inserts into raw_records.
AppendStart(w) ==
    /\ InDb(w, "append_start")
    /\ \E n \in 0..MaxRowId :
         /\ IsNextId(n, db[handle[w]].events)
         /\ loc' = [loc EXCEPT ![w].start = n]
    /\ Goto(w, RawFirst(w))
    /\ UNCHANGED <<db, handle>>

\* executemany commits its rows one by one, or several at once.
AppendRaw(w) ==
    /\ InDb(w, "append_raw")
    /\ \E k \in 1..(Len(loc[w].recs) - loc[w].done) :
         /\ db' = [db EXCEPT ![handle[w]].raw = @ \o RawRows(w, k)]
         /\ IF loc[w].done + k = Len(loc[w].recs)
            THEN /\ loc' = [loc EXCEPT ![w].done = 0]
                 /\ Goto(w, "insert")
            ELSE /\ loc' = [loc EXCEPT ![w].done = @ + k]
                 /\ UNCHANGED pc
    /\ UNCHANGED handle

\* Mutant: the batch is counted instead of the table.
BatchCounted(w, b) ==
    [loc[w].mem EXCEPT !.record_count = Len(loc[w].recs), !.sources = Append(@, b)]

WithSource(w, b) ==
    [loc[w].mem EXCEPT !.record_count = Len(db[handle[w]].events), !.sources = Append(@, b)]

\* count(*), close, and the new source in the metadata held in memory.
AppendCount(w) ==
    /\ InDb(w, "append_count")
    /\ \E b \in loc[w].adding : loc' = [loc EXCEPT ![w].mem = WithSource(w, b)]
    /\ handle' = [handle EXCEPT ![w] = 0]
    /\ Goto(w, "truncate")
    /\ UNCHANGED db

-----------------------------------------------------------------------------
(* store.insert_records, for append and rebuild_events *)

InsertRecords(w) ==
    /\ InDb(w, "insert")
    /\ \E k \in 1..(Len(loc[w].recs) - loc[w].done) :
         /\ db' = [db EXCEPT ![handle[w]].events = @ \o EventRows(w, k)]
         /\ loc' = [loc EXCEPT ![w].done = @ + k]
         /\ IF loc[w].done + k = Len(loc[w].recs) THEN Goto(w, "stamp") ELSE UNCHANGED pc
    /\ UNCHANGED handle

\* Mutant: WHERE id > start.
StampedAfter(rows, start) ==
    [i \in 1..Len(rows) |-> [rows[i] EXCEPT !.timed = @ \/ rows[i].id > start]]

\* UPDATE events SET ts_parsed = ... WHERE id >= start AND ts_parsed IS NULL.
Stamped(rows, start) ==
    [i \in 1..Len(rows) |-> [rows[i] EXCEPT !.timed = @ \/ rows[i].id >= start]]

StampTimes(w) ==
    /\ InDb(w, "stamp")
    /\ db' = [db EXCEPT ![handle[w]].events = Stamped(@, loc[w].start)]
    /\ Goto(w, IF loc[w].op = "append" THEN "append_count" ELSE "rebuild_close")
    /\ UNCHANGED <<loc, handle>>

-----------------------------------------------------------------------------
(* connect, with rebuild_events when the schema moved, and the analysis of  *)
(* the caller (runner.analyze_case)                                         *)

Connect(w) ==
    /\ Begin(w)
    /\ Readable
    /\ loc' = [loc EXCEPT ![w] = [NoLocal EXCEPT !.op = "analyze", !.mem = meta]]
    /\ Goto(w, IF meta.fingerprint = Code(w) THEN "analyze_open" ELSE "rebuild_open")
    /\ UNCHANGED metaVars

\* Mutant: the new fingerprint is recorded before the events are rebuilt.
RebuildRecordedFirst(w) ==
    /\ pc[w] = "rebuild_open"
    /\ \E f \in File : Open(w, f) /\ handle' = [handle EXCEPT ![w] = f]
    /\ meta' = [meta EXCEPT !.fingerprint = Code(w)]
    /\ Goto(w, "rebuild_read")
    /\ UNCHANGED <<dir, metaState, metaInc, db, loc, begun, faults>>

RebuildOpen(w) == OpenDb(w, "rebuild_open", "rebuild_read")

\* SELECT rec FROM raw_records ORDER BY id: all of them, in memory.
RebuildRead(w) ==
    /\ InDb(w, "rebuild_read")
    /\ \E recs \in Orders(db[handle[w]].raw) :
         loc' = [loc EXCEPT ![w] = [@ EXCEPT !.recs = recs, !.start = 0, !.done = 0]]
    /\ Goto(w, "rebuild_drop")
    /\ UNCHANGED <<db, handle>>

\* DROP TABLE IF EXISTS events.
RebuildDrop(w) ==
    /\ InDb(w, "rebuild_drop")
    /\ db' = [db EXCEPT ![handle[w]] = [db[handle[w]] EXCEPT
                 !.tables = db[handle[w]].tables \ {"events"}, !.events = <<>>]]
    /\ Goto(w, "rebuild_create")
    /\ UNCHANGED <<loc, handle>>

\* CREATE TABLE IF NOT EXISTS events; no row to insert means no INSERT.
RebuildCreate(w) ==
    /\ InDb(w, "rebuild_create")
    /\ db' = [db EXCEPT ![handle[w]] = [db[handle[w]] EXCEPT
                 !.tables = db[handle[w]].tables \cup {"events"},
                 !.layout = LayoutUsed(w, handle[w])]]
    /\ Goto(w, IF loc[w].recs = <<>> THEN "rebuild_close" ELSE "insert")
    /\ UNCHANGED <<loc, handle>>

RebuildClose(w) ==
    /\ InDb(w, "rebuild_close")
    /\ handle' = [handle EXCEPT ![w] = 0]
    /\ Goto(w, "rebuild_load")
    /\ UNCHANGED <<db, loc>>

\* case.json is read again, after the database work.
RebuildLoad(w) ==
    /\ pc[w] = "rebuild_load"
    /\ IF Readable
       THEN /\ loc' = [loc EXCEPT ![w].mem = [meta EXCEPT !.fingerprint = Code(w),
                                                !.record_count = Len(loc[w].recs)]]
            /\ Goto(w, "truncate")
            /\ UNCHANGED handle
       ELSE Return(w)
    /\ UNCHANGED <<metaVars, dbVars, begun, faults>>

AnalyzeOpen(w) == OpenDb(w, "analyze_open", "analyze_read")

\* The queries over the open connection, then close.  CLI analyze ends here;
\* the GUI and CLI add go on to record the digest.
AnalyzeRead(w) ==
    /\ InDb(w, "analyze_read")
    /\ \/ Return(w)
       \/ /\ loc' = [loc EXCEPT ![w] = [@ EXCEPT
                        !.op = "digest",
                        !.seen = Len(db[handle[w]].events)]]
          /\ handle' = [handle EXCEPT ![w] = 0]
          /\ Goto(w, "digest_load")
    /\ UNCHANGED db

\* save_analysis_digest: never fatal.
DigestLoad(w) ==
    /\ pc[w] = "digest_load"
    /\ IF Readable
       THEN /\ loc' = [loc EXCEPT ![w].mem = [meta EXCEPT !.digest = loc[w].seen]]
            /\ Goto(w, "truncate")
            /\ UNCHANGED handle
       ELSE Return(w)
    /\ UNCHANGED <<metaVars, dbVars, begun, faults>>

-----------------------------------------------------------------------------
(* note, set_infrastructure_ips *)

Edit(w, op, doc) ==
    /\ Begin(w)
    /\ Readable
    /\ loc' = [loc EXCEPT ![w] = [NoLocal EXCEPT !.op = op, !.mem = doc]]
    /\ Goto(w, "truncate")
    /\ UNCHANGED metaVars

Note(w, text) == Edit(w, "note", [meta EXCEPT !.notes = Append(@, text)])

\* Replaces the list.
SetInfrastructureIps(w, ips) == Edit(w, "infra", [meta EXCEPT !.infrastructure_ips = ips])

-----------------------------------------------------------------------------
(* save_meta: Path.write_text opens the file for writing, which truncates   *)
(* it (and fails when the directory is gone), then writes the document.     *)

Truncate(w) ==
    /\ pc[w] = "truncate"
    /\ IF dir
       THEN /\ metaState' = "empty"
            /\ loc' = [loc EXCEPT ![w].inc = metaInc]
            /\ Goto(w, "write")
            /\ UNCHANGED handle
       ELSE Return(w) /\ UNCHANGED metaState
    /\ UNCHANGED <<dir, meta, metaInc, dbVars, begun, faults>>

\* A document written over another one leaves the longer one's tail behind;
\* one written to a file that was unlinked meanwhile leaves nothing.  The
\* save of a rebuild is followed by the open that connect returns.
Write(w) ==
    /\ pc[w] = "write"
    /\ IF loc[w].inc = metaInc
       THEN /\ meta' = loc[w].mem
            /\ metaState' \in IF metaState = "empty" THEN {"ok"} ELSE {"ok", "garbled"}
       ELSE UNCHANGED <<meta, metaState>>
    /\ IF loc[w].op = "analyze"
       THEN Goto(w, "analyze_open") /\ UNCHANGED <<handle, loc>>
       ELSE Return(w)
    /\ UNCHANGED <<dir, metaInc, dbVars, begun, faults>>

-----------------------------------------------------------------------------
(* delete: shutil.rmtree lists the directory, unlinks each entry in some    *)
(* order and removes the directory.                                         *)

Delete(w) ==
    /\ Deletes
    /\ Begin(w)
    /\ dir
    /\ loc' = [loc EXCEPT ![w] = [NoLocal EXCEPT !.op = "delete",
                 !.todo = {e \in Entry : \/ e = "case.json" /\ metaState # "absent"
                                         \/ e = "case.duckdb" /\ cur # 0}]]
    /\ Goto(w, "rm")
    /\ UNCHANGED metaVars

\* An entry another delete unlinked first raises.
Unlink(w) ==
    /\ pc[w] = "rm"
    /\ \E e \in loc[w].todo :
         \/ /\ e = "case.json" /\ metaState # "absent"
            /\ metaState' = "absent" /\ metaInc' = metaInc + 1
            /\ loc' = [loc EXCEPT ![w].todo = @ \ {e}]
            /\ UNCHANGED <<cur, pc, handle>>
         \/ /\ e = "case.duckdb" /\ cur # 0
            /\ cur' = 0
            /\ loc' = [loc EXCEPT ![w].todo = @ \ {e}]
            /\ UNCHANGED <<metaState, metaInc, pc, handle>>
         \/ /\ \/ e = "case.json" /\ metaState = "absent"
               \/ e = "case.duckdb" /\ cur = 0
            /\ Return(w)
            /\ UNCHANGED <<metaState, metaInc, cur>>
    /\ UNCHANGED <<dir, meta, made, db, begun, faults>>

\* rmdir raises when an entry was created after the listing.
RmDir(w) ==
    /\ pc[w] = "rm" /\ loc[w].todo = {}
    /\ dir' = (dir /\ (metaState # "absent" \/ cur # 0))
    /\ Return(w)
    /\ UNCHANGED <<metaState, meta, metaInc, dbVars, begun, faults>>

-----------------------------------------------------------------------------
(* Exceptions *)

\* duckdb.connect raises: another process has the file, or no file can be made.
OpenRefused(w) ==
    /\ pc[w] \in {"create_tables", "append_open", "rebuild_open", "analyze_open"}
    /\ ~CanOpen(w)
    /\ Return(w)
    /\ UNCHANGED <<metaVars, dbVars, begun, faults>>

\* A statement names a table or a column that does not exist.
DbError(w) ==
    /\ handle[w] # 0 /\ ~Runs(w)
    /\ Return(w)
    /\ UNCHANGED <<metaVars, dbVars, begun, faults>>

\* Anything else that ends an operation between two steps: a full disk, a
\* failed commit, an interrupt, the death of the process.
Fail(w) ==
    /\ pc[w] # "idle" /\ faults < MaxFaults
    /\ faults' = faults + 1
    /\ Return(w)
    /\ UNCHANGED <<metaVars, dbVars, begun>>

-----------------------------------------------------------------------------
(* Specification *)

NoCase ==
    /\ dir = FALSE /\ metaState = "absent" /\ meta = NewMeta({})
    /\ cur = 0 /\ made = 0
    /\ db = [f \in File |-> EmptyFile]

\* A case an earlier session left in order: one batch, analyzed or not, its
\* tables in the layout of the version that ran then.
EarlierFile(b, layout) ==
    [tables |-> Table, layout |-> layout,
     raw    |-> [i \in 1..SizeOf[b] |-> [id |-> i - 1, rec |-> RecsOf(b)[i]]],
     events |-> [i \in 1..SizeOf[b] |-> [id |-> i - 1, rec |-> RecsOf(b)[i], timed |-> TRUE]]]

EarlierCase(b, layout) ==
    /\ dir = TRUE /\ metaState = "ok"
    /\ meta = [NewMeta(layout) EXCEPT !.record_count = SizeOf[b], !.sources = <<b>>]
    /\ cur = 1 /\ made = 1
    /\ db = [f \in File |-> IF f = 1 THEN EarlierFile(b, layout) ELSE EmptyFile]

Init ==
    /\ NoCase \/ \E b \in Batch, layout \in OldLayouts : EarlierCase(b, layout)
    /\ metaInc = 0
    /\ pc = [w \in Worker |-> "idle"]
    /\ handle = [w \in Worker |-> 0]
    /\ loc = [w \in Worker |-> NoLocal]
    /\ begun = 0 /\ faults = 0

Step(w) ==
    \/ Create(w) \/ CreateTables(w)
    \/ \E b \in Batch, force \in {FALSE, ForceAllowed} : AppendRecords(w, b, force)
    \/ AppendOpen(w) \/ AppendStart(w) \/ AppendRaw(w) \/ AppendCount(w)
    \/ InsertRecords(w) \/ StampTimes(w)
    \/ Connect(w)
    \/ RebuildOpen(w) \/ RebuildRead(w) \/ RebuildDrop(w) \/ RebuildCreate(w)
    \/ RebuildClose(w) \/ RebuildLoad(w)
    \/ AnalyzeOpen(w) \/ AnalyzeRead(w) \/ DigestLoad(w)
    \/ \E text \in Text : Note(w, text)
    \/ \E ips \in IpList : SetInfrastructureIps(w, ips)
    \/ Truncate(w) \/ Write(w)
    \/ Delete(w) \/ Unlink(w) \/ RmDir(w)
    \/ OpenRefused(w) \/ DbError(w) \/ Fail(w)

Next == \E w \in Worker : Step(w)

Spec == Init /\ [][Next]_vars

=============================================================================
