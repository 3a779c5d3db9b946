------------------------- MODULE CaseStoreProperties -------------------------
(***************************************************************************)
(* What the case store should keep true, and the abstraction of its state  *)
(* to the ledger of CaseLedger.                                            *)
(***************************************************************************)
EXTENDS CaseStore

Indices(s) == 1..Len(s)
Stored(rec, rows) == \E i \in Indices(rows) : rows[i].rec = rec
AllStored(b, rows) == \A i \in 1..SizeOf[b] : Stored([batch |-> b, pos |-> i], rows)

\* A source that case.json records, and whose repeat append() therefore
\* refuses, is in raw_records complete: no refusal is ever based on data that
\* is not there (the order of append: raw rows, events, then the signature).
SourceBacked ==
    \A i \in Indices(meta.sources) : cur # 0 /\ AllStored(meta.sources[i], db[cur].raw)

\* A case that can be read can be rebuilt: its raw records are there.
Rebuildable == Readable => cur # 0 /\ "raw_records" \in db[cur].tables

\* Every row of events is derived from a raw record kept beside it, so that a
\* rebuild never loses an event (append's docstring: "raw first, then the
\* analytic rows derived from them").
EventsDerived ==
    \A f \in File : \A i \in Indices(db[f].events) :
        Stored(db[f].events[i].rec, db[f].raw)

\* An analysis whose queries run finds, in events, every record of every
\* source that case.json recorded when connect() loaded it.
AnalysisSeesEverySource ==
    \A w \in Worker : pc[w] = "analyze_read" /\ Runs(w) =>
        \A i \in Indices(loc[w].mem.sources) :
            AllStored(loc[w].mem.sources[i], db[handle[w]].events)

\* Event ids identify events: insert_records numbers them from the next free id.
EventIdsUnique ==
    \A f \in File : \A i, j \in Indices(db[f].events) :
        i # j => db[f].events[i].id # db[f].events[j].id

\* Without a failure no event stays out of the temporal views: a row whose
\* ts_parsed is still unset is going to be stamped by the operation inserting it.
UntimedOwned ==
    faults = 0 =>
        \A f \in File : \A i \in Indices(db[f].events) :
            db[f].events[i].timed \/ \E w \in Worker :
                /\ handle[w] = f /\ pc[w] \in {"insert", "stamp"}
                /\ loc[w].start <= db[f].events[i].id

\* Between operations, case.json counts what the tables hold.
CountsAgree ==
    Readable /\ (\A w \in Worker : pc[w] = "idle") =>
        meta.record_count = Len(db[cur].events)

\* The copies of a batch's last record among the raw records.
CopiesOf(b) ==
    IF cur = 0 THEN 0
    ELSE Cardinality({i \in Indices(db[cur].raw) :
                        db[cur].raw[i].rec = [batch |-> b, pos |-> SizeOf[b]]})

\* "A repeated append of the exact same batch is refused, not silently doubled
\* and not silently dropped" (append, when force is never passed).
NotDoubled == \A b \in Batch : SizeOf[b] > 0 => CopiesOf(b) <= 1

-----------------------------------------------------------------------------
(* The ledger a case implements.  What an append inserted counts from the   *)
(* moment its case.json is saved; a case being created or deleted is none.  *)

IsOpen ==
    metaState # "absent" /\ \A w \in Worker : loc[w].op \notin {"create", "delete"}

Uncommitted(b) ==
    Cardinality({w \in Worker :
        /\ loc[w].adding = {b} /\ loc[w].recs # <<>>
        /\ pc[w] \in {"insert", "stamp", "append_count", "truncate", "write"}})

Ledger == INSTANCE CaseLedger WITH
    open    <- IsOpen,
    stored  <- [b \in Batch |-> IF IsOpen /\ SizeOf[b] > 0
                                THEN CopiesOf(b) - Uncommitted(b) ELSE 0],
    sources <- IF IsOpen THEN meta.sources ELSE <<>>,
    notes   <- IF IsOpen THEN meta.notes ELSE <<>>,
    infrastructure_ips <- IF IsOpen THEN meta.infrastructure_ips ELSE {}

\* One caller at a time, nothing failing: the store is the ledger.
ImplementsLedger == Ledger!Spec

=============================================================================
