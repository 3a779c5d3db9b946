----------------------------- MODULE BuildRecords -----------------------------
(***************************************************************************)
(* build_records (analytics/runner.py): the files of one request, read one *)
(* kind after another.  EVTX files go through Hayabusa in one batch, and   *)
(* one by one on a pool of threads if the batch fails; every Hayabusa      *)
(* first sees to the rule links (RuleLinks), which other requests of the   *)
(* same installation are seeing to as well.  What a file loses is put on   *)
(* the list of errors or, in a caller that keeps none, raised.             *)
(***************************************************************************)
EXTENDS Adapters, RuleLinks

CONSTANTS
    Request,    \* the requests that may come: files, zeek (is it installed) and
                \* told (is there a list of errors) of each
    Cpus,       \* mp.cpu_count()
    Peers,      \* threads of other requests that run Hayabusa
    Faults      \* may Hayabusa's error log be unreadable

\* The runner of a batch; a file's own runner has the file's number.
Batch == 0

\* The kinds read by an adapter alone, and all kinds.
Adapted == {"evtx_full", "log", "registry", "hive", "mft", "thor", "yara", "osquery", "crowdstrike"}
Kind    == Adapted \cup {"evtx", "pcap"}

\* The EVTX files of a request come first; each has a runner of its own.
ASSUME BuildAssumption ==
    /\ Cpus \in Nat \ {0} /\ Faults \in BOOLEAN
    /\ Batch \in Runner /\ Peers \subseteq Runner \ {Batch}
    /\ \A r \in DOMAIN Request :
          /\ Request[r].told \in BOOLEAN /\ Request[r].zeek \in BOOLEAN
          /\ Len(Request[r].files) \in Nat /\ DOMAIN Request[r].files = 1..Len(Request[r].files)
          /\ \A i \in DOMAIN Request[r].files : Request[r].files[i].kind \in Kind
          /\ \A i \in DOMAIN Request[r].files : Request[r].files[i].kind = "evtx" =>
                /\ i \in Runner \ (Peers \cup {Batch})
                /\ Request[r].files[i].fate \in {"good", "corrupt", "fatal"}
                /\ \A j \in 1..i : Request[r].files[j].kind = "evtx"

VARIABLES
    job,        \* which request it is
    pc,         \* where build_records is
    next,       \* the file it is at, after the EVTX files
    errors,     \* what has been reported, as [what, name]
    made,       \* how often each tool's reading of each file is in records
    skipped,    \* evtx_skipped
    worker,     \* the pool's task of each EVTX file
    noZeek,     \* zeek_missing
    unread      \* history: EVTX files Hayabusa skipped and no log could be read for

buildVars == <<job, pc, next, errors, made, skipped, worker, noZeek, unread>>
vars == <<buildVars, linkVars>>

Files == Request[job].files

\* What each tool made of a file: load_records of its kind.
Read(f) == IF f.fate = "good" THEN Load(f.kind, f.content) ELSE Raised

\* The files whose adapter raises, as <<request, number of the file>>.
Lost ==
    UNION {{<<r, i>> : i \in {n \in DOMAIN Request[r].files : Read(Request[r].files[n]).raised}} : r \in DOMAIN Request}

ZeekInstalled == Request[job].zeek
Listed == Request[job].told
Evtx  == {i \in DOMAIN Files : Files[i].kind = "evtx"}

Tool == Adapted \cup {"hayabusa", "tshark", "zeek"}

Error(what, name) == [what |-> what, name |-> name]
Report(es)        == errors' = IF Listed THEN errors \cup es ELSE errors

\* The records these tools made of the files S join the others.
Add(S, tools) == made' = [c \in DOMAIN made |-> IF c[1] \in S /\ c[2] \in tools THEN made[c] + 1 ELSE made[c]]

\* Errors are raised where no list is kept of them.
ReportOrRaise(es, onwards) ==
    /\ Report(es)
    /\ pc' = IF Listed \/ es = {} THEN onwards ELSE "raised"

-----------------------------------------------------------------------------
(* stage_batch_dir                                                          *)

Prefix == <<"001", "002", "003">>

\* A name is a sequence of parts; the second file of a name, and every
\* further one, gets a number before it.
StagedName(n) ==
    LET twins == Cardinality({j \in Evtx : j < n /\ Files[j].name = Files[n].name})
    IN  IF twins = 0 THEN Files[n].name ELSE <<Prefix[twins]>> \o Files[n].name

\* symlink_to refuses a name that is taken.
StagesWell == \A i, j \in Evtx : StagedName(i) = StagedName(j) => i = j

\* Mutant: the staged names reach the report.
OriginalIsStaged(name) == name

\* original: the caller's name of a staged file.
Original(name) ==
    IF \E i \in Evtx : StagedName(i) = name
    THEN Files[CHOOSE i \in Evtx : StagedName(i) = name].name ELSE name

-----------------------------------------------------------------------------
(* The batch                                                                *)

\* The reason is reported, and the files are read one by one.
BatchFails ==
    /\ Report({Error("batch", None)})
    /\ pc' = "pool"
    /\ UNCHANGED <<made, skipped, unread>>

Stage ==
    /\ pc = "stage"
    /\ \/ StagesWell /\ EnterLinks(Batch) /\ pc' = "batch" /\ UNCHANGED <<errors, made, skipped, unread>>
       \/ ~StagesWell /\ BatchFails /\ UNCHANGED linkVars
    /\ UNCHANGED <<job, next, worker, noZeek>>

\* failed_files of a run over the files ids: the names the error log holds,
\* or none, if the log cannot be read.
FailedFiles(ids, NameOf(_)) ==
    LET bad == {i \in ids : Files[i].fate = "corrupt"} IN
    \/ skipped' = skipped \cup {NameOf(i) : i \in bad} /\ UNCHANGED unread
    \/ Faults /\ unread' = unread \cup bad /\ UNCHANGED skipped

Fatal(i) == Files[i].fate = "fatal"
Good(S)  == {i \in S : Files[i].fate = "good"}

\* Mutant: what the batch had written is kept when it fails.
RunBatchKeeps ==
    /\ pc = "batch" /\ LeaveLinks(Batch)
    /\ Add(Good(Evtx), {"hayabusa"})
    /\ IF step[Batch] = "failed" \/ \E i \in Evtx : Fatal(i)
       THEN /\ Report({Error("batch", None)})
            /\ pc' = "pool" /\ UNCHANGED <<skipped, unread>>
       ELSE pc' = "skips" /\ FailedFiles(Evtx, LAMBDA i : Original(StagedName(i))) /\ UNCHANGED errors
    /\ UNCHANGED <<job, next, worker, noZeek>>

\* run_batch and load_records: Hayabusa exits 0 over files it cannot parse;
\* if it fails, nothing of the batch is kept.
RunBatch ==
    /\ pc = "batch" /\ LeaveLinks(Batch)
    /\ IF step[Batch] = "failed" \/ \E i \in Evtx : Fatal(i)
       THEN BatchFails
       ELSE /\ Add(Good(Evtx), {"hayabusa"})
            /\ FailedFiles(Evtx, LAMBDA i : Original(StagedName(i)))
            /\ pc' = "skips"
            /\ UNCHANGED errors
    /\ UNCHANGED <<job, next, worker, noZeek>>

-----------------------------------------------------------------------------
(* The pool.  A request with one EVTX file runs it the same way, without a  *)
(* pool and without a batch before it.                                      *)

InPool(state) == {i \in Evtx : worker[i] = state}

\* The pool takes the files in order, max_workers of them at a time.
Start(i) ==
    /\ pc \in {"pool", "drain"}
    /\ i \in InPool("pending") /\ \A j \in InPool("pending") : i <= j
    /\ Cardinality(InPool("running")) < Min({Cardinality(Evtx), Cpus})
    /\ EnterLinks(i)
    /\ worker' = [worker EXCEPT ![i] = "running"]
    /\ UNCHANGED <<job, pc, next, errors, made, skipped, noZeek, unread>>

\* _process_evtx: run, load_records, and what was skipped.
ProcessEvtx(i) ==
    /\ i \in InPool("running") /\ LeaveLinks(i)
    /\ IF step[i] = "failed" \/ Fatal(i)
       THEN worker' = [worker EXCEPT ![i] = "raised"] /\ UNCHANGED <<skipped, unread>>
       ELSE worker' = [worker EXCEPT ![i] = "ran"] /\ FailedFiles({i}, LAMBDA j : Files[j].name)
    /\ UNCHANGED <<job, pc, next, errors, made, noZeek>>

\* Mutant: a result that raised is never taken.
CollectRan(i) ==
    /\ pc = "pool" /\ worker[i] = "ran"
    /\ worker' = [worker EXCEPT ![i] = "collected"]
    /\ Add(Good({i}), {"hayabusa"})
    /\ UNCHANGED <<job, pc, next, errors, skipped, noZeek, unread, linkVars>>

\* as_completed: the results are taken as they come.  Raising leaves the
\* block of the pool, which waits for every task, the pending ones too.
Collect(i) ==
    /\ pc = "pool" /\ worker[i] \in {"ran", "raised"}
    /\ worker' = [worker EXCEPT ![i] = "collected"]
    /\ IF worker[i] = "raised"
       THEN /\ Report({Error("evtx", Files[i].name)})
            /\ pc' = IF Listed THEN "pool" ELSE "drain"
            /\ UNCHANGED made
       ELSE /\ Add(Good({i}), {"hayabusa"})
            /\ UNCHANGED <<errors, pc>>
    /\ UNCHANGED <<job, next, skipped, noZeek, unread, linkVars>>

PoolEnds ==
    /\ \/ pc = "pool" /\ (\A i \in Evtx : worker[i] = "collected") /\ pc' = "skips"
       \/ pc = "drain" /\ InPool("pending") \cup InPool("running") = {} /\ pc' = "raised"
    /\ UNCHANGED <<job, next, errors, made, skipped, worker, noZeek, unread, linkVars>>

\* Mutant: a batch does not say what it skipped.
SkipsUntold ==
    /\ pc = "skips" /\ pc' = "rest"
    /\ UNCHANGED <<job, next, errors, made, skipped, worker, noZeek, unread, linkVars>>

Skips ==
    /\ pc = "skips"
    /\ ReportOrRaise({Error("evtx", name) : name \in skipped}, "rest")
    /\ UNCHANGED <<job, next, made, skipped, worker, noZeek, unread, linkVars>>

-----------------------------------------------------------------------------
(* The other kinds, a file at a time.                                       *)

At(kinds) == pc = "rest" /\ next <= Len(Files) /\ Files[next].kind \in kinds

Adapter ==
    LET f == Files[next]
        lost == <<job, next>> \in Lost
    IN  /\ At(Adapted)
        /\ ~noZeek
        /\ next' = next + 1
        /\ ReportOrRaise(IF lost THEN {Error(f.kind, f.name)} ELSE {}, "rest")
        /\ IF lost THEN UNCHANGED made ELSE Add({next}, {f.kind})
        /\ UNCHANGED <<job, skipped, worker, noZeek, unread, linkVars>>

\* Is there Zeek's reading of the capture.
Zeeks(f) == ZeekInstalled /\ f.content.zeek # None

\* tshark, then Zeek: what stops the one stops the other and is told once,
\* and a failure of Zeek alone is never raised.
Pcap ==
    LET f == Files[next] IN
    /\ At({"pcap"})
    /\ next' = next + 1
    /\ IF f.fate # "good"
       THEN ReportOrRaise({Error("pcap", f.name)}, "rest") /\ UNCHANGED <<made, noZeek>>
       ELSE /\ Add({next}, {"tshark"} \cup (IF Zeeks(f) THEN {"zeek"} ELSE {}))
            /\ noZeek' = (noZeek \/ ~ZeekInstalled)
            /\ Report(IF ZeekInstalled /\ ~Zeeks(f) THEN {Error("zeek", f.name)} ELSE {})
            /\ UNCHANGED pc
    /\ UNCHANGED <<job, skipped, worker, unread, linkVars>>

\* After the last capture, once.
ZeekMissing ==
    /\ pc = "rest" /\ noZeek /\ ~At({"pcap"})
    /\ noZeek' = FALSE
    /\ Report({Error("no zeek", None)})
    /\ UNCHANGED <<job, pc, next, made, skipped, worker, unread, linkVars>>

Finish ==
    /\ pc = "rest" /\ ~noZeek /\ next > Len(Files)
    /\ pc' = "done"
    /\ UNCHANGED <<job, next, errors, made, skipped, worker, noZeek, unread, linkVars>>

-----------------------------------------------------------------------------

Init ==
    /\ LinkInit
    /\ job \in DOMAIN Request
    /\ pc = CASE Cardinality(Evtx) = 0 -> "rest" [] Cardinality(Evtx) = 1 -> "pool" [] OTHER -> "stage"
    /\ next \in 1..Len(Files) + 1 /\ Evtx = 1..next - 1
    /\ errors = {} /\ skipped = {}
    /\ made = [c \in (DOMAIN Files) \X Tool |-> 0]
    /\ worker = [i \in Evtx |-> "pending"]
    /\ noZeek = FALSE /\ unread = {}

Links(r) == EnsureLinks(r) /\ UNCHANGED buildVars

\* The thread of build_records, a task of its pool, and another request's.
Main    == Stage \/ Links(Batch) \/ RunBatch \/ (\E i \in Evtx : Collect(i)) \/ PoolEnds \/ Skips
             \/ Adapter \/ Pcap \/ ZeekMissing \/ Finish
Task(i) == Start(i) \/ (i \in InPool("running") /\ Links(i)) \/ ProcessEvtx(i)
Peer(p) == (EnterLinks(p) \/ EnsureLinks(p) \/ LeaveLinks(p)) /\ UNCHANGED buildVars

Next == Main \/ (\E i \in Evtx : Task(i)) \/ (\E p \in Peers : Peer(p))

\* The threads of the request run until they are done; nothing is assumed of
\* the others.
Spec ==
    /\ Init /\ [][Next]_vars
    /\ WF_vars(Main) /\ \A i \in Runner \ (Peers \cup {Batch}) : WF_vars(i \in Evtx /\ Task(i))

=============================================================================
