# EventHound-Blue: verification project

TLA+ specifications of EventHound-Blue, an evidence-analysis workbench (Python): it parses
evidence files of many tools into one record schema, loads the records into DuckDB, runs
recipes and cross-source correlation over them, and keeps the data of an investigation in
*cases* on disk that a local web GUI, a command line and an MCP server share.

## 1. Inventory

| Part (source) | State it keeps | Operations | Hard behaviour |
|---|---|---|---|
| Case store (`analysis/analytics/case_store.py`, `store.py`) | per case: the directory, `case.json` (sources with signatures, notes, infrastructure addresses, layout fingerprint, digest), `case.duckdb` (`raw_records`, `events`) | create, append, connect (with rebuild), analyze, save digest, note, set infrastructure, delete | several threads and processes, no lock of its own; every operation is a sequence of commits that can stop anywhere; layouts change between versions |
| Analysis runner (`analytics/runner.py`) | the records of a request, its list of errors and files, the pool's futures | stage, batch, fall back to a pool, adapt each kind of file, analyze | partial failure of sources, results in any order, names staged twice, one list of errors for all |
| Adapters (`adapters/*.py`) | none | load what a tool wrote as records of the common schema | five spellings of time, truncated documents, joins of logs, values of keys that are deleted |
| GUI server (`gui/app.py`) | one temporary directory and one event queue per request; the registry of cases | analyze (streamed), cases, notes, infrastructure, delete | thread to event-loop hand-over, persistence degraded to memory, two requests minting one case id |
| Browser client (`gui/static/index.html`, `lib.js`) | per tab: the session's files, the case they go into, which of them it holds | pick, analyze, one-off look, start, open, continue and delete a case, new session | answers that arrive after the session has moved on; the ingested set and the case id change in different handlers |
| Event table (`analytics/normalize.py`, `attack.py`, `store.py`) | none | canonical entities, realms, tactics and phases, evidence | many spellings of one entity, names that identify nothing |
| Correlation (`analytics/correlate.py`) | none (queries and pure code) | shared indicators, clusters, episodes, entity graph, timeline, kill chain | transitive clustering, NULLs in SQL, ties, thresholds and caps |
| Recipes (`analytics/recipes.py`) | none | one SQL query each | thresholds, rows that are not connections |
| Baseline (`analytics/baseline.py`) | none; the digest is in `case.json` | delta of two digests, diff of two tables | capped inputs, a digest of an earlier state, merges inferred from totals |
| Configuration store (`tools/eventhound_config.py`) | `config.json` | load, set, delete | read-modify-write over a fixed temporary name |
| Enrichment (`tools/enrichment/enrichment.py`) | a cache of answers | look up an indicator | must not send private addresses |
| Redactor (`analysis/redact.py`) | token tables | redact | one token per value, consistently |
| Subprocess runners (`engine/*_runner.py`) | rule links shared by runs | run a tool, collect its output | time-outs, concurrent link creation |
| MCP server, CLI commands, decoders, report writers | none of their own | dispatch, parse, print | error isolation |

How they interact: the GUI, the CLI and the MCP server call the runner, which calls the
adapters and, through `store` and `case_store`, DuckDB; the analysis reads an open connection;
results go to the report writers and to the browser. What they share is the disk: the case
directories, the configuration, the rule links.

What makes each part correct:

| Part | Properties |
|---|---|
| Case store | every call is whole or nothing (`CaseLedger`); a recorded source is complete; events come from raw records kept beside them; an analysis sees every recorded source; ids are unique; counts agree; a readable case can be rebuilt |
| GUI server | an answer covers its upload; no failure of the case loses records; what a delta takes for known was once named as new; every request is answered |
| Browser client | what the session skips is in its case; no file is stored twice while the session remembers it; two investigations share a case only on purpose |
| Configuration store | `config.json` is replaced by whole documents only; a set changes the one key it names |
| Analysis runner | one file's failure costs that file's records only and is reported, under the caller's name (two kinds of file excepted, section 9); nothing counts twice; every request ends |
| Adapters | tools can be joined on what they name; one clock; a value under its own key; Zeek's logs joined without loss |
| Correlation, recipes | clusters are connected components; episodes are the sessions of the gap; a bridge's kind sets its band of confidence; the views agree on the machines; no tool is silently absent; a beacon is judged by its connections |
| Baseline | a delta names exactly what is new or stronger since the digest, up to its cap; a merge is never invented |
| Redactor, enrichment | one token per value; a private address never leaves |
| Subprocess runners | concurrent creation of rule links ends in a usable link set |

## 2. Plan

Done, in this order, the most important behaviour first:

1. `CaseStore` (with `CaseStoreProperties`, `CaseLedger`): what every surface shares and where evidence can be lost.
2. `ConfigStore` (with `KeyTable`): the other file several processes write.
3. `AnalyzeStream`: the request handler, over case-store calls taken as single steps.
4. `GuiSession`: the browser session, composed with `AnalyzeStream` by `EXTENDS`.
5. `BuildRecords` (with `BuildProperties`): `build_records`, over `Adapters` and `Registry` (what each tool's output becomes) and composed with `RuleLinks` (the link every Hayabusa run sees to first).
6. `Analysis`: a case that grows and is looked at again, over `EventTable`, `Correlation` and `Recipes`.

To come:

7. `AnalyzeStream`'s `Build` as an abstraction of `BuildRecords`, and its `Analyze` and `Report` of `Analysis`: a file's records would be its adapter's, `seen` the events table.
8. Joining `AnalyzeStream` with the two-step `save_meta` of `CaseStore` (a case whose `case.json` is being rewritten looks free to `list_cases`); the hive registration endpoint, the CLI's `add` and the demo's reset as further actors.
9. `Redactor` (`redact.py`), the enrichment cache, the bundle writer and the MCP server's dispatch.

Of the safety properties the runs check one is proved in part only, `JoinKeys`; section 6 says which half and why.

A project of this size is read run by run, so there is one run per distinct question; where two questions can be asked of one instance they share it.

## 3. The modules and the code

**`CaseStore`** is one case on disk. `dir`, `metaState`, `meta`, `metaInc` are the directory and `case.json` (`metaState` distinguishes a file that was just truncated from a missing, a whole and a garbled one; `metaInc` is the identity of the file, so that a document written to an unlinked file is lost, as it is on a POSIX file system). `cur`, `made`, `db` are the database files: `cur` is the one the path leads to, `db` also holds unlinked files somebody still has open. A worker is a thread of the GUI or a CLI process; `pc`, `handle`, `loc` are where it is in its operation, the connection it holds and its local variables. Each operation of `case_store.py` is a sequence of actions, one per statement that touches the disk:

| Operation | Actions |
|---|---|
| `create` | `Create`, `CreateTables`, `Truncate`, `Write` |
| `append` | `AppendRecords`, `AppendOpen`, `AppendStart`, `AppendRaw`, `InsertRecords`, `StampTimes`, `AppendCount`, `Truncate`, `Write` |
| `connect` (+ `rebuild_events`), `analyze_case` | `Connect`, `RebuildOpen`, `RebuildRead`, `RebuildDrop`, `RebuildCreate`, `InsertRecords`, `StampTimes`, `RebuildClose`, `RebuildLoad`, `Truncate`, `Write`, `AnalyzeOpen`, `AnalyzeRead` |
| `save_analysis_digest` | `DigestLoad`, `Truncate`, `Write` |
| `note`, `set_infrastructure_ips` | `Note` / `SetInfrastructureIps`, `Truncate`, `Write` |
| `delete` | `Delete`, `Unlink` (per entry, in any order), `RmDir` |
| exceptions | `OpenRefused` (DuckDB's lock), `DbError` (a missing table or column), `Fail` (anything else, or the death of the process) |

DuckDB is external and modelled from its use: connections of one process to one path share an instance, a file open in another process is locked, each statement commits on its own, an `executemany` commits its rows in pieces. A batch stands for its records; two batches have one content signature iff they are the same value. Layouts are sets of columns, so that a case of an older or a wider version can be opened.

**`CaseLedger`** is what those operations promise to a caller, one step per call. `CaseStoreProperties` states the safety properties and the refinement mapping: a batch's copies are the copies of its last record, less what an append under way has inserted and not yet recorded; a case counts as open while `case.json` exists and nobody is creating or deleting it.

**`ConfigStore`** is `data/config.json` and its temporary name as inodes. `Call`, `Load`, `OpenTmp`, `WriteTmp`, `Chmod`, `Replace` are the steps of `set_api_key` / `set_setting` over `load` and `save`; `LoadUnreadable` and `LoadRaises` are the two ways reading goes wrong (the caught `OSError`, the `UnicodeDecodeError` nobody names); `Stop` is an exception or a death at any step, in the middle of a write included. `blind` remembers that a call did not see the document it is about to replace. **`KeyTable`** is the promise.

**`AnalyzeStream`** is `POST /api/analyze`. `req[r]` is the request with its form fields and the generator's locals, one action per stretch between two awaits or per call made in an executor thread: `Receive` (the mint of the id), `Refuse`, `Build`, `Persist`, `Create`, `Append` and their refusals and failures, `Analyze`, `Report`. `Disconnect` cancels the generator at an await; a thread that is persisting runs on to its end (`gone`). `Delete` is the other endpoint that takes a case away. `told` and `deleted` are history: the files some delta has named as new, and the cases some client has deleted.

**`GuiSession`** extends it with the browser: `session[t]` is the JavaScript `session` object of a tab, `click` remembers (history) which tab and investigation sent which request, and `held` (history, too) what the cases held when a session last forgot what it had ingested (`Forget`: opening another case, resetting the session), and `Does` names what the analyst does beyond picking files and analyzing. Nothing in the page stops an analyst from clicking while an answer is awaited; `"overlap"` and `"turn away"` in `Does` let the model's analyst do so.

**`BuildRecords`** is one request to `build_records`, with the names of the code: `Stage` and `RunBatch` are the batch of EVTX files (`stage_batch_dir`, `run_batch`), `BatchFails` the fallback, `Start`, `ProcessEvtx`, `Collect`, `PoolEnds` the pool (a request with one EVTX file takes that road at once), `Skips` what Hayabusa passed over, then `Adapter`, `Pcap` and `ZeekMissing` one file after another, `Finish`. `Request[r].told` says whether the caller keeps a list of errors; without one, the first error is raised (`ReportOrRaise`), and leaving the pool's block waits for its tasks (`drain`). `made` counts how often each tool's reading of a file is in the records, which is what batch and fallback could get wrong; the records themselves are `Load(kind, content)` of **`Adapters`**. A file has a fate: `"corrupt"` is one Hayabusa skips with exit 0 and a line in its error log (which, with `Faults`, may be unreadable), `"fatal"` one that makes the process fail.

**`RuleLinks`** is `_ensure_rule_links`, one system call per step: `is_symlink`, `exists`, `readlink`, `unlink`, `symlink_to`, each seeing what the other runners have done to the link since. `BuildRecords` extends it: its batch, its pool's tasks and the `Peers` (another request of the installation) are runners.

**`Adapters`** and **`Registry`** are `load_records` of each adapter: which entries of a tool's output become records, which of the many names of a field is taken (`First`), what is put into which field, how a time is read, what raises and loses the file. A word is an artifact and what the tool wrote around it (quotes, arguments, a native prefix), a hash its algorithm and its artifact, a time the clock on the page and the zone beside it; a registry export is its lines, a Zeek directory its logs joined by `uid`. What a file is *about* and *when*, which the properties compare with the records, is part of the input of `MCIngest` and never read by the model. Which entries of a file are owed a record is read off the file by `Due` (`BuildProperties`), in the words of the tools and not by the adapters' own steps.

**`EventTable`** is what a record becomes in the `events` table: canonical names, realms, generic entities (`normalize.py`), techniques, tactics and phases (`attack.py`), evidence and `ts_parsed` (`store.py`). **`Correlation`** and **`Recipes`** are the queries of `correlate.py` and `recipes.py` as sets and functions over the table: a `GROUP BY` is a set of sets of rows, a window a function of the rows in the query's order, `NOT IN` over a NULL answers as SQL does; `Forest` is the union-find of `incident_clusters`, with `find`'s path compression; its loop over the events is a recursive function of how many are through. **`Analysis`** puts them on a case: `Ingest` (an upload the case does not hold), `Declare` (infrastructure), `Analyze` (load the digest, analyze, delta, save the digest; the save may fail) and `AnalyzeBlind` (`case.json` cannot be read: no digest and no infrastructure). `told` is the answer, `seen` history: what the digest was taken of.

Composition: `GuiNext` takes `AnalyzeStream`'s actions as its server side, with the post, the delete and the close of a request joined to the browser's handlers; `Append`, `Create`, `Analyze` of `AnalyzeStream` are single steps for what `CaseStore` models statement by statement.

## 4. The runs

All but two (`stream`, `ingest`) check safety only, without fairness.

| Run | Question | Bounds | States |
|---|---|---|---|
| `ledger` | Is every call of one caller one call on the ledger; does `record_count` count the table? | 1 worker, 3 batches (2, 1 and 0 records), 4 operations, deletions, current and wider layouts | 17,987 |
| `recovery` | Does an analysis see every recorded source after operations cut short twice, over older, current and wider layouts? | 1 worker, 4 operations, 2 failures | 43,275 |
| `processes` | Do two processes, one of whose operations is cut short, keep ids unique, sources complete, events backed by raw records, the case rebuildable and every row stamped? | 2 workers, 3 operations, 1 failure, older layout | 179,687 |
| `upgrade_append` | refutes `NotDoubled` | 1 worker, no failure | (10 steps) |
| `config` | Is `config.json` only ever replaced whole, and is a set a one-key update? | 1 writer, unbounded calls and stops, 2 keys, 2 values, 3 inodes, garbled and undecodable first files, read errors | 831,965 |
| `config_torn` | refutes `SavedWhole` | 2 writers | (10 steps) |
| `stream` | Does every answer cover its upload, does no failure lose records, are deltas complete, is every request answered? | 2 requests, 1 file that may not parse, 2 ids to mint, failures, disconnects, deletions | 122,081 |
| `gui_patient` | Is no file stored twice while the session remembers it, and no case shared by accident, for an analyst who waits? | 1 tab, 3 requests, 2 files, 4 cases, 2 investigations; cases started, opened, continued, deleted, sessions reset | 87,961 |
| `gui_failures` | Is what the session skips in its case, when requests degrade, fail or break off? | 1 tab, 2 requests, 2 files, 3 cases | 210,172 |
| `gui_new_case` | refutes `IngestedHere` | 1 tab, 3 requests | (67 states) |
| `analysis` | Are clusters components and episodes sessions, do the views agree, are beacons judged by connections, does a delta tell what changed? | 5 uploads of 2 to 6 records by 8 tools, 3 of them in the case, in any order, analyses between them; a digest of 2 bridges, a triage list of 2 hosts, a gap of 2, one address that may be declared, faults of `case.json` | 3,348 |
| `ingest` | Is every file in records, each entry it owes one for with one, or in the errors, once, truly, and does every request end, while others fight over the link? Do the records say what the files do? | requests of 1 to 8 files of every kind, good, corrupt and fatal, equal names; 2 processors, 1 other runner, unreadable error logs, with and without a list of errors, with and without Zeek | 57,874 |

Why the bounds suffice. The batch sizes 2, 1, 0 tell apart a batch cut in the middle, one that cannot be, and the empty batch that has no signature. Three operations of two workers contain every pair that overlaps, plus the one that finds what they left; four of one worker contain create, append, a retry and an analysis. Two failures contain a failure of the recovery from a failure. Three database files cover delete, create, delete, create; a rebuild beside an append needs two workers. Two keys are needed to lose one, two values to see an old one return, three inodes for the two names and a file still open. Two requests contain every race of two uploads, 2 ids let both be minted; two files, used by the browser's runs, are what a set of ingested keys needs to differ from the case. The uploads of `analysis` are chosen so that each property has something to say: a user with two realms, one host in three spellings, a technique the map does not know, times with offsets and without, a packet capture with several rows per connection, a record without a source, a gateway that ties everything together until it is declared; three of five uploads in any order contain every pair and what a third adds to it, and a digest of two rows is exceeded. The requests of `ingest` contain a batch that succeeds, skips, fails and cannot be staged; three EVTX files on two processors keep one waiting; one other runner is enough to take a link away between two calls, and to lose the race oneself. `MaxRowId` and the counters are never reached before `MaxOps`. What each bound cuts off for safety is covered by the theorems of section 6, which have no bound.

`CHECK_DEADLOCK FALSE` stands where operations or requests are bounded: once they are used up the system stops (in `ingest`, when `build_records` has returned and the peers' link is settled, nothing need happen). `config` and `config_torn` have no such bound, and deadlock is checked there.

Every property of a passing run has a mutant of a mapped definition that refutes it; mutants stand beside the definition they replace, marked as such.

## 5. Fairness

`FairSpec` in `AnalyzeStream`: weak fairness of `Serve(r)` for each request. The event loop runs every ready task, the executor runs every submitted function, and the functions return (the parsers are bounded by their inputs, the subprocess runners by time-outs), so a request that can be served is served. Clients are not fair: they may never send, read or leave. Nor are deletions. `Answered` under it says that every received request ends with an answer or with its client gone, whatever fails.

`Spec` of `BuildRecords` has weak fairness of the request's own thread (`Main`) and of each task of its pool: threads of a live process are scheduled, and a Hayabusa run ends. The peers are not fair: another request's thread may stop anywhere, between its `unlink` and its `symlink_to` included. `Returns` says that `build_records` returns or raises all the same; that it waits for no peer is what makes it so.

## 6. The proofs

Checked by TLAPS for all values of the constants, from the named `ASSUME`s of the modules (types of the constants; nothing about sizes).

| Theorem | Says | Rests on |
|---|---|---|
| `TypeCorrect` | `Spec => []TypeOK` of `CaseStore` | one lemma per action |
| `EventsAlwaysDerived` | `[]EventsDerived`, with deletions, failures, any workers | `DerivedInv` |
| `SourcesAlwaysBacked` | `Deletes = FALSE => []SourceBacked` | `KeptInv` |
| `AlwaysRebuildable` | `Deletes = FALSE => []Rebuildable` | `KeptInv` |
| `IdsAlwaysUnique` | `OnePerProcess => []EventIdsUnique`, with deletions and failures | `IdsInv` |
| `UntimedAlwaysOwned` | `[]UntimedOwned`, any workers | `StampsInv` |
| `CountsAlwaysAgree` | one caller, nothing cut short: `[]CountsAgree` | `CountInv` |
| `AnalysisAlwaysSees` | one caller, operations cut short anywhere: `[]AnalysisSeesEverySource` | `SeenInv` |
| `StoreIsLedger` | one caller, nothing cut short, layouts with room: `CaseStore` implements `CaseLedger` | `LedgerInv` |
| `AlwaysWhole` | one writer: `SavedWhole` | `FileInv` |
| `WriterImplementsTable` | one writer: `ConfigStore` implements `KeyTable` | `IInv` |
| `ConfigTyped` | `[]TypeOK` of `ConfigStore`, any number of writers | `Opened` |
| `StreamTyped`, `AlwaysTold` | `[]TypeOK`, `[]AllTold` of `AnalyzeStream` | inductive as they stand |
| `OwnUploadSeen` | `[]SeesOwn` of `AnalyzeStream` | `StreamInv` |
| `EvidenceKept` | `[]NoEvidenceLost` of `AnalyzeStream` | `StreamInv` |
| `SessionTyped` | `[]SessionTypeOK` of `GuiSession` | `GuiTypes` |
| `GuiImplementsStream` | `GuiSpec => Spec`: browser and server together are a behaviour of `AnalyzeStream` | `GuiTypes` |
| `SessionSeesOwn`, `SessionLosesNothing` | the two properties of `AnalyzeStream`, in the composition | `GuiImplementsStream` |
| `IngestedIsHere` | `Careful => (GuiSpec => []IngestedHere)` | `HereInv` |
| `InvestigationsApart` | `OneTab => (GuiSpec => []Apart)`, whatever fails | `ApartInv` |
| `FilesOnce` | `Sparing => (GuiSpec => []OncePerCase)` | `OnceInv` |
| `AnalysisTyped` | `NoneIsNoDigest => []TypeOK` of `Analysis` | `TypeInv` |
| `ConfidenceBands` | `BandsHold` for every table | the arithmetic of `Confidence` |
| `HostsAlwaysAgree` | `HostsAgree` for every table and limit of the triage list | `TableOK`, `BusiestExist` |
| `NobodySilentlyAbsent` | `NoSilentAbsence` for every table, window and limit | `TableOK`, `BusiestExist` |
| `EpisodesFindSessions` | `EpisodesAreSessions` for every table and gap | `TableOK`, `NumbersAreOpeners` |
| `BeaconsJudgeConnections` | `BeaconsByConnection` for every table | `TableOK`, `StartsAreFirsts`, `GapsCounted` |
| `ClustersFound` | `ClustersAreComponents` for every table | `TableOK`, `ForestIs` |
| `MergesAreMerges` | `MergedIsMerged` for any uploads, declarations and faults | `DigestOfSeen`, `Began`, `ComponentGrows` |
| `BridgesAreTold` | `BridgesTold` for any uploads, declarations and faults | `DigestOfSeen` |
| `LinksSettle` | `[]LinkSettles` of `RuleLinks` | `Owed`, `Stale`, `Own` |
| `FollowsRuleLinks` | `build_records` implements `RuleLinks` | types of the request |
| `BuildTyped`, `ContributesOnce`, `AlarmsAreTrue`, `NothingIsLost` | `BuildTypeOK`, `OnceOnly`, `NoFalseAlarm`, `NothingLostSilently`, for every request, number of processors and of peers | `BuildInv`; `NothingIsLost` also `Honest`, the lemmas `..Holds` |
| `BuildLinksSettle` | `LinkSettles` in the composition | `FollowsRuleLinks` |
| `ValuesBelong` | `ValuesUnderTheirKey`, for .reg exports of any length | `Honest`, `Through` |
| `TransactionsWhole` | `ZeekWhole`, for Zeek logs of any length | `Honest`, `Lists`, `Whole` |
| `BuildKeepsOneClock` | `OneClock`, for every file of every tool and every wording its adapter reads | `Honest`, the lemmas `..Made` and `..OnTime` |
| `BuildWritesBareKeys` | `KeysBare`, the first half of `JoinKeys` | `Honest`, the lemmas `..Made` and `..Bare` |

The proofs stand in eight modules. `CaseStoreProofs` (types), `CaseStoreSafetyProofs` (several workers) and `CaseStoreCallerProofs` (one caller) build on each other, as `GuiSessionProofs` does on `AnalyzeStreamProofs`; `ConfigStoreProofs`, `AnalysisProofs` and `BuildProofs` (which holds `RuleLinks`, too) stand alone.

*`DerivedInv`.* `EventsDerived` alone is not inductive: a worker about to insert events must have its raw rows in already, and that depends on where it is. `WorkersOK` says so per worker: its handle is a file (`HandleOK`); an append past its raw rows has all its records in `raw` of the file it has open, one in the middle has its first `done` of them (`AppendOK`); a rebuild's records came from that file (`RecsOK`). It holds under deletions because files are values of their own: unlinking one does not change it under an open handle.

*`KeptInv`.* That recorded sources are complete needs that the path and every handle lead to the same file (`PathOK`), that a readable case has its tables (`TablesOK`), and that also the metadata a worker is *going to* save records complete sources only (`SourcesOK`). Deletions break `PathOK`, hence the hypothesis; with deletions the property itself is false, as a rebuilt or appended old database can outlive the case.

*`IdsInv`.* Each append numbers its rows from one past the largest id it has read, a rebuild from zero, so uniqueness needs what an inserting worker knows to be below its next id (`IdsOK`), that a rebuild starts from an empty table, and that nobody else is in the file: `Exclusive`, DuckDB's lock between processes, and `OnePerProcess`, without which two threads of one process share an instance and give the same ids (section 9). The GUI serves its analyses in one process and DuckDB keeps any other out, so the hypothesis is about two requests of one server.

*`StampsInv`.* A row of `events` without a stamp has a worker that inserted it and is yet to stamp it (`Stamps`). That worker's `INSERT` must not be refused in between, hence the columns in `Stamps`; and a table that does not exist has no rows (`LaidOut`).

*`CountInv`*, *`SeenInv`*, *`LedgerInv`.* With one caller the case between two operations is in order or gone (`AtRest`), and `InHand` says at every statement how far the operation in hand has taken it: which tables there are, how many rows the document on disk still owes. After failures `record_count` may be wrong, but what an analysis reads is not: `Honest` is what any document that may be written claims of the tables (`InRaw`; `InEvents` only under the code's own fingerprint, so that a rebuild cut short leaves a document nobody trusts), `Progress` how far each operation has got in making it so. `LedgerInv` adds what the document in memory adds to the one on disk (`Adds`), from which each step is one of the ledger's or none: the call takes effect at the write of `case.json`. `WideLayouts`, that every older layout has room for the code's columns, excludes the append of section 9 that fails on its `INSERT`; `MaxFaults = 0` the one that is repeated after a failure. Two callers lose each other's entries.

*`IInv`.* Between opening the temporary file and renaming it, it holds what the one writer's step has put there (`TmpOK`), and the document in memory is the stored one, or, for a call that could not read it, an empty one, with one key changed (`DataOK`). Neither holds for two writers, and `config_torn` shows what then happens.

*`StreamInv`.* `ServedOK` says of a request, at each step, what its case already holds (after `Append`, all of its records); `Grows` that no step takes a file from a case that was never deleted, so that what one request established others do not undo; `NothingHidden` that a case that does not exist hides no records a `Create` would lose.

*`HereInv`.* `IngestedHere` relates the session to a case, but changes when an answer is read, which may be long after the request was sent. `SentOK` says what the server has established of a request by then (past the append the case holds every file sent; the case is the one asked for; a client that has gone reads no answer), `AwaitedOK` that the tab that waits for it still names the case it asked for and waits for no other, `HereOK` that a session without a case has ingested nothing. The hypothesis `Careful` is exactly what section 9 shows to be needed: the analyst waits, does not use "start a new case" or "continue this case", the files parse and nobody deletes.

*`ApartInv` and `OnceInv`.* Both follow an analyst who waits in one tab (`OneTab`: no second click while an answer is awaited, no turning away from it, no lost connection), for whom at most one request is live and the session still is the one that sent it (`SentBy`). `ApartInv` says that of the uploads meant for a case of their own a case holds one investigation's (`HoldsOK`), and that this is the investigation of a request that has its case (`MintsOK`) and of the session that names it (`OwnsOK`); it holds under failures of the case, unreadable files and deletions, so investigations meet in a case only where the analyst opened or chose it. `OnceInv` says that what the tab offers is not in its case (`OfferOK`) and that what a case holds the tab knows, or will know from the answer it waits for (`KnownOK`). Opening another case or resetting the session empties the set of ingested files and lets the session's files be stored once more; `held` follows that, and the bound of `OncePerCase` with it, so `Sparing` need not exclude them. It excludes what section 9 shows to double a file without the session's forgetting: picking it again, and a failure after the append, which leaves the file stored and unmarked.

*`TableOK` and the sections of an analysis.* What these theorems need of a state is only that the events table is a sequence of records, finitely many and each timed by an integer or not at all; the rest is about the queries. An `ORDER BY` with a `LIMIT` is a choice among the busiest (`BusiestExist`), a window's running sum counts the openers before a row (`NumbersAreOpeners`), and `lag()` over the starts of connections pairs each but the first with the one before it (`GapsCounted`). `UploadsAssumption` says that no tool is literally called "(unnamed source)", what `coalesce` puts for a missing one: the names are fixed in the adapters. `NoneIsNoDigest` is that the model value for "no digest" is none of the digests.

*`ForestIs`, the union-find.* That `find` ends and is a function of its node needs that parents have a measure that strictly descends (`Descends`; a forest *on* a set is one that has such a measure, `ForestOn`); from it `RootEquation` shows, by a least counterexample on the nodes up from one (`Trail`), that the recursive `find` satisfies its own equation. Then path compression changes no root (`CompressedIs`), a union puts exactly the nodes of one root under the other's (`UnionIs`), and an event brings its own entities under one root, keeps together what was, and separates nothing it does not name (`UnionRowIs`). The loop over all events carries three facts: the forest is one, the entities of every event so far have one root, and every set no event reaches across (`Whole`) is respected by the roots. The third, for the part of a component that no link leaves, is why a component does not fall apart.

*`Began` and the merges.* `Merged` compares two numbers, and the property speaks of sets: that the table the digest was taken of is the head of the table now (`Began`) makes each earlier component part of one now (`ComponentGrows`: the grown component is `Whole` for the earlier table) and each earlier cluster part of a cluster (`ClusterGrows`: entities and sources only become more). A list shorter than an earlier one is below the limit, so nothing was cut from it (`ListOfClusters`, which needs that the first n in the order of depth, sources and entities exist), and more earlier clusters than present ones put two into one.

*`DigestOfSeen`.* What a delta compares with is the digest in `case.json`, and the property speaks of the case when it was taken: the invariant is that the digest *is* that of `seen`, or there is none; failed saves leave both alone.

*Rule links.* A runner may take the link away and fail before it makes it again. `Owed` says that while it is missing somebody is about to make it, or nobody has got far enough to have removed it; `Stale` where runners can be while a stale link stands; `Own` that an own directory is passed by.

*`BuildInv`* is a conjunction, one part per question: `TypeInv`; `Fresh` (what is still to be read has contributed nothing, in particular after a failed batch); `Single` (nothing more than once); `Alarms` (an error's file has contributed nothing and will not); `SkippedFiles` (a name in `evtx_skipped` is the caller's name of a corrupt file, through the staging and back); `Nothing` (a file that has had its turn is in records, in the errors, about to be told of, or among the `unread`). That a file in records has one for each entry it owes (`Due`) is about its adapter, and a lemma of each says it (`..Holds`), from what its records are selected from (`SelectedHas`, `FlattenHas`); for a .reg export it comes from `ParseIs`.

*`Honest`.* The four theorems about what the records say rest on one more invariant of `build_records`: whatever its order, batches, failures and retries, the records of a file by a tool are there only if the file is of a kind the tool reads and not one it fails on (`Reads`). From there on the argument is about the adapters, which are functions of a file.

*`Through`.* What `parse_regfile` has after n lines: its current key is that of the last line up to n that opened a key, or none if that line deleted one; every record so far is of a line read, under the key that stood above it then; and every value under a key has its record. `StepThrough` carries it over one line, kind by kind, and `ParseIs` over the loop. `ExportAssumption` is about the input: lines are told apart by their numbers, and a line that opens a key has a name for it, the text between its brackets.

*`Lists` and Zeek.* `ZeekWhole` counts records, and records are built by selecting from sequences and concatenating them. `Lists(q, I, F)` says that the sequence `q` has the value `F[i]` once for each place `i` of `I`; selecting, mapping, concatenating two sequences and flattening a sequence of them preserve it (the provers cannot instantiate the operator a `SelectSeq` takes, so these lemmas are about `Selected`, which takes the set of places instead). With it a connection's records are its transactions (`MergeConnIs`), or the connection alone, and all of them those of the rows of conn.log; a row whose `uid` is another's would be in both, which is what `ZeekAssumption` rules out: logs are sequences, rows of the three transaction logs have numbers of their own, and the id of a connection is one row's of conn.log.

*One clock.* For each adapter a lemma says what each record is made of and from which entry (`..Made`), and another that its time then is that entry's (`..OnTime`), through the formats, zones and years the adapter converts. What remains is to tie the instant an entry *states* (`when`, which the property reads) to what is written beside it (`Clock`): `ClockAssumption` says that they agree, that packets are stamped in seconds since 1970, and that entries have numbers. A line of a THOR report is of the year the report's name says; where it says none (`Yearless`) the assumption and the property speak of the day in the year only, and nothing is claimed of the year the adapter takes from the file's own. A registry value's time is the export's or its key's; a connection and a row of THOR's hash list have no single time of their own, and the assumption states none. Of CrowdStrike's stamps and of access lines in another kind of log it assumes nothing about the wording: where the adapter does not read it (`Foreign`) the theorem says the record has no time, rather than a wrong one.

*Bare keys.* A name reaches its record through whatever the tool puts around it: quotes, arguments, the native prefix, a missing extension. `WordAssumption` says which tool puts what: only a registry has commands, only MFTECmd parts a name from its extension, and a hash stands under its algorithm's name; that the other tools write a path as it is the adapters rely on, too. The lemmas `..Bare` show that each adapter takes off what its tool put on, `ProgramBare` for the command lines in a registry value, of which the first or the last that names a program counts.

Only model-checked: the second half of `JoinKeys`, that what an entry (one that is owed a record, `Due`) is about is found in its record under the field an analyst would look in. For all files that would need a definition of what an entry is about, and none exists in the code but the field tables of the adapters themselves; the theorem would compare them with their copy. The instance gives its files an `about` of its own instead. And, because liveness under fairness and `ENABLED` are outside the prover's reach, `Answered` and `Returns`. What holds for one worker, one caller or one waiting analyst by theorem is checked by runs with more of them where it still holds (`processes`, `gui_failures`).

On induction: the library's induction theorems take the formula as a parameter, which none of the installed provers can instantiate. Where an argument needs induction over a finite set or a number, it goes by a least counterexample instead: `LeastNat` and `FiniteGreatest` derive from the well-foundedness of strict inclusion among finite sets that every non-empty set of naturals has a least element and every finite set a row with the greatest number, and `LoopExists` that a loop of finitely many steps has its values, without which a recursive function's equation could not be used. `RECURSIVE` operators are avoided in all modules that are proved about: sequences are described by quantifiers over their indices, and the loops of the code by recursive functions of how far they have got.

## 7. Abstractions

- In `CaseStore` records have no content beyond their batch and position; events differ from raw records by id and the `ts_parsed` stamp, and `AnalyzeRead` looks at which rows are there. What the rows say is the subject of `Analysis`, which takes the case's own steps as atomic.
- Ties: `host_killchain` breaks them by the host's name and `technique_catalog` by the technique's, names are not ordered in the model, and which of the tied is kept at the limit is left to the choice of `FirstOf`.
- A spelling of an entity is its canonical name, its realm and a form; the characters of a name, and which of them a canonicalisation strips, are not modelled, nor is the technique map itself: the maps, the generic names, event ids and tactic abbreviations are constants.
- Times are minutes, confidences hundredths, and a display column (names joined to one string, reasons, explanations, percentages) is left out.
- An entry of a tool's output is read; CSV, JSON and registry syntax is abstracted to kinds of entries and lines (`doc`, `junk`, `blank`, a line that continues the one before).
- In `BuildRecords` a tool is one step, and its failure the file's fate.
- A crash loses nothing that was committed or written: the operating system keeps running, so no `fsync` is modelled.
- `Faults` in `AnalyzeStream` are failures of the case's files and of the build; the analysis in memory does not fail.
- In `AnalyzeStream` a call on the case store is one step, and a file stands for the records it parses to.
- The configuration file's mode and the environment overrides are left out, as are progress events and the temporary upload directory, which carry no result.
- A step that changes several fields of one entry is written with a single `EXCEPT` per index (`[f EXCEPT ![i] = [@ EXCEPT !.a = .., !.b = ..]]`), the form the prover reads as TLC does. For the same reason the arms of a `CASE` exclude each other where a proof needs them.

## 8. What is not modelled

Decoders (pure functions on strings), report writers and the attack map (formatting of a finished result), bundles (a snapshot written once into a new directory), the redactor, the enrichment client and its cache, the MCP server (dispatch to modelled functions), the demo data and evaluation tools, the scoring and compliance calculators, which share no state with the analysis. The redactor, enrichment, bundles and the MCP server are planned (section 2).

Of modelled parts: the progress callbacks of a request (an event put after the last look at the queue, `app.py:313`, is never sent; no result depends on it), the notes, infrastructure, export and hive endpoints of the server, the caps on how many records an answer carries, Hayabusa's command-line-only subcommands, the character rules of `normalize.py`.

## 9. Where the code and its promises part

Shown by a run:

- `upgrade_append`: `append` does not compare the layout as `connect` does. On a case written before a column was added it stores the raw rows, fails on the events, and stores the raw rows again when repeated.
- `config_torn`: all writers share `config.json.tmp`.
- `gui_new_case`: the case bar forgets the case's id and keeps the set of files ingested into it.

Met while modelling and reproducible by changing a constant or adding a one-line property, but not kept as runs:

- `connect` decides to rebuild from a fingerprint read before the database is open (`case_store.py:255`). The later of two openers drops the events the earlier has just rebuilt and recorded; if it is cut short there, the case answers from an empty table from then on (`AnalysisSeesEverySource` with two processes, one failure and an older layout).
- An append that fails between its rows and `case.json` (`MaxFaults = 1` in `upgrade_append`'s instance with the current layout) is not refused when repeated, and its rows double; the next batch's raw ids then start at the failed one's, so `ORDER BY id` is no longer the insertion order.
- Two operations on `case.json` that overlap: the later save drops the earlier one's note, source or list (two workers under `ImplementsLedger`).
- A deletion that fails after `case.json` leaves the database, and the next `create` takes it over, records included, under `record_count` 0.
- Two threads of one process: a rebuild under a running analysis shows it an empty or half-filled table, and two appends use the same event ids (`AnalysisSeesEverySource` or `EventIdsUnique` with `OneProcess`).
- Two writers of the configuration that loaded before either saved: the later save takes back the earlier one's key. A transient read error erases the other keys with the next set. A file that is not UTF-8 makes `load` raise, although "a missing or corrupt file is not fatal".
- Two uploads that arrive before either case is on disk mint the same id (`Apart` with two tabs). An answer that arrives after "new session" gives the new session the old one's case (`"turn away"`).
- "A file is offered once per case" (`lib.js:230`) does not hold of a case that is left and opened again: `openCase` empties the set of ingested files, and the case gets the session's files once more (`gui_patient` reaches this; `OncePerCase` allows it, by `held`, and nothing beyond it). A file is also stored twice when a second Analyze starts before the first answer (`"overlap"`), or when it is picked twice (`"repick"`); a file of the upload that could not be parsed is marked as ingested all the same (`Unreadable` in `gui_failures`).

Met while translating the runner, the adapters and the analysis. Where a property would fail on it, the property names the exception (`unread`, `Unspoken`, the digest's cap, rows without a port) or the instance leaves the case out:

- *Runner.* Two unreadable EVTX files of one base name give one report (`runner.py:203`); the reason stated for it, a batch that fell back reporting each file twice, does not occur. YARA rules that do not compile, a target that cannot be read and a missing rule library are said on the server's terminal only, never in `errors`. `failed_files` is best effort: a corrupt file whose error log cannot be read is lost without a word, and two Hayabusas that start in one second share a log name. A file literally called like a staged twin (`001_X`) makes staging fail, and the request takes the slow road, reported.
- *Rule links.* `hayabusa_runner.py:17` calls the links idempotent. Two runners that race may fail their file on `FileExistsError` or `FileNotFoundError` (reported), and one whose freshly made link is removed by another runs without the community rules.
- *Registry.* A comment that ends in a backslash swallows the line after it, a key line included. `registry_asep.py:81` says both adapters discard a record that is no persistence; `parse_regfile` keeps it.
- *Reports of failure.* `runner.py:119-134` promises that a source that cannot be read is appended to `errors`; a reading that yields nothing raises nothing, so the two kinds of file in `Unspoken` are in neither.
- *Times.* A THOR report without a year in its name stamps its lines with the year of the file's modification: December lines of a report copied in January are a year late, and so are those of a scan that runs over New Year, year in its name or not. One impossible date with an offset, or a number for a time, loses its whole log file (reported). CrowdStrike's LogScale parser drops a stamp that is no number of milliseconds, the clipboard parser one that is not "(.. UTC)", and an access log's date in another kind of log is left out: the record stays, without a time. A JSON line that states its time in two keys has the last one's.
- *Zeek.* Entries whose `uid` has no connection are dropped ("nothing is dropped" says the docstring of `_merge_logs`), and a connection's first notice is copied onto each of its transactions.
- *Truncated documents.* A JSON document cut short yields nothing and no error in the osquery, CrowdStrike and MFT adapters; osquery rows without `unixTime` are dropped. `osquery_result.py:213` names the process of a row by the category of the query's name or its columns `cmdline` and `pid`, not by the category it ends up with, so a row known for a process by `parent` alone has no process name.
- *Correlation.* `correlate.py:196` says an ambiguous bridge never outranks a certain one; an ambiguous user (0.40) outranks an exact file or address. Bridges beyond the digest's cap are told as new at every analysis. `clusters_merged` misses a merge made by an event that names no new entity. `first_seen` takes the least spelling of a time, not the least instant. `beaconing` falls back to row ids for missing source ports, which may collide with ports.
