---------------------------- MODULE BuildProperties ----------------------------
(***************************************************************************)
(* What build_records promises of a request (BuildRecords), read against   *)
(* what an analyst who opened the files by hand would see in them.  That   *)
(* is part of a file as                                                    *)
(*   about  - triples <<entry, field, word>>: the artifacts it names       *)
(*   when   - pairs <<entry, minute>>: the instants it states              *)
(* and the program never looks at either.                                  *)
(***************************************************************************)
EXTENDS BuildRecords

Came(i, tool)    == made[<<i, tool>>] > 0
Told(what, name) == Error(what, name) \in errors

\* The tool that reads a kind of file (captures have Zeek as well).
ToolOf(kind) == CASE kind = "evtx" -> "hayabusa" [] kind = "pcap" -> "tshark" [] OTHER -> kind

\* The records a tool's reading of a file is made of.
RecordsOf(i, tool) == IF tool = "zeek" THEN Zeek(Files[i].content.zeek) ELSE Read(Files[i]).records

\* The two kinds of file that come to nothing without a word: one JSON
\* document that is cut short, and a YARA run whose rules do not compile or
\* that cannot read its target (said on the server's terminal only).
Unspoken(f) ==
    \/ /\ f.kind \in {"mft", "osquery", "crowdstrike"} /\ f.content.shape = "document"
       /\ \E i \in DOMAIN f.content.entries : f.content.entries[i].kind = "junk"
    \/ /\ f.kind = "yara" /\ f.content.library
       /\ f.content.rules # "good" \/ \E i \in DOMAIN f.content.target : f.content.target[i].unreadable

\* Line i of a .reg export is a value, under the key the last key line above it
\* opens.  A line that continues the one before it is none of these.
Begins(lines, i)   == i = 1 \/ ~lines[i - 1].continues
KeysTo(lines, i)   == {j \in 1..i : Begins(lines, j) /\ lines[j].kind \in {"key", "deleted key"}}
KeyLine(lines, i)  == lines[Max(KeysTo(lines, i))]
Owned(lines, i)    ==
    /\ Begins(lines, i) /\ lines[i].kind \in {"value", "deleted value"}
    /\ KeysTo(lines, i) # {} /\ KeyLine(lines, i).kind = "key"

\* The entries a file owes a record each, by their numbers.  The others are left
\* out by rule: what is no object or line of its tool's, packets without address
\* or DNS name, values under no key of a .reg export, values of a hive whose key
\* is no place of persistence or states no time, unnamed MFT entries without a
\* number, THOR's lines without a score and rows without an md5, targets no YARA
\* rule matches, osquery's rows without a time, blocks copied from CrowdStrike that
\* say nothing.
Due(f) ==
    LET c             == f.content
        docs(rows)    == {r \in ToSet(rows) : r.kind = "doc"}
        numbers(rows) == {r.n : r \in rows}
    IN CASE f.kind \in {"evtx", "evtx_full"} -> numbers(docs(c))
         [] f.kind = "pcap" ->
               numbers({p \in ToSet(c.packets) : \E k \in {"src", "src6", "dst", "dst6", "query"} : Get(p, k) # None})
         [] f.kind = "log" ->
               numbers({l \in ToSet(c) : l.kind # "blank" /\ (Sniff(c) = "jsonl" => l.kind = "json")})
         [] f.kind = "registry" -> {c.lines[i].n : i \in {j \in DOMAIN c.lines : Owned(c.lines, j)}}
         [] f.kind = "hive" ->
               LET path == PathOf(c)
                   kept == {i \in DOMAIN c : path[i] # None /\ ClassifyKey(path[i]) # None /\ c[i].time # None}
               IN  UNION {numbers(ToSet(c[i].values) \ {None}) : i \in kept}
         [] f.kind = "mft" -> numbers({e \in docs(c.entries) : e.entry \notin {None, 0} \/ e.name # None})
         [] f.kind = "thor" ->
               IF c.report # None THEN numbers({l \in docs(c.report.lines) : l.score # None})
               ELSE IF c.md5s # None THEN numbers({r \in docs(c.md5s) : r.md5 # None}) ELSE {}
         [] f.kind = "yara" -> numbers({t \in ToSet(c.target) : t.matches # <<>>})
         [] f.kind = "osquery" -> numbers({e \in docs(c.entries) : e.ts # None /\ e.ts.form = "epoch"})
         [] f.kind = "crowdstrike" ->
               numbers({e \in docs(c.entries) :
                            c.shape = "clipboard" => DOMAIN e.d # {} \/ ClipboardTime(e.ts) # None})

-----------------------------------------------------------------------------

\* Every variable has its type.
BuildTypeOK ==
    /\ LinkTypeOK
    /\ job \in DOMAIN Request
    /\ pc \in {"stage", "batch", "pool", "drain", "skips", "rest", "done", "raised"}
    /\ next \in 1..Len(Files) + 1
    /\ \A e \in errors : e.name = None \/ \E i \in DOMAIN Files : e.name = Files[i].name
    /\ made \in [(DOMAIN Files) \X Tool -> Nat]
    /\ skipped \subseteq {Files[i].name : i \in Evtx}
    /\ worker \in [Evtx -> {"pending", "running", "ran", "raised", "collected"}]
    /\ noZeek \in BOOLEAN /\ unread \subseteq Evtx

\* What came of a file: a record at least of every entry it owes one.
Whole(i, tool) == \A n \in Due(Files[i]) : \E r \in ToSet(RecordsOf(i, tool)) : r.of = n

\* "Failure of a single file does NOT abort the batch - the error is appended":
\* at the end of a request every file is in records, each entry it owes one for
\* with a record at least, or stands in the list of errors under the name the
\* analyst gave it, however its turn went: the batch, the pool the batch fell
\* back to, a file Hayabusa skipped in silence; and so does a capture Zeek
\* did not read.  What is lost besides is in the files of Unspoken, and what
\* Hayabusa skipped when no error log could be read for it.
NothingLostSilently ==
    (pc = "done" /\ Listed) =>
        \A i \in DOMAIN Files :
            /\ \/ Came(i, ToolOf(Files[i].kind)) /\ (Unspoken(Files[i]) \/ Whole(i, ToolOf(Files[i].kind)))
               \/ Told(Files[i].kind, Files[i].name)
               \/ i \in unread
            /\ Files[i].kind = "pcap" /\ Came(i, "tshark") =>
                 Came(i, "zeek") \/ Told("zeek", Files[i].name) \/ Told("no zeek", None)

\* No false alarm: an error that names a file names one of the request's, of
\* that kind, which that tool contributed nothing of - never the name a
\* batch staged a twin under, and never a file that was read after all.
NoFalseAlarm ==
    \A e \in errors : e.name # None =>
        \E i \in DOMAIN Files :
            /\ Files[i].name = e.name /\ e.what \in {Files[i].kind, "zeek"}
            /\ ~Came(i, IF e.what = "zeek" THEN "zeek" ELSE ToolOf(e.what))

\* A file contributes once by each of its tools: what a batch had written
\* when it failed is not counted beside what the pool reads again.
OnceOnly == \A c \in DOMAIN made : made[c] <= 1

\* A request comes to an end: neither a failed batch, a worker that raised
\* nor a race for the rule links leaves build_records waiting.
Returns == <>(pc \in {"done", "raised"})

-----------------------------------------------------------------------------
(* What the records say                                                     *)

\* A sequence.
InOrder(s) == Len(s) \in Nat /\ DOMAIN s = 1..Len(s) /\ (s = <<>> <=> Len(s) = 0)

\* The lines of a .reg export are told apart by their numbers, and a line that
\* opens a key names it.
ASSUME ExportAssumption ==
    \A r \in DOMAIN Request : \A f \in DOMAIN Request[r].files :
        Request[r].files[f].kind = "registry" =>
            LET lines == Request[r].files[f].content.lines IN
            /\ Len(lines) \in Nat /\ DOMAIN lines = 1..Len(lines)
            /\ \A i \in DOMAIN lines :
                 /\ "kind" \in DOMAIN lines[i] /\ lines[i].n # None
                 /\ \A j \in DOMAIN lines : lines[i].n = lines[j].n => i = j
                 /\ lines[i].kind = "key" => lines[i].key # None /\ lines[i].key.name # None

\* A row of Zeek's logs is told apart by its number, and the id of a connection
\* is one row's of conn.log.
Logs(z) ==
    /\ \A log \in {"conn", "dns", "http", "ssl", "notice"} : InOrder(z[log])
    /\ \A i \in DOMAIN z.conn : z.conn[i].n # None
    /\ \A i, j \in DOMAIN z.conn : z.conn[i].uid = z.conn[j].uid => i = j \/ z.conn[i].uid = None
    /\ \A a, b \in {"dns", "http", "ssl"} :
         \A i \in DOMAIN z[a], j \in DOMAIN z[b] : z[a][i].n = z[b][j].n => a = b /\ i = j

ASSUME ZeekAssumption ==
    \A r \in DOMAIN Request : \A f \in DOMAIN Request[r].files :
        Request[r].files[f].kind = "pcap" /\ Request[r].files[f].content.zeek # None => Logs(Request[r].files[f].content.zeek)

\* What stands around a name and would keep it from being the same as another
\* tool's.
Wrapper == {"quoted", "args", "nt", "extensionless"} \cup Unreadable

Plain(w)    == w = None \/ w.around \cap Wrapper = {}
FileHash(w) == w = None \/ w.of[1] # "IMPHASH"
Bare(r)     == Plain(Get(r, "file")) /\ FileHash(Get(r, "hash"))

\* What the fields of an entry say in a file's name and a file's hash.
Says(d, names, hashes) == (\A k \in names : Plain(Get(d, k))) /\ (\A k \in hashes : FileHash(Get(d, k)))

\* CrowdStrike's fields, of a block that was copied and of an event.
Detected(d) == Says(d, {"File name", "File path"}, {"SHA 256", "SHA256HashData"})

\* What each tool writes: only a registry has commands in it and only MFTECmd
\* parts a name from its extension, and a hash stands under its algorithm.
Worded(f) ==
    LET c          == f.content
        docs(rows) == {r \in ToSet(rows) : r.kind = "doc"}
        commands(data) ==
            InOrder(data) /\ \A w \in ToSet(data) : "around" \in DOMAIN w /\ "extensionless" \notin w.around
    IN CASE f.kind = "evtx_full" ->
               \A e \in docs(c) :
                  /\ Says(e.data, {"TargetFilename", "TargetName"}, {})
                  /\ \A k \in {"Hashes", "Hash"} :
                        Get(e.data, k) # None => Says(Get(e.data, k), {}, {"SHA256", "SHA1", "bare"})
         [] f.kind = "log" ->
               \A l \in ToSet(c) : \A p \in ToSet(l.fields) :
                  /\ p[1] \in GroupMap.file => Plain(p[2])
                  /\ p[1] \in GroupMap.hash => FileHash(p[2])
         [] f.kind = "registry" -> \A l \in ToSet(c.lines) : commands(l.data)
         [] f.kind = "hive" -> \A key \in ToSet(c) : \A v \in ToSet(key.values) : v # None => commands(v.data)
         [] f.kind = "mft" ->
               \A e \in docs(c.entries) : e.name # None =>
                  /\ "around" \in DOMAIN e.name /\ e.name.around \cap Wrapper \subseteq {"extensionless"}
                  /\ e.extension = None => Plain(e.name)
         [] f.kind = "thor" ->
               /\ c.report # None =>
                     \A l \in docs(c.report.lines) :
                        Says(l.primary, {"FILE"}, {"SHA256"}) /\ Says(l.linked, {"FILE"}, {"SHA256"})
               /\ c.md5s # None => \A r \in docs(c.md5s) : Plain(r.path)
         [] f.kind = "yara" -> \A t \in ToSet(c.target) : Plain(t.path)
         [] f.kind = "osquery" -> \A e \in docs(c.entries) : Says(e.columns, {"target_path"}, {"sha256"})
         [] f.kind = "crowdstrike" -> \A e \in docs(c.entries) : Detected(e.d)
         [] OTHER -> TRUE

ASSUME WordAssumption == \A r \in DOMAIN Request : \A i \in DOMAIN Request[r].files : Worded(Request[r].files[i])

\* The records of the request, with the file they are of.
Rows == UNION {{<<c[1], r>> : r \in ToSet(RecordsOf(c[1], c[2]))} : c \in {d \in DOMAIN made : made[d] > 0}}

\* The names of files are bare of quotes, arguments and native prefixes and
\* have their extension, whichever tool wrote them, and a file hash is never the
\* hash of its import table.
KeysBare == pc = "done" => \A row \in Rows : Bare(row[2])

\* Records of different tools can be joined: what they name is bare, and a
\* file, a hash or a program an entry names is a field of its record, whichever
\* tool wrote it.  The exceptions are the files of Unspoken and the entries
\* that are owed no record (Due); of a list of programs the last is meant.
JoinKeys ==
    /\ KeysBare
    /\ pc = "done" =>
          LET rows == Rows IN
          \A i \in DOMAIN Files :
             Came(i, ToolOf(Files[i].kind)) /\ ~Unspoken(Files[i]) =>
                \A a \in {b \in Files[i].about : b[1] \in Due(Files[i])} :
                    \E row \in rows :
                        /\ row[1] = i /\ row[2].of = a[1]
                        /\ a[2] \in DOMAIN row[2] /\ row[2][a[2]].of = a[3]

\* The times that are written down; a packet's is in seconds since 1970.
Time == [form : {"iso", "ez", "epoch"}, local : Int, zone : Int \cup {None}]
Stamp(kind) == IF kind = "pcap" THEN {t \in Time : t.form = "epoch"} ELSE Time

\* A THOR report that says nowhere of which year its days are.
Yearless(f) == f.kind = "thor" /\ f.content.report # None /\ f.content.report.year = None

\* Entry n states its time as its adapter does not read one: CrowdStrike's blocks
\* in UTC and its events as a number, the date of an access log in that log.
Foreign(f, n) ==
    LET c == f.content IN
    CASE f.kind = "crowdstrike" ->
           \E e \in ToSet(c.entries) :
              /\ e.kind = "doc" /\ e.n = n
              /\ (IF c.shape = "clipboard" THEN ClipboardTime(e.ts) ELSE LogscaleTime(e.ts)) = None
      [] f.kind = "log" -> Sniff(c) # "access" /\ \E l \in ToSet(c) : l.kind = "access" /\ l.n = n
      [] OTHER -> FALSE

\* What a line of a log says of its time: a JSON object may say it in several keys.
LineTimes(l, shape) ==
    LET said == {p \in ToSet(l.fields) : p[1] \in GroupMap.ts /\ p[2] # None} IN
    IF shape # "jsonl" THEN {l.ts} ELSE IF said = {} THEN {None} ELSE {p[2] : p \in said}

\* The clock on each page of a file, as <<entry, time>>: what an analyst
\* would take for the time of the entry, or None for an entry that has none,
\* or more than one: a connection has its transactions'.  A report's lines are of
\* a day in its year.
Clock(f) ==
    LET c          == f.content
        docs(rows) == {r \in ToSet(rows) : r.kind = "doc"}
        beside(rows) == {<<r.n, r.ts>> : r \in rows}
    IN CASE f.kind \in {"evtx", "evtx_full"} -> beside(docs(c))
         [] f.kind = "pcap" ->
               beside(ToSet(c.packets))
                 \cup {<<r.n, None>> : r \in IF c.zeek = None THEN {} ELSE ToSet(c.zeek.conn)}
         [] f.kind = "log" ->
               UNION {{<<l.n, t>> : t \in LineTimes(l, Sniff(c))} :
                        l \in {x \in ToSet(c) : x.kind # "blank" /\ (Sniff(c) = "jsonl" => x.kind = "json")}}
         [] f.kind = "registry" -> {<<l.n, c.mtime>> : l \in ToSet(c.lines)}
         [] f.kind = "hive" ->
               UNION {{<<v.n, key.time>> : v \in ToSet(key.values) \ {None}} \cup {<<0, key.time>>} : key \in ToSet(c)}
         [] f.kind = "mft" -> {<<e.n, First(e.times, MftTimes)>> : e \in docs(c.entries)}
         [] f.kind = "thor" ->
               IF c.report # None
               THEN {<<l.n, Utc(IF Yearless(f) THEN l.ts.local ELSE c.report.year * YearLength + l.ts.local)>> :
                        l \in docs(c.report.lines)}
               ELSE {<<r.n, None>> : r \in IF c.md5s = None THEN {} ELSE docs(c.md5s)}
         [] f.kind = "yara" -> {<<t.n, t.mtime>> : t \in ToSet(c.target)}
         [] f.kind \in {"osquery", "crowdstrike"} -> beside(docs(c.entries))

\* What a file is made of is a sequence of entries, whose parts may be sequences.
Ordered(f) ==
    LET c == f.content IN
    CASE f.kind \in {"evtx", "evtx_full"} -> InOrder(c)
      [] f.kind = "pcap" -> InOrder(c.packets)
      [] f.kind = "log" -> InOrder(c) /\ \A l \in ToSet(c) : InOrder(l.fields)
      [] f.kind = "registry" -> InOrder(c.lines)
      [] f.kind = "hive" -> InOrder(c) /\ \A key \in ToSet(c) : InOrder(key.values)
      [] f.kind \in {"mft", "osquery", "crowdstrike"} -> InOrder(c.entries)
      [] f.kind = "thor" -> (c.report # None => InOrder(c.report.lines)) /\ (c.md5s # None => InOrder(c.md5s))
      [] f.kind = "yara" -> InOrder(c.target) /\ \A t \in ToSet(c.target) : InOrder(t.matches)

\* Instants that are the same but for the year.
SameDay(a, b) == a % YearLength = b % YearLength

\* The instant of an entry is t, as far as the file says.
AtInstant(f, t, instant) == IF Yearless(f) THEN SameDay(Instant(t), instant) ELSE Instant(t) = instant

\* Entries have numbers, and the instant an entry states is the one the clock
\* beside it shows.
Dated(f) ==
    /\ Ordered(f)
    /\ Yearless(f) => f.content.report.mtime \in Int
    /\ \A c \in Clock(f) : c[1] # None
    /\ \A w \in f.when, c \in Clock(f) :
          c[1] = w[1] => w[2] \in Int /\ c[2] \in Stamp(f.kind) /\ AtInstant(f, c[2], w[2])

ASSUME ClockAssumption ==
    /\ None \notin Time /\ YearLength \in Nat \ {0}
    /\ \A r \in DOMAIN Request : \A i \in DOMAIN Request[r].files : Dated(Request[r].files[i])

\* One clock: however its tool writes it - an offset, a zone, none, seconds
\* since 1970, a day without its year - a record's ts_parsed is the instant its
\* entry states, but for the year where the file says none.  A record whose
\* entry states its time is without one only if the wording is Foreign.
OneClock ==
    pc = "done" =>
        \A row \in Rows : \A w \in Files[row[1]].when :
            w[1] = row[2].of =>
                IF "ts" \in DOMAIN row[2] THEN AtInstant(Files[row[1]], row[2].ts, w[2])
                ELSE Foreign(Files[row[1]], w[1])

\* A value of a .reg export belongs to the key whose line stands above it and
\* takes its category from that key alone; a value under a key the export
\* deletes belongs to none, and a line that continues the one before it is
\* no value of its own.
ValuesUnderTheirKey ==
    pc = "done" =>
        \A f \in DOMAIN Files : Came(f, "registry") =>
            LET lines == Files[f].content.lines
                rows  == ToSet(RecordsOf(f, "registry"))
            IN  /\ \A i \in DOMAIN lines : lines[i].kind \in {"value", "deleted value"} =>
                     (Owned(lines, i) <=> \E r \in rows : r.of = lines[i].n)
                /\ \A i \in DOMAIN lines : Owned(lines, i) => \A r \in rows : r.of = lines[i].n =>
                     /\ r.key = KeyLine(lines, i).key.name
                     /\ Get(r, "category") \in {None, ClassifyKey(KeyLine(lines, i).key)}

\* Zeek's logs are put together without losing or doubling a transaction:
\* each dns, http and ssl row of a connection is in exactly one record, each
\* of its notices in at least one, and every connection in at least one.
ZeekWhole ==
    pc = "done" =>
        \A f \in DOMAIN Files : Came(f, "zeek") =>
            LET z       == Files[f].content.zeek
                recs    == RecordsOf(f, "zeek")
                has(x, n) == {k \in DOMAIN recs : x \in DOMAIN recs[k] /\ recs[k][x] = n}
                known   == {z.conn[i].uid : i \in DOMAIN z.conn} \ {None}
                Of(log) == {log[i].n : i \in {j \in DOMAIN log : log[j].uid \in known}}
            IN  /\ \A n \in Of(z.dns) \cup Of(z.http) \cup Of(z.ssl) : Cardinality(has("transaction", n)) = 1
                /\ \A n \in Of(z.notice) : has("notice", n) # {}
                /\ \A i \in DOMAIN z.conn : \E k \in DOMAIN recs : recs[k].of = z.conn[i].n

=============================================================================
