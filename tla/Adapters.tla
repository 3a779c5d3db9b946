------------------------------- MODULE Adapters -------------------------------
(***************************************************************************)
(* The adapters: what each tool wrote about the evidence, as records of    *)
(* the common schema.                                                      *)
(*                                                                         *)
(* What a tool wrote is a sequence of entries [kind, n, ..]: a "doc" of    *)
(* this tool's shape, or "junk", "scalar", "blank".  A record is a         *)
(* function from the fields it has to their values, with of, the number of *)
(* the entry it was made from.  A value is None, or a word [of, around] as *)
(* in Registry; the of of a hash is <<algorithm, artifact>>.  A time is    *)
(* [form, local, zone]: what the clock on the page says and the zone       *)
(* written beside it (None: none is written), in minutes.                  *)
(***************************************************************************)
EXTENDS Registry, Integers

CONSTANTS
    EventIds,       \* the event ids of each channel family (windows_eventid)
    TacticName      \* _HAYABUSA_TACTIC_MAP: abbreviation |-> ATT&CK name

\* A record field that is not there reads as None.
Get(d, k) == IF k \in DOMAIN d THEN d[k] ELSE None

\* _clean: fields without a value are left out.
Clean(r) == [k \in {x \in DOMAIN r : r[x] # None} |-> r[k]]

\* _first: the first of the keys the tool filled in.
First(d, keys) ==
    LET held == {i \in DOMAIN keys : Get(d, keys[i]) # None}
    IN  IF held = {} THEN None ELSE d[keys[Min(held)]]

Docs(entries) == Selected(entries, {i \in DOMAIN entries : entries[i].kind = "doc"})

MapSeq(s, F(_)) == [i \in DOMAIN s |-> F(s[i])]

\* What loading a file comes to.
Loaded(records) == [raised |-> FALSE, records |-> records]
Raised          == [raised |-> TRUE, records |-> <<>>]

-----------------------------------------------------------------------------
(* Times                                                                    *)

Utc(local) == [form |-> "iso", local |-> local, zone |-> 0]
Iso(ts)    == ts # None /\ ts.form \in {"iso", "ez"}

\* Mutant: the offset is dropped and Z appended.
DropZone(ts) == IF Iso(ts) THEN Utc(ts.local) ELSE ts

\* _norm_ts, _generic_ts_to_iso, _access_ts_to_iso: an offset is applied, a
\* time without one is UTC, and what is no time is left as it is.
ToUtc(ts) ==
    IF Iso(ts) THEN Utc(ts.local - (IF ts.zone = None THEN 0 ELSE ts.zone)) ELSE ts

\* norm_ez_ts: the wording of an ISO time, with the offset it has, or Z.
NormEzTs(ts) ==
    IF Iso(ts) THEN [ts EXCEPT !.form = "iso", !.zone = IF @ = None THEN 0 ELSE @] ELSE ts

\* ts_parsed (store.insert_records).
Instant(ts) ==
    IF ts = None THEN None
    ELSE CASE ts.form \in {"iso", "ez"} -> ts.local - (IF ts.zone = None THEN 0 ELSE ts.zone)
           [] ts.form = "epoch" -> ts.local
           [] OTHER -> None

-----------------------------------------------------------------------------
(* windows_eventid.classify: an event id means something in its channel's   *)
(* family; low ones are Sysmon's otherwise, the rest the first family's     *)
(* that knows them.                                                         *)

Fallback == <<"security", "system", "powershell", "rdp", "task", "wmi">>

Classify(eid, family) ==
    LET knows(f) == f \in DOMAIN EventIds /\ eid \in EventIds[f]
        order    == SelectSeq(Fallback, knows)
    IN  IF family # None /\ knows(family) THEN <<family, eid>>
        ELSE IF eid \in 1..29 /\ knows("sysmon") THEN <<"sysmon", eid>>
        ELSE IF order = <<>> THEN None
        ELSE <<Head(order), eid>>

-----------------------------------------------------------------------------
(* evtx_hayabusa.py: a detail may hold several values, the first one counts. *)

Scalar(values) == LET held == SelectSeq(values, LAMBDA v : v # None) IN IF held = <<>> THEN None ELSE Head(held)

Scalars(details) == [k \in DOMAIN details |-> Scalar(details[k])]

\* _norm_tactics: the full name of an abbreviation; another word stays.
NormTactics(words) == {IF w \in DOMAIN TacticName THEN TacticName[w] ELSE w : w \in words}

HayabusaRecord(e) ==
    LET d == Scalars(e.details) IN
    Clean([of |-> e.n, source |-> "evtx", ts |-> e.ts, host |-> e.host,
           meaning |-> Classify(e.eid, e.channel),
           user |-> First(d, <<"User", "SubjectUserName", "TargetUserName", "SrcUser", "TgtUser">>),
           process |-> First(d, <<"Image", "Proc", "SrcProc", "Process", "NewProc", "NewProcess", "Application">>),
           parent |-> First(d, <<"ParentImage", "ParentProc", "ParentProcessName">>),
           src_ip |-> First(d, <<"SrcIP", "SourceIp", "src_ip">>),
           dst_ip |-> First(d, <<"DstIP", "DestinationIp", "TgtIP", "dst_ip">>),
           dns |-> First(d, <<"Query", "QueryName", "DnsQuery">>),
           techniques |-> e.techniques, tactics |-> NormTactics(e.tactics),
           community |-> e.rule \in {"sigma-community", "sigma-custom"}])

Hayabusa(entries) == MapSeq(Docs(entries), HayabusaRecord)

-----------------------------------------------------------------------------
(* evtx_evtxecmd.py                                                         *)

\* Mutant: the last hash of the field, an import hash among them.
LastHash(h) == [hash |-> First(h, <<"IMPHASH", "SHA256", "SHA1", "bare">>), md5 |-> Get(h, "MD5")]

\* _hashes: SHA256=..,MD5=..,IMPHASH=.. or a bare hash; never the import hash.
Hashes(h) == [hash |-> First(h, <<"SHA256", "SHA1", "bare">>), md5 |-> Get(h, "MD5")]

\* _outcome: the audit keyword decides, the event id otherwise.
Outcome(eid, keyword) ==
    IF keyword \in {"failure", "success"} THEN keyword
    ELSE IF eid \in {4625, 4771} THEN "failure"
    ELSE IF eid \in {4624, 4634, 4647, 4672, 4768, 4769} THEN "success"
    ELSE None

\* DOMAIN\account, where the account brings no realm of its own.
Qualified(user, domain) ==
    IF user = None \/ domain = None \/ user.realm # <<>> THEN user ELSE [user EXCEPT !.realm = domain]

EvtxEcmdRecord(e) ==
    LET d    == e.data
        user == First(d, <<"TargetUserName", "SubjectUserName", "AccountName", "User">>)
        h    == First(d, <<"Hashes", "Hash">>)
    IN  Clean([of |-> e.n, source |-> "evtx_full", ts |-> ToUtc(e.ts), host |-> e.host,
               meaning |-> Classify(e.eid, e.channel), outcome |-> Outcome(e.eid, e.keyword),
               user |-> Qualified(IF user = None THEN e.user ELSE user,
                                  First(d, <<"TargetDomainName", "SubjectDomainName">>)),
               process |-> First(d, <<"NewProcessName", "Image", "ProcessName", "Application">>),
               parent |-> First(d, <<"ParentProcessName", "ParentImage">>),
               src_ip |-> First(d, <<"IpAddress", "SourceIp", "SourceAddress", "ClientAddress">>),
               dst_ip |-> First(d, <<"DestinationIp", "DestAddress">>),
               dns |-> Get(d, "QueryName"),
               file |-> First(d, <<"TargetFilename", "TargetName">>),
               hash |-> IF h = None THEN None ELSE Hashes(h).hash,
               md5 |-> IF h = None THEN None ELSE Hashes(h).md5])

EvtxEcmd(entries) == MapSeq(Docs(entries), EvtxEcmdRecord)

-----------------------------------------------------------------------------
(* pcap_tshark.py: a row per packet; one that is neither IP nor DNS is no   *)
(* record.                                                                  *)

TsharkRecord(e) ==
    Clean([of |-> e.n, source |-> "pcap", ts |-> IF e.ts.form = "epoch" THEN Utc(e.ts.local) ELSE None,
           transport |-> IF e.tcp # None THEN "tcp" ELSE IF e.udp # None THEN "udp" ELSE e.proto,
           src_ip |-> First(e, <<"src", "src6">>), dst_ip |-> First(e, <<"dst", "dst6">>),
           dst_port |-> First(e, <<"tcp", "udp">>), src_port |-> First(e, <<"tcp_src", "udp_src">>),
           dns |-> e.query])

Tshark(packets) ==
    LET rows == MapSeq(packets, TsharkRecord)
    IN  Selected(rows, {i \in DOMAIN rows : {"src_ip", "dst_ip", "dns"} \cap DOMAIN rows[i] # {}})

-----------------------------------------------------------------------------
(* pcap_zeek.py: z has a sequence of rows per log; a row is [uid, n, ts,    *)
(* f], f its fields.                                                        *)

\* _map_conn_state: only what a capture shows to have failed is a failure.
ConnState(state, proto) ==
    IF state = None THEN None
    ELSE IF state = "SF" THEN "success"
    ELSE IF state \in {"REJ", "RSTO", "RSTR"} \/ (state = "S0" /\ proto # "udp") THEN "failure"
    ELSE "unknown"

ZeekTime(row) == IF row.ts = None THEN None ELSE Utc(row.ts.local)

ConnRecord(row) ==
    Clean([of |-> row.n, source |-> "pcap", ts |-> ZeekTime(row), transport |-> Get(row.f, "proto"),
           src_ip |-> Get(row.f, "orig_h"), dst_ip |-> Get(row.f, "resp_h"),
           src_port |-> Get(row.f, "orig_p"), dst_port |-> Get(row.f, "resp_p"),
           outcome |-> ConnState(Get(row.f, "conn_state"), Get(row.f, "proto"))])

\* dict.update with what a row of another log says of the connection.
Enriched(base, row, as) ==
    [k \in (DOMAIN base) \cup {as} |-> IF k = as THEN row.n ELSE base[k]]

Retimed(rec, row) == IF row.ts = None THEN rec ELSE [k \in (DOMAIN rec) \cup {"ts"} |->
                                                        IF k = "ts" THEN ZeekTime(row) ELSE rec[k]]

\* Mutant: one slot per uid, the last row of it wins.
LastOfUid(rows, uid) ==
    LET r == SelectSeq(rows, LAMBDA x : uid # None /\ x.uid = uid) IN IF r = <<>> THEN <<>> ELSE <<Last(r)>>

OfUid(rows, uid) == Selected(rows, {i \in DOMAIN rows : uid # None /\ rows[i].uid = uid})

\* The application-layer transactions of a connection, in log order.
Transactions(z, uid) == OfUid(z.dns, uid) \o OfUid(z.http, uid) \o OfUid(z.ssl, uid)

\* _merge_logs: a record per transaction, or one for the connection; the
\* first notice goes with each of them, a further one is its own record.
MergeConn(z, conn) ==
    LET base    == ConnRecord(conn)
        uid     == conn.uid
        notices == OfUid(z.notice, uid)
        noted(r) == IF notices = <<>> THEN r ELSE Enriched(r, notices[1], "notice")
        own(t)   == noted(Retimed(Enriched(base, t, "transaction"), t))
        further(n) == Retimed(Enriched(base, n, "notice"), n)
        all     == Transactions(z, uid)
    IN  (IF all = <<>> THEN <<noted(base)>> ELSE MapSeq(all, own))
        \o (IF notices = <<>> THEN <<>> ELSE MapSeq(Tail(notices), further))

Zeek(z) == FlattenSeq([i \in DOMAIN z.conn |-> MergeConn(z, z.conn[i])])

-----------------------------------------------------------------------------
(* logfile.py: a line's kind is the first shape it has: "json", "torn json", *)
(* "scalar", "access", "syslog", "text", "blank".                           *)

\* _sniff: the first line that is not blank decides for the whole file.
Sniff(lines) ==
    LET told == SelectSeq(SubSeq(lines, 1, Min({20, Len(lines)})), LAMBDA l : l.kind # "blank") IN
    IF told = <<>> THEN "line"
    ELSE CASE told[1].kind \in {"json", "torn json"} -> "jsonl"
           [] told[1].kind = "access" -> "access"
           [] told[1].kind = "syslog" -> "syslog"
           [] OTHER -> "line"

\* _GROUP_MAP: what a key of a JSON line or a group of a pattern means.
GroupMap ==
    [src_ip |-> {"ip", "src_ip", "source_ip", "client"}, ts |-> {"ts", "time", "timestamp", "@timestamp"},
     url |-> {"url", "path", "uri"}, http_status |-> {"status", "code"}, user |-> {"user", "username"},
     host |-> {"host", "computer"}, dst_ip |-> {"dst_ip", "dest_ip"}, dst_port |-> {"dst_port"},
     dns |-> {"dns", "query"}, file |-> {"file", "file_name", "filename"},
     hash |-> {"hash", "file_hash", "sha256", "md5"}, message |-> {"msg", "message"}, action |-> {"action"}]

\* The times of a line that are converted: every one a JSON object states, and
\* in another log the line's own, where the date of an access log is no ISO date.
TimesRead(l, shape) ==
    IF shape = "jsonl" THEN {p[2] : p \in {q \in ToSet(l.fields) : q[1] \in GroupMap.ts}}
    ELSE IF shape # "access" /\ l.kind = "access" THEN {} ELSE {l.ts}

\* The datetime constructor refuses a day no month has: of an access log's
\* wording ("no day"), and of an ISO one ("impossible") when an offset has to be
\* applied.  A number is no wording at all.
TimeRaises(ts) ==
    ts # None /\ (ts.form \in {"no day", "number"} \/ (ts.form = "impossible" /\ ts.zone \notin {None, 0}))

OutcomeFromStatus(code) == IF code = None THEN None ELSE IF code < 400 THEN "success" ELSE "failure"

RecordAccess(l) ==
    Clean([of |-> l.n, source |-> "log", ts |-> ToUtc(l.ts), src_ip |-> l.ip, url |-> l.url,
           http_status |-> l.status, outcome |-> OutcomeFromStatus(l.status)])

\* The date of an access log is no ISO date.
RecordLine(l) ==
    Clean([of |-> l.n, source |-> "log", ts |-> IF l.kind = "access" THEN None ELSE ToUtc(l.ts),
           src_ip |-> l.ip, message |-> l.n])

\* program@host in a syslog line; iptables and sshd messages say more.
RecordSyslog(l) ==
    Clean([of |-> l.n, source |-> "log", ts |-> ToUtc(l.ts),
           host |-> [l.host EXCEPT !.around = @ \ {"program@"}], process |-> l.program, message |-> l.n,
           src_ip |-> First(l.said, <<"sshd_from", "SRC">>), dst_ip |-> Get(l.said, "DST"),
           dst_port |-> Get(l.said, "DPT"), user |-> Get(l.said, "sshd_user"),
           outcome |-> Get(l.said, "sshd_outcome")])

\* _record_mapping: of several keys with one meaning the last one counts.
RecordMapping(l) ==
    LET said(f)  == Selected(l.fields, {i \in DOMAIN l.fields : l.fields[i][1] \in GroupMap[f] /\ l.fields[i][2] # None})
        value(f) == IF f = "ts" THEN ToUtc(Last(said(f))[2]) ELSE Last(said(f))[2]
        meant    == {f \in DOMAIN GroupMap : said(f) # <<>>}
        code     == IF "http_status" \in meant THEN value("http_status") ELSE None
    IN  Clean([f \in meant \cup {"of", "source", "outcome"} |->
                CASE f = "of" -> l.n [] f = "source" -> "log" [] f = "outcome" -> OutcomeFromStatus(code)
                  [] OTHER -> value(f)])

LogRecord(l, shape) ==
    CASE shape = "access" /\ l.kind = "access" -> RecordAccess(l)
      [] shape = "syslog" /\ l.kind = "syslog" -> RecordSyslog(l)
      [] shape = "jsonl" -> IF l.kind = "json" THEN RecordMapping(l) ELSE None
      [] OTHER -> RecordLine(l)

\* One line whose time cannot be built loses the file.
Logfile(lines) ==
    LET shape == Sniff(lines)
        read  == Selected(lines, {i \in DOMAIN lines : lines[i].kind # "blank" /\ (shape = "jsonl" => lines[i].kind = "json")})
    IN  IF \E i \in DOMAIN read : \E ts \in TimesRead(read[i], shape) : TimeRaises(ts)
        THEN Raised
        ELSE Loaded(MapSeq(read, LAMBDA l : LogRecord(l, shape)))

-----------------------------------------------------------------------------
(* thor_scan.py: the report names its lines' day, not their year.           *)

CONSTANT YearLength  \* minutes in a year

\* _year_from_name: the file name's year, else that of its modification.
YearOf(report) == IF report.year # None THEN report.year ELSE report.mtime \div YearLength

Basename(word) == IF word = None THEN None ELSE [word EXCEPT !.around = @ \ {"path"}]

\* _record_from_line: scored lines; the file one refers to is a record too.
ThorRecord(l, year, w) ==
    Clean([of |-> l.n, source |-> "thor", ts |-> Utc(year * YearLength + l.ts.local), host |-> l.host,
           file |-> Basename(Get(w, "FILE")), hash |-> Get(w, "SHA256"), md5 |-> Get(w, "MD5")])

ThorRecords(l, year) ==
    IF l.kind # "doc" \/ l.score = None THEN <<>>
    ELSE <<ThorRecord(l, year, l.primary)>>
            \o (IF DOMAIN l.linked = {} THEN <<>> ELSE <<ThorRecord(l, year, l.linked)>>)

\* _from_csv: rows of an md5, a path and a score.
ThorCsv(rows) ==
    MapSeq(Selected(rows, {i \in DOMAIN rows : rows[i].kind = "doc" /\ rows[i].md5 # None}),
           LAMBDA r : Clean([of |-> r.n, source |-> "thor", file |-> Basename(r.path), md5 |-> r.md5]))

Thor(t) ==
    IF t.report # None
    THEN Loaded(FlattenSeq(MapSeq(t.report.lines, LAMBDA l : ThorRecords(l, YearOf(t.report)))))
    ELSE IF t.md5s # None THEN Loaded(ThorCsv(t.md5s))
    ELSE Raised

-----------------------------------------------------------------------------
(* yara_scan.py: a record per file and rule.  No rules, rules that do not   *)
(* compile and a file that cannot be scanned are printed, and no more.      *)

Yara(y) ==
    LET match(f) == [i \in DOMAIN f.matches |->
                        Clean([of |-> f.n, source |-> "yara", ts |-> f.mtime, file |-> f.path,
                               techniques |-> f.matches[i]])]
        read == Selected(y.target, {i \in DOMAIN y.target : ~y.target[i].unreadable})
    IN  IF ~y.library THEN Raised
        ELSE IF y.rules # "good" THEN Loaded(<<>>)
        ELSE Loaded(FlattenSeq(MapSeq(read, match)))

-----------------------------------------------------------------------------
(* JSON written by a tool: one object per line, or one document whose parts *)
(* are lost together when it is not whole.                                  *)

Documents(json) ==
    IF json.shape = "document" /\ \E i \in DOMAIN json.entries : json.entries[i].kind = "junk"
    THEN <<>> ELSE Docs(json.entries)

\* mft_mftecmd.py.  The extension is appended to a name that does not end in it.
MftName(d) ==
    IF d.extension = None \/ d.name = None THEN d.name
    ELSE [d.name EXCEPT !.around = @ \ {"extensionless"}]

MftTimes ==
    <<"Created0x10", "Created0x30", "LastModified0x10", "LastModified0x30",
      "LastRecordChange0x10", "LastRecordChange0x30", "LastAccess0x10", "LastAccess0x30">>

Mft(json) ==
    LET read == Documents(json)
    IN  MapSeq(Selected(read, {i \in DOMAIN read : read[i].entry \notin {None, 0} \/ read[i].name # None}),
               LAMBDA e : Clean([of |-> e.n, source |-> "mft", ts |-> NormEzTs(First(e.times, MftTimes)),
                                 file |-> MftName(e)]))

\* osquery_result.py: the table a row is of, by the query's name or by the
\* columns only that table has.
CategoryByQuery ==
    [processes |-> "process", process_open_sockets |-> "network", listening_ports |-> "network", arp_cache |-> "network",
     users |-> "iam", logged_in_users |-> "authentication", file_events |-> "file", hash |-> "file",
     crashes |-> "process", launch_daemons |-> "configuration", kernel_extensions |-> "driver",
     authorized_keys |-> "iam", shadow_hash |-> "iam"]

Signature ==
    <<<<"network", {"remote_address", "local_address", "socket", "address"}>>,
      <<"file", {"md5", "sha1", "sha256", "target_path"}>>, <<"authentication", {"tty"}>>,
      <<"process", {"cmdline", "parent"}>>, <<"iam", {"directory", "shell", "gid"}>>, <<"process", {"pid"}>>>>

OsqueryCategory(e) ==
    LET of == SelectSeq(Signature, LAMBDA s : s[2] \cap DOMAIN e.columns # {}) IN
    IF e.query \in DOMAIN CategoryByQuery THEN CategoryByQuery[e.query]
    ELSE IF of = <<>> THEN None ELSE of[1][1]

\* A port of zero is no port.
Ports(columns) == [c \in {x \in DOMAIN columns : x \in {"port", "remote_port"} => columns[x] # 0} |-> columns[c]]

\* What "name" names is a process where the query says so or the columns of one are there.
NamesProcess(e) == Get(CategoryByQuery, e.query) = "process" \/ {"cmdline", "pid"} \cap DOMAIN e.columns # {}

OsqueryRecord(e) ==
    LET d == Ports(e.columns) IN
    Clean([of |-> e.n, source |-> "osquery", ts |-> Utc(e.ts.local), host |-> e.host,
           category |-> OsqueryCategory(e),
           user |-> LET u == First(d, <<"user", "username">>) IN IF u = None THEN e.decoration ELSE u,
           process |-> IF NamesProcess(e) THEN Get(d, "name") ELSE None,
           src_ip |-> First(d, <<"local_address", "address">>), dst_ip |-> Get(d, "remote_address"),
           dst_port |-> First(d, <<"remote_port", "port">>),
           file |-> Get(d, "target_path"), hash |-> Get(d, "sha256"), md5 |-> Get(d, "md5")])

\* A row without a time it can be placed at is dropped.
Osquery(json) ==
    LET read == Documents(json)
    IN  MapSeq(Selected(read, {i \in DOMAIN read : read[i].ts # None /\ read[i].ts.form = "epoch"}), OsqueryRecord)

\* crowdstrike.py: blocks copied from a detection, whose time is the one in
\* "(.. UTC)", or events exported as JSON, whose time is a number.  A time worded
\* otherwise is left out.
ClipboardTime(ts) == IF ts # None /\ ts.form = "iso" /\ ts.zone = 0 THEN Utc(ts.local) ELSE None
LogscaleTime(ts)  == IF ts # None /\ ts.form = "epoch" THEN Utc(ts.local) ELSE None

ClipboardRecord(e) ==
    Clean([of |-> e.n, source |-> "crowdstrike", ts |-> ClipboardTime(e.ts), host |-> Get(e.d, "Host name"),
           user |-> Get(e.d, "User name"),
           file |-> First(e.d, <<"File name", "File path">>), hash |-> Get(e.d, "SHA 256"),
           md5 |-> Get(e.d, "MD5 Hash"), src_ip |-> Get(e.d, "IP address")])

LogscaleRecord(e) ==
    Clean([of |-> e.n, source |-> "crowdstrike", ts |-> LogscaleTime(e.ts), host |-> Get(e.d, "ComputerName"),
           user |-> Get(e.d, "UserName"),
           process |-> Get(e.d, "ImageFileName"), hash |-> Get(e.d, "SHA256HashData"),
           src_ip |-> Get(e.d, "LocalAddressIP4"), dst_ip |-> Get(e.d, "RemoteAddressIP4"),
           dns |-> Get(e.d, "DomainName")])

CrowdStrike(c) ==
    IF c.shape = "clipboard"
    THEN LET read == Docs(c.entries)
         IN  MapSeq(Selected(read, {i \in DOMAIN read : DOMAIN read[i].d # {} \/ ClipboardTime(read[i].ts) # None}),
                    ClipboardRecord)
    ELSE MapSeq(Documents(c), LogscaleRecord)

\* The records of a registry: an export is as of its modification, a value
\* of a hive as of its key's last write.
RegistryRecords(rows, At(_)) ==
    MapSeq(rows, LAMBDA r : Clean([of |-> r.of, source |-> "registry", ts |-> At(r), key |-> r.key, value |-> r.value,
                                   category |-> r.category, file |-> r.program, severity |-> r.severity]))

-----------------------------------------------------------------------------
(* load_records of each adapter.                                            *)

Load(kind, c) ==
    CASE kind = "evtx"        -> Loaded(Hayabusa(c))
      [] kind = "evtx_full"   -> Loaded(EvtxEcmd(c))
      [] kind = "pcap"        -> Loaded(Tshark(c.packets))
      [] kind = "log"         -> Logfile(c)
      [] kind = "registry"    -> IF c.torn THEN Raised ELSE Loaded(RegistryRecords(ParseRegfile(c.lines), LAMBDA r : c.mtime))
      [] kind = "hive"        -> Loaded(RegistryRecords(RecmdRecords(c), LAMBDA r : NormEzTs(r.time)))
      [] kind = "mft"         -> Loaded(Mft(c))
      [] kind = "thor"        -> Thor(c)
      [] kind = "yara"        -> Yara(c)
      [] kind = "osquery"     -> Loaded(Osquery(c))
      [] kind = "crowdstrike" -> Loaded(CrowdStrike(c))

=============================================================================
