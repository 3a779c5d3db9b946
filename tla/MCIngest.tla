------------------------------- MODULE MCIngest -------------------------------
(***************************************************************************)
(* Requests of one to eight files: EVTX files alone and in batches, captures *)
(* with and without Zeek, and files of every other kind.                    *)
(***************************************************************************)
EXTENDS BuildProperties

Word(name)         == [of |-> name, around |-> {}]
Put(name, around)  == [of |-> name, around |-> around]
Account(name)      == [name |-> name, realm |-> <<>>]
Hash(alg, name)    == [of |-> <<alg, name>>, around |-> {}]
Empty              == <<>>

IsoT(local, zone)  == [form |-> "iso", local |-> local, zone |-> zone]
EzT(local, zone)   == [form |-> "ez", local |-> local, zone |-> zone]
Epoch(local)       == [form |-> "epoch", local |-> local, zone |-> None]
Broken(zone)       == [form |-> "impossible", local |-> 0, zone |-> zone]
NoDay              == [form |-> "no day", local |-> 0, zone |-> 0]
Number(local)      == [form |-> "number", local |-> local, zone |-> None]

File(kind, name, fate, content, about, when) ==
    [kind |-> kind, name |-> name, fate |-> fate, content |-> content, about |-> about, when |-> when]

MCEventIds   == [security |-> {4624, 4625, 5}, sysmon |-> {1, 5}, system |-> {7045}]
MCTacticName == [LatMov |-> "lateral-movement"]
Junk(n)      == [kind |-> "junk", n |-> n]

-----------------------------------------------------------------------------
(* Windows event logs                                                       *)

Rule(n, eid, channel, details) ==
    [kind |-> "doc", n |-> n, ts |-> IsoT(60, 0), host |-> "ws1", eid |-> eid, channel |-> channel, details |-> details,
     techniques |-> {"T1"}, tactics |-> {"LatMov", "odd"}, rule |-> "sigma-custom"]

Alerts == <<Rule(1, 5, None, [Proc |-> <<None, Word("evil")>>, SrcIP |-> <<Word("a1")>>]), Junk(2),
            Rule(3, 7045, "security", [User |-> <<Word("bob")>>])>>

Evtx3(name, fate) == File("evtx", name, fate, Alerts, {<<1, "process", "evil">>}, {<<1, 60>>, <<3, 60>>})

Sys == <<"sys">>
Numbered == <<"001", "sys">>

Log4688 ==
    [kind |-> "doc", n |-> 1, ts |-> EzT(180, 120), host |-> "ws1", eid |-> 4625, channel |-> "security", keyword |-> None,
     user |-> None,
     data |-> [SubjectUserName |-> Account("bob"), SubjectDomainName |-> <<"corp">>, Image |-> Word("evil"),
               Hashes |-> [SHA256 |-> Hash("SHA256", "evil"), MD5 |-> Hash("MD5", "evil"), IMPHASH |-> Hash("IMPHASH", "imports")]]]

Full == File("evtx_full", <<"full">>, "good", <<Log4688, Junk(2)>>,
             {<<1, "hash", <<"SHA256", "evil">>>>, <<1, "md5", <<"MD5", "evil">>>>, <<1, "process", "evil">>}, {<<1, 60>>})

-----------------------------------------------------------------------------
(* Registries: persistence, a deleted key with a value under it, a line that *)
(* continues another, and the same as a hive.                               *)

KeyOf(name, full, relative) == [name |-> name, full |-> full, relative |-> relative]
Line(kind, n, key, name, data, type, continues) ==
    [kind |-> kind, n |-> n, key |-> key, name |-> name, data |-> data, type |-> type, continues |-> continues]

RunKey  == KeyOf("run", {"Run"}, {"Run"})
OnceKey == KeyOf("once", {"Run", "RunOnce"}, {"Run", "RunOnce"})
LogonKey == KeyOf("logon", {"Winlogon"}, {"Winlogon"})
Plainer == KeyOf("other", {}, {})

Export == [torn |-> FALSE, mtime |-> IsoT(90, 0), lines |-> <<
    Line("comment", 0, Plainer, "", <<>>, "", FALSE),
    Line("value", 1, Plainer, "early", <<Word("evil")>>, "sz", FALSE),
    Line("key", 2, OnceKey, "", <<>>, "", FALSE),
    Line("value", 3, OnceKey, "a", <<Put("evil", {"path", "quoted", "args"})>>, "sz", FALSE),
    Line("value", 4, OnceKey, "b", <<Put("tool", {"hex", "path"})>>, "hex(2)", TRUE),
    Line("value", 5, OnceKey, "c", <<Word("evil")>>, "sz", FALSE),
    Line("deleted key", 6, RunKey, "", <<>>, "", FALSE),
    Line("value", 7, RunKey, "d", <<Word("evil")>>, "sz", FALSE),
    Line("key", 8, LogonKey, "", <<>>, "", FALSE),
    Line("value", 9, LogonKey, "shell", <<Word("explorer"), Put("evil", {"args"})>>, "sz", FALSE),
    Line("deleted value", 10, LogonKey, "e", <<>>, "", FALSE),
    Line("key", 11, Plainer, "", <<>>, "", FALSE),
    Line("value", 12, Plainer, "f", <<Put("doc", {"hex"})>>, "binary", FALSE)>>]

Reg == File("registry", <<"export">>, "good", Export,
            {<<n, "file", "evil">> : n \in {1, 3, 5, 7, 9}} \cup {<<4, "file", "tool">>}, {<<n, 90>> : n \in 1..12})
TornReg == [Reg EXCEPT !.content.torn = TRUE, !.name = <<"torn">>]

Node(parent, key, time, values) == [parent |-> parent, key |-> key, time |-> time, values |-> values]
Val(n, name, data, type) == [n |-> n, name |-> name, data |-> data, type |-> type]

Hive == File("hive", <<"software">>, "good", <<
    Node(0, Plainer, EzT(30, None), <<>>),
    Node(1, OnceKey, EzT(30, None), <<Val(1, "a", <<Put("evil", {"path", "quoted", "args"})>>, "sz")>>),
    Node(2, None, EzT(40, 60), <<None, Val(2, "b", <<Put("tool", {"nt"})>>, "sz")>>),
    Node(1, RunKey, None, <<Val(3, "c", <<Word("late")>>, "sz")>>)>>,
    {<<1, "file", "evil">>, <<2, "file", "tool">>, <<3, "file", "late">>}, {<<1, 30>>, <<2, 0 - 20>>})

-----------------------------------------------------------------------------
(* A capture                                                                *)

Row(uid, n, ts, f) == [uid |-> uid, n |-> n, ts |-> ts, f |-> f]
Conn(uid, n) == Row(uid, n, Epoch(60), [proto |-> "tcp", conn_state |-> "REJ", orig_h |-> Word("a1"), resp_h |-> Word("c2")])

Packet(n, d) ==
    [n |-> n, ts |-> Epoch(60), src |-> Word(d), dst |-> None, src6 |-> None, dst6 |-> Word("c2"), tcp |-> None, udp |-> 53,
     tcp_src |-> None, udp_src |-> 51, proto |-> "udp", query |-> None]

ZeekLogs ==
    [conn |-> <<Conn("u1", 1), Conn("u2", 2), Conn(None, 3)>>,
     dns |-> <<Row("u1", 11, Epoch(61), Empty), Row("u1", 12, None, Empty), Row(None, 13, Epoch(60), Empty)>>,
     http |-> <<Row("u1", 21, Epoch(62), Empty), Row("u9", 22, Epoch(62), Empty)>>,
     ssl |-> <<>>,
     notice |-> <<Row("u1", 31, Epoch(63), Empty), Row("u1", 32, Epoch(64), Empty), Row("u2", 33, None, Empty)>>]

Capture(name, fate, zeek) ==
    File("pcap", name, fate,
         [packets |-> <<Packet(51, "a1"), [Packet(52, None) EXCEPT !.src = None, !.dst6 = None]>>, zeek |-> zeek], {<<51, "src_ip", "a1">>}, {<<51, 60>>, <<52, 60>>})

-----------------------------------------------------------------------------
(* Logs, scans and exports                                                  *)

Text(kind, n, ts) ==
    [kind |-> kind, n |-> n, ts |-> ts, ip |-> "a1", url |-> "u", status |-> 404, host |-> Put("fs1", {"program@"}),
     program |-> Word("sshd"), said |-> [sshd_from |-> "a1", sshd_user |-> "bob"],
     fields |-> <<<<"time", ts>>, <<"file", Word("loot")>>, <<"status", 200>>>>]

LogOf(name, lines, about, when) == File("log", <<name>>, "good", lines, about, when)

AccessLog == LogOf("access", <<Text("blank", 0, None), Text("access", 1, IsoT(180, 120)), Text("text", 2, IsoT(60, None))>>,
                   {}, {<<1, 60>>, <<2, 60>>})
SysLog    == LogOf("syslog", <<Text("syslog", 1, IsoT(0, 0 - 60)), Text("access", 2, IsoT(0, 0)), Text("access", 3, NoDay)>>,
                   {<<1, "process", "sshd">>}, {<<1, 60>>, <<2, 0>>})
Besides(key, ts, line) == [line EXCEPT !.fields = <<<<key, ts>>>> \o @]
JsonLog   == LogOf("jsonl", <<Besides("@timestamp", IsoT(180, 120), Text("json", 1, IsoT(60, None))),
                              Text("torn json", 2, None), Text("scalar", 3, None)>>,
                   {<<1, "file", "loot">>, <<2, "file", "loot">>}, {<<1, 60>>})
BadLog    == LogOf("dated", <<Text("text", 1, Broken(None)), Text("text", 2, Broken(60))>>, {<<1, "message", 1>>}, {})
DatedTwice == LogOf("twice", <<Besides("timestamp", Broken(60), Text("json", 1, IsoT(60, None)))>>, {<<1, "file", "loot">>}, {})
NumberLog == LogOf("number", <<Text("json", 1, Number(60))>>, {<<1, "file", "loot">>}, {})

Scan(n, local, score, linked) ==
    [kind |-> "doc", n |-> n, ts |-> [form |-> "iso", local |-> local, zone |-> 0], host |-> "ws1", score |-> score,
     primary |-> [FILE |-> Put("evil", {"path"}), SHA256 |-> Hash("SHA256", "evil"), MD5 |-> Hash("MD5", "evil")],
     linked |-> linked]
ThorOf(name, report, md5s, about, when) ==
    File("thor", <<name>>, "good", [report |-> report, md5s |-> md5s], about, when)

Evil(n) == {<<n, "file", "evil">>, <<n, "hash", <<"SHA256", "evil">>>>, <<n, "md5", <<"MD5", "evil">>>>}

ThorLog == ThorOf("thor_2026", [year |-> 2, mtime |-> 0,
                                lines |-> <<Scan(1, 5, 70, [FILE |-> Put("loot", {"path"})]), Scan(2, 6, None, Empty)>>], None,
                  Evil(1) \cup {<<1, "file", "loot">>} \cup Evil(2), {<<1, 205>>, <<2, 206>>})
ThorUndated == ThorOf("thor", [year |-> None, mtime |-> 320, lines |-> <<Scan(1, 7, 70, Empty)>>], None, Evil(1), {<<1, 207>>})
ThorCsvs == ThorOf("thor_csv", None, <<[kind |-> "doc", n |-> 1, md5 |-> Hash("MD5", "evil"), path |-> Put("evil", {"path"})],
                                       Junk(2)>>, {<<1, "file", "evil">>, <<1, "md5", <<"MD5", "evil">>>>}, {})
ThorNone == ThorOf("empty", None, None, {}, {})

Target(n, unreadable) ==
    [n |-> n, path |-> Put("evil", {"path"}), mtime |-> Epoch(60), matches |-> IF n = 1 THEN <<{"T1"}, {}>> ELSE <<>>, unreadable |-> unreadable]
YaraOf(name, library, rules, target) ==
    File("yara", <<name>>, "good", [library |-> library, rules |-> rules, target |-> target], {<<1, "file", "evil">>}, {<<1, 60>>})

Entry(n, name, extension) ==
    [kind |-> "doc", n |-> n, entry |-> n, name |-> name, extension |-> extension, times |-> [Created0x30 |-> EzT(60, None)]]
MftOf(name, shape, entries, about) ==
    File("mft", <<name>>, "good", [shape |-> shape, entries |-> entries], about, {<<1, 60>>})
Master == MftOf("mft", "lines", <<Entry(1, Put("evil", {"path", "extensionless"}), ".exe"), Entry(2, Word("tool"), ".dll"),
                                   Junk(3), Entry(0, None, None)>>, {<<1, "file", "evil">>, <<2, "file", "tool">>})
CutShort == MftOf("cut", "document", <<Entry(1, Word("evil"), None), Junk(2)>>, {<<1, "file", "evil">>})

Query(n, query, ts, columns) ==
    [kind |-> "doc", n |-> n, query |-> query, ts |-> ts, host |-> "ws1", decoration |-> None, columns |-> columns]
Osq == File("osquery", <<"osq">>, "good", [shape |-> "lines", entries |-> <<
                Query(1, "file_events", Epoch(60), [target_path |-> Word("evil"), sha256 |-> Hash("SHA256", "evil")]),
                Query(2, "pack", Epoch(60), [name |-> Word("tool"), pid |-> 4]),
                Query(3, "pack", None, [target_path |-> Word("late")]),
                Query(4, "pack", Epoch(60), [remote_address |-> Word("c2"), remote_port |-> 0, port |-> 51]),
                Query(5, "pack", Epoch(60), [name |-> Word("tool"), pid |-> 4, address |-> Word("c2")]),
                Query(6, "pack", Epoch(60), [name |-> Word("tool"), parent |-> 4])>>],
            {<<1, "file", "evil">>, <<1, "hash", <<"SHA256", "evil">>>>, <<2, "process", "tool">>, <<3, "file", "late">>,
             <<4, "dst_ip", "c2">>, <<5, "process", "tool">>}, {<<n, 60>> : n \in {1, 2, 4, 5, 6}})

Falcon(name, shape, entries, about, when) ==
    File("crowdstrike", <<name>>, "good", [shape |-> shape, entries |-> entries], about, when)
Said(n, ts, d) == [kind |-> "doc", n |-> n, ts |-> ts, d |-> d]
Blocks == Falcon("blocks", "clipboard",
                 <<Said(1, IsoT(60, 0),
                        [x \in {"File path", "SHA 256"} |-> IF x = "SHA 256" THEN Hash("SHA256", "evil") ELSE Word("evil")]),
                   Said(2, IsoT(180, 120), [x \in {"File name"} |-> Word("tool")]), Said(3, None, Empty)>>,
                 {<<1, "file", "evil">>, <<1, "hash", <<"SHA256", "evil">>>>, <<2, "file", "tool">>}, {<<1, 60>>, <<2, 60>>})
Events == Falcon("events", "lines",
                 <<Said(1, Epoch(60), [ImageFileName |-> Word("evil"), SHA256HashData |-> Hash("SHA256", "evil")]),
                   Said(2, IsoT(60, 0), [ImageFileName |-> Word("tool")])>>,
                 {<<1, "process", "evil">>, <<1, "hash", <<"SHA256", "evil">>>>, <<2, "process", "tool">>}, {<<1, 60>>, <<2, 60>>})

-----------------------------------------------------------------------------

Endpoint == <<Full, Reg, Hive, Master, Osq, Blocks, Events, YaraOf("match", TRUE, "good", <<Target(1, FALSE), Target(2, FALSE)>>)>>
Server   == <<AccessLog, SysLog, JsonLog, ThorLog, ThorUndated, ThorCsvs, CutShort, YaraOf("rules", TRUE, "broken", <<Target(1, FALSE)>>)>>
Failing  == <<BadLog, DatedTwice, NumberLog, TornReg, ThorNone, YaraOf("library", FALSE, "good", <<Target(1, FALSE)>>), [Osq EXCEPT !.fate = "bad"]>>

\* A request is known by what it is of, the fates of its files, and whether
\* it keeps a list of errors.
Fate == {"good", "corrupt", "fatal"}

\* A batch, whose third name may collide with a staged one.
Batches == {<<"batch", "corrupt", "good", "good", "sec">>, <<"batch", "good", "corrupt", "fatal", "sec">>,
            <<"batch", "corrupt", "corrupt", "good", "sec">>, <<"batch", "corrupt", "good", "good", "taken">>}
Singles == {<<"single", f, "", "", "">> : f \in Fate}

\* Two captures: the first may be unreadable or Zeek fail on it, and Zeek
\* may not be there at all.
Captures == {<<"captures", f, z, i, "">> : f \in {"good", "bad"}, z \in {"fails", "reads"}, i \in {"there", "missing"}}

Others == {<<"endpoint", "", "", "", "">>, <<"server", "", "", "", "">>, <<"failing", "", "", "", "">>}

FilesOf(k) ==
    CASE k[1] = "batch"    -> <<Evtx3(Sys, k[2]), Evtx3(Sys, k[3]), Evtx3(IF k[5] = "taken" THEN Numbered ELSE <<"sec">>, k[4])>>
      [] k[1] = "single"   -> <<Evtx3(Sys, k[2])>>
      [] k[1] = "captures" -> <<Capture(<<"one">>, k[2], IF k[3] = "fails" THEN None ELSE ZeekLogs),
                                Capture(<<"two">>, "good", ZeekLogs)>>
      [] k[1] = "endpoint" -> Endpoint
      [] k[1] = "server"   -> Server
      [] k[1] = "failing"  -> Failing

MCRequest ==
    [r \in (Batches \cup Singles \cup Captures \cup Others) \X BOOLEAN |->
        [files |-> FilesOf(r[1]), zeek |-> r[1][4] = "there", told |-> r[2]]]

=============================================================================
