------------------------------ MODULE MCAnalysis ------------------------------
(***************************************************************************)
(* A small case: five uploads of two to six records, of eight tools.        *)
(***************************************************************************)
EXTENDS Analysis

CONSTANTS none

Over(S, f) == [x \in S |-> IF x \in DOMAIN f THEN f[x] ELSE none]

Rec(fam, time, cells) ==
    [source |-> IF fam = none THEN none ELSE [family |-> fam], ts |-> [form |-> "utc", time |-> time],
     cell |-> Over(Field, cells), col |-> Over(Column, <<>>),
     techniques |-> {}, tactics |-> {}, salient |-> FALSE]

Cell(name)          == [name |-> name, realm |-> <<>>, form |-> "plain"]
Of(name, realm)     == [name |-> name, realm |-> realm, form |-> "plain"]
Worded(name, form)  == [name |-> name, realm |-> <<>>, form |-> form]

Found(r, techniques, tactics) == [r EXCEPT !.techniques = techniques, !.tactics = tactics]
At(r, form)                   == [r EXCEPT !.ts.form = form]
Port(r, sport)                == [r EXCEPT !.col["dst_port"] = 4444, !.col["src_port"] = sport]

\* An intruder's account on a workstation, and what the scanner found there.
Endpoint == <<
    Found(Rec("evtx", 3, [user |-> Of("alice", <<"corp">>), host |-> Cell("ws1")]), {"T1"}, {}),
    Rec("thor", 8, [host |-> Of("ws1", <<"corp", "example">>), hash |-> Cell("h1")])>>

\* A file server, in two logs, one of them with the local time, and a host
\* whose evidence has no time and a technique the map does not know.
Server == <<
    At(Rec("log", 4, [user |-> Of("bob", <<"corp">>), host |-> Cell("fs1")]), "offset"),
    Rec("osquery", 5, [host |-> Worded("fs1", "upper"), file |-> Cell("db")]),
    At(Found(Rec("sigma", 0, [host |-> Cell("ws4")]), {"T9"}, {}), "junk")>>

\* The account of the one on the other, with a file of its own; and again
\* under a realm that is not its own.
Move == <<
    Found(Rec("edr", 6, [user |-> Of("alice", <<"corp", "example">>), host |-> Cell("fs1"), file |-> Cell("loot")]),
          {}, {"impact"}),
    Rec("log", 20, [user |-> Of("alice", <<"partner">>), host |-> Cell("ws2"), dst_ip |-> Cell("gw")])>>

\* A beacon, packet by packet.
Packet(time, sport) == Port(Rec("pcap", time, [src_ip |-> Cell("a1"), dst_ip |-> Cell("c2")]), sport)
Capture == <<Packet(0, 51), Packet(0, 51), Packet(3, 52), Packet(6, 53), Packet(6, 53), Packet(9, 54)>>

\* A name four tools saw, and a machine of that name two of them did; evidence that does
\* not say which tool it is of.
Names4 == <<
    Rec("zeek", 1, [dns |-> Cell("d1"), host |-> Cell("d1"), dst_ip |-> Cell("gw")]),
    Rec("pcap", 1, [dns |-> Cell("d1")]),
    Rec("log", 2, [dns |-> Cell("d1"), host |-> Cell("d1")]),
    Rec("edr", 12, [dns |-> Cell("d1"), user |-> Cell("system"), dst_ip |-> Worded("x", "junk")]),
    Found(Rec(none, 4, [host |-> Cell("ws1")]), {"T1.1"}, {})>>

MCUploads == {Endpoint, Server, Move, Capture, Names4}

MCTactics == [t \in {"T1", "T1.1", "T9"} |-> IF t = "T1" THEN {"execution", "persistence"} ELSE {}]
MCParent  == [t \in {"T1", "T1.1", "T9"} |-> IF t = "T1.1" THEN "T1" ELSE t]
MCPhases  == [c \in {"execution", "persistence", "impact", "unknown"} |->
                CASE c = "execution" -> 4 [] c = "persistence" -> 5 [] c = "impact" -> 7 [] OTHER -> 0]

=============================================================================
