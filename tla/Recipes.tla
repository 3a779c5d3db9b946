------------------------------- MODULE Recipes -------------------------------
(***************************************************************************)
(* The long-tail and network recipes of analytics/recipes.py, each a       *)
(* grouping of the rows of an events table.  A recipe is the set of the    *)
(* groups it reports, a group the set of its rows.                         *)
(***************************************************************************)
EXTENDS Correlation

CONSTANTS
    CommonPorts,    \* COMMON_PORTS
    TopLimit,       \* limit of the recipes that report the busiest groups
    MinEvents       \* min_events of beaconing

ASSUME RecipeAssumption == TopLimit \in Nat \ {0} /\ MinEvents \in Nat \ {0}

\* The columns a recipe reads that correlation does not.
Column == {"process", "parent", "src_port", "dst_port", "url", "http_status", "url_domain",
           "sni", "rcode", "rule", "registry_key"}

\* What a query reads in a column: the wording, never the canonical name.
Col(r, c) == IF c \in Field THEN Raw(r, c) ELSE r.col[c]

Having(tbl, cols) == {i \in Rows(tbl) : \A c \in cols : Col(tbl[i], c) # None}

\* GROUP BY cols over the rows ids.
GroupBy(tbl, ids, cols) ==
    {{j \in ids : \A c \in cols : Col(tbl[j], c) = Col(tbl[i], c)} : i \in ids}

\* The rare: groups of at most n rows.
Rare(tbl, cols, n) == {g \in GroupBy(tbl, Having(tbl, cols), cols) : Cardinality(g) <= n}

\* The busiest: the first groups by number of rows.
Busiest(groups) == FirstOf(groups, TopLimit, LAMBDA g, h : Cardinality(g) > Cardinality(h))

-----------------------------------------------------------------------------
(* The recipes that count.                                                  *)

RareProcesses(tbl)        == Rare(tbl, {"process"}, 2)
AnomalousParentChild(tbl) == Rare(tbl, {"parent", "process"}, 2)
\* A name asked for once, or too long to be one.
RareDns(tbl) ==
    {g \in GroupBy(tbl, Having(tbl, {"dns"}), {"dns"}) :
        Cardinality(g) <= 1 \/ \E i \in g : tbl[i].cell["dns"].form = "long"}

TopTalkers(tbl)   == Busiest(GroupBy(tbl, Having(tbl, {"dst_ip"}), {"dst_ip"}))
TopSourceIps(tbl) == Busiest(GroupBy(tbl, Having(tbl, {"src_ip"}), {"src_ip"}))
WebTargets(tbl)   == Busiest(GroupBy(tbl, Having(tbl, {"url"}), {"url"}))
ZeekHttp(tbl)     == Busiest(GroupBy(tbl, Having(tbl, {"url_domain"}), {"url_domain", "http_status"}))
ZeekSsl(tbl)      == Busiest(GroupBy(tbl, Having(tbl, {"sni"}), {"dst_ip", "dst_port", "sni"}))
\* Gated on a column only Zeek fills: a name tshark saw is not Zeek's.
ZeekDns(tbl)      == Busiest(GroupBy(tbl, Having(tbl, {"dns", "rcode"}), {"dns", "rcode"}))

HttpStatus(tbl)     == GroupBy(tbl, Having(tbl, {"http_status"}), {"http_status"})
SigmaCommunity(tbl) == GroupBy(tbl, Having(tbl, {"rule"}), {"rule"})
RegistryFindings(tbl) == Having(tbl, {"registry_key"})

NonstandardPorts(tbl) ==
    GroupBy(tbl, {i \in Having(tbl, {"dst_port"}) : tbl[i].col["dst_port"] \notin CommonPorts},
            {"dst_ip", "dst_port"})

-----------------------------------------------------------------------------
(* first_seen                                                               *)

\* min(ts) compares the wordings: an epoch before a date, and a date with an
\* offset by its local time.
Spelled(r) ==
    LET ts == r.ts IN
    CASE ts.form = "epoch"  -> <<0, ts.time>>
      [] ts.form = "offset" -> <<1, ts.time + 1>>
      [] ts.form = "utc"    -> <<1, ts.time>>
      [] OTHER              -> <<2, 0>>

FirstSeen(tbl) ==
    {LET first(i) == \A j \in g : ~Lex(Spelled(tbl[j]), Spelled(tbl[i]))
     IN  [rows |-> g, first |-> tbl[CHOOSE i \in g : first(i)].ts]
        : g \in GroupBy(tbl, Having(tbl, {"host", "user"}), {"host", "user"})}

-----------------------------------------------------------------------------
(* beaconing                                                                *)

FlowColumns == {"host", "src_ip", "dst_ip", "dst_port"}

\* Mutant: every row is a connection.
RowsAlone(tbl, flow) == {{i} : i \in flow}

\* The connections of a flow: its rows by source port; a row without one is
\* a connection of its own, told apart by coalesce(src_port, id).
Connections(tbl, flow) ==
    LET name(i) == IF tbl[i].col["src_port"] # None THEN tbl[i].col["src_port"] ELSE i
    IN  {{j \in flow : name(j) = name(i)} : i \in flow}

\* The row a connection starts with.
FirstRow(tbl, conn) == CHOOSE i \in conn : \A j \in conn : ~Sooner(tbl, j, i)

\* The gaps between the starts of consecutive connections: lag() over the
\* starts in order, each gap with the row that ends it.
GapsOf(tbl, conns) ==
    LET starts   == {FirstRow(tbl, c) : c \in conns}
        prior(i) == {j \in starts : Sooner(tbl, j, i)}
        lag(i)   == CHOOSE j \in prior(i) : \A k \in prior(i) : ~Sooner(tbl, j, k)
    IN  {<<i, TsParsed(tbl[i]) - TsParsed(tbl[lag(i)])>> : i \in {j \in starts : prior(j) # {}}}

\* avg(gap) > 0 and stddev_samp(gap)/avg(gap) <= 0.25, in integers: with n
\* gaps of sum s and sum of squares q, 16 n (n q - s^2) <= (n - 1) s^2.
Metronome(gaps) ==
    LET n == Cardinality(gaps)
        s == FoldSet(LAMBDA g, a : a + g[2], 0, gaps)
        q == FoldSet(LAMBDA g, a : a + g[2] * g[2], 0, gaps)
    IN  s > 0 /\ (n = 1 \/ 16 * n * (n * q - s * s) <= (n - 1) * s * s)

Flows(tbl) == GroupBy(tbl, Having(tbl, {"dst_ip", "dst_port"}) \cap Timed(tbl), FlowColumns)

Beaconing(tbl) ==
    {flow \in Flows(tbl) :
        LET gaps == GapsOf(tbl, Connections(tbl, flow))
        IN  Cardinality(gaps) + 1 >= MinEvents /\ Metronome(gaps)}

=============================================================================
