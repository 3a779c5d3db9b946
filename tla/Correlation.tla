----------------------------- MODULE Correlation -----------------------------
(***************************************************************************)
(* The correlation of analytics/correlate.py over an events table: bridges *)
(* between tools, episodes in time, clusters of entities, the map of who   *)
(* touched what, and the kill-chain views.  A table is the sequence of the *)
(* records it was loaded from; infra is the set of the addresses declared  *)
(* as infrastructure.  Confidences are in hundredths, instants in units of *)
(* the session gap's own clock.                                            *)
(***************************************************************************)
EXTENDS EventTable, Integers, SequencesExt, FiniteSetsExt

CONSTANTS
    Gap,            \* gap_seconds of episodes, pad_seconds of phase_corroboration
    ClusterLimit,   \* limit of incident_clusters
    EpisodeLimit,   \* limit of episodes
    TimelineLimit,  \* TIMELINE_LIMIT
    NodeLimit,      \* limit_nodes of entity_graph
    FamilyLimit,    \* limit_families of phase_corroboration
    HostLimit,      \* limit of host_killchain
    TechniqueLimit  \* limit of technique_catalog

ASSUME LimitAssumption ==
    /\ Gap \in Nat
    /\ {ClusterLimit, EpisodeLimit, TimelineLimit, NodeLimit, FamilyLimit,
        HostLimit, TechniqueLimit} \subseteq Nat \ {0}

Kind == {"file_hash", "user", "host", "domain", "file", "ip"}

\* The first n of S in an order (all of S, if there are no more).
FirstOf(S, n, Before(_, _)) ==
    IF Cardinality(S) <= n THEN S
    ELSE CHOOSE T \in SUBSET S :
            Cardinality(T) = n /\ \A x \in T, y \in S \ T : ~Before(y, x)

\* <<a1, a2, ..>> sorts before <<b1, b2, ..>>.
Lex(a, b) == \E k \in DOMAIN a : a[k] < b[k] /\ \A j \in 1..(k - 1) : a[j] = b[j]

FamiliesOf(tbl, ids) == {Family(tbl[i]) : i \in ids} \ {None}

-----------------------------------------------------------------------------
(* shared_indicators                                                        *)

KindWeight == [file_hash |-> 85, user |-> 70, host |-> 55, domain |-> 40, file |-> 25, ip |-> 10]

\* Mutant: a tenth for every further tool.
BoostOf(families) == IF families <= 2 THEN 0 ELSE 10 * (families - 2)

\* A third tool is worth 0.05, a fourth the rest of 0.10.
Boost(families) ==
    IF families <= 2 THEN 0 ELSE IF families = 3 THEN 5 ELSE 10

Penalty(b) ==
    (CASE b.match = "ambiguous" -> 30 [] b.match = "normalized" -> 5 [] OTHER -> 0)
    + (IF b.infrastructure THEN 30 ELSE 0)

\* _confidence: never below 0; KindWeight and Boost stay below 1.00.
Confidence(b) ==
    LET c == KindWeight[b.kind] + Boost(b.families) - Penalty(b) IN IF c < 0 THEN 0 ELSE c

\* The rows of _INDICATORS_CTE: a record and the column that names an entity.
Indicators(tbl) == {p \in Rows(tbl) \X Field : Names(tbl[p[1]], p[2])}

\* The wording a column keeps: hashes, addresses and DNS names are stored
\* in their canonical form.
Raw(r, f) == IF KindOf(f) \in {"user", "host", "file"} THEN r.cell[f] ELSE Canon(r, f)

\* The bridge of entity e, which the rows occ name.
Bridge(tbl, e, occ, infra) ==
    LET realms == {Realm(tbl[p[1]], p[2]) : p \in occ}
        raws   == {Raw(tbl[p[1]], p[2]) : p \in occ}
    IN  [kind |-> e[1], name |-> e[2],
         families |-> Cardinality(FamiliesOf(tbl, {p[1] : p \in occ})),
         occurrences |-> Cardinality(occ),
         infrastructure |-> e[1] = "ip" /\ e[2] \in infra,
         match |-> IF e[1] \in {"user", "host"} /\ RealmsConflict(realms) THEN "ambiguous"
                   ELSE IF Cardinality(raws) > 1 THEN "normalized" ELSE "exact"]

SharedIndicators(tbl, infra) ==
    LET ind  == Indicators(tbl)
        of(p) == Entity(tbl[p[1]], p[2])
        all  == {Bridge(tbl, e, {p \in ind : of(p) = e}, infra) : e \in {of(p) : p \in ind}}
    IN  {b \in all : b.families > 1}

-----------------------------------------------------------------------------
(* episodes                                                                 *)

\* ORDER BY ts_parsed, id.
Sooner(tbl, i, j) ==
    Lex(<<TsParsed(tbl[i]), i>>, <<TsParsed(tbl[j]), j>>)

\* Mutant: a gap of exactly the limit opens a new episode.
OpensEpisodeAt(tbl, i) ==
    \A j \in Timed(tbl) : Sooner(tbl, j, i) => TsParsed(tbl[i]) - TsParsed(tbl[j]) >= Gap

\* newgrp: no event before it, or none within the gap (the nearest decides).
OpensEpisode(tbl, i) ==
    \A j \in Timed(tbl) : Sooner(tbl, j, i) => TsParsed(tbl[i]) - TsParsed(tbl[j]) > Gap

\* The running sum of newgrp.
EpisodeNo(tbl) ==
    LET openers == {j \in Timed(tbl) : OpensEpisode(tbl, j)}
    IN  [i \in Timed(tbl) |-> Cardinality({j \in openers : j = i \/ Sooner(tbl, j, i)})]

EpisodeSets(tbl) ==
    LET no == EpisodeNo(tbl) IN {{i \in DOMAIN no : no[i] = n} : n \in {no[i] : i \in DOMAIN no}}

Times(tbl, ids) == {TsParsed(tbl[i]) : i \in ids} \ {None}
Earliest(tbl, ids) == CHOOSE s \in Times(tbl, ids) : \A u \in Times(tbl, ids) : s <= u
Latest(tbl, ids)   == CHOOSE s \in Times(tbl, ids) : \A u \in Times(tbl, ids) : s >= u

Episode(tbl, ids) ==
    [start |-> Earliest(tbl, ids), end |-> Latest(tbl, ids), events |-> Cardinality(ids),
     families |-> Cardinality(FamiliesOf(tbl, ids)),
     kc_depth |-> Deepest({KcPhase(tbl[i]) : i \in ids})]

Episodes(tbl) ==
    FirstOf({Episode(tbl, ids) : ids \in {s \in EpisodeSets(tbl) : Cardinality(FamiliesOf(tbl, s)) >= 2}},
          EpisodeLimit, LAMBDA a, b : a.start < b.start)

-----------------------------------------------------------------------------
(* incident_clusters                                                        *)

\* _record_entities: the entities one event links, in column order.
\* Infrastructure addresses link nothing.
RecordEntities(r, infra) ==
    LET links(f) == Names(r, f) /\ ~(KindOf(f) = "ip" /\ Canon(r, f) \in infra)
        ents(f)  == IF links(f) THEN <<Entity(r, f)>> ELSE <<>>
    IN  ents("user") \o ents("host") \o ents("src_ip") \o ents("dst_ip") \o ents("dns")
        \o ents("hash") \o ents("md5") \o ents("file")

Linked(tbl, infra) == UNION {ToSet(RecordEntities(tbl[i], infra)) : i \in Rows(tbl)}

\* find: the root of x, and the forest after path compression.
Root(parent, x) ==
    LET root[y \in DOMAIN parent] == IF parent[y] = y THEN y ELSE root[parent[y]] IN root[x]

Compressed(parent, x) ==
    LET path[y \in DOMAIN parent] == IF parent[y] = y THEN {y} ELSE {y} \cup path[parent[y]]
    IN  [y \in DOMAIN parent |-> IF y \in path[x] THEN Root(parent, x) ELSE parent[y]]

\* Mutant: hangs the entity itself under the other's root.
UnionAtNode(parent, a, b) == [parent EXCEPT ![a] = Root(parent, b)]

Union(parent, a, b) ==
    LET forest == Compressed(Compressed(parent, a), b)
    IN  [forest EXCEPT ![Root(forest, a)] = Root(forest, b)]

\* The links of one event: its first entity with each of the others.
UnionRow(parent, ents) ==
    LET after[n \in 0..Len(ents)] ==
            IF n <= 1 THEN parent ELSE Union(after[n - 1], ents[1], ents[n])
    IN  after[Len(ents)]

\* The forest when the events are through, one by one.
Forest(tbl, infra) ==
    LET after[n \in 0..Len(tbl)] ==
            IF n = 0 THEN [e \in Linked(tbl, infra) |-> e]
            ELSE UnionRow(after[n - 1], RecordEntities(tbl[n], infra))
    IN  after[Len(tbl)]

Components(tbl, infra) ==
    LET forest == Forest(tbl, infra)
    IN  {{e \in DOMAIN forest : Root(forest, e) = r} : r \in {Root(forest, e) : e \in DOMAIN forest}}

\* The events that name an entity of a component.
EventsOf(tbl, infra, comp) == {i \in Rows(tbl) : ToSet(RecordEntities(tbl[i], infra)) \cap comp # {}}

Cluster(tbl, infra, comp) ==
    LET ids == EventsOf(tbl, infra, comp) IN
    [members |-> comp, entities |-> Cardinality(comp),
     sources |-> Cardinality(FamiliesOf(tbl, ids)),
     kc_depth |-> Deepest({KcPhase(tbl[i]) : i \in ids}),
     evidence |-> \E i \in ids : AttackEvidence(tbl[i])]

\* Depth first, then breadth.
AboveCluster(a, b) ==
    Lex(<<b.kc_depth, b.sources, b.entities>>, <<a.kc_depth, a.sources, a.entities>>)

IncidentClusters(tbl, infra) ==
    FirstOf({c \in {Cluster(tbl, infra, comp) : comp \in Components(tbl, infra)} :
              c.entities >= 2 /\ c.sources >= 2}, ClusterLimit, AboveCluster)

-----------------------------------------------------------------------------
(* entity_graph                                                             *)

\* How many pairs of columns of one event name both.
Weight(tbl, infra, a, b) ==
    LET at(i, e)  == {k \in DOMAIN RecordEntities(tbl[i], infra) : RecordEntities(tbl[i], infra)[k] = e}
        pairs(i)  == Cardinality(at(i, a)) * Cardinality(at(i, b))
    IN  FoldSet(LAMBDA i, n : n + pairs(i), 0, Rows(tbl))

\* Two entities are linked when one event names both.
Edges(tbl, infra) ==
    UNION {kSubset(2, ToSet(RecordEntities(tbl[i], infra))) : i \in Rows(tbl)}

Degree(tbl, infra, a) ==
    FoldSet(LAMBDA b, n : n + Weight(tbl, infra, a, b), 0, Linked(tbl, infra) \ {a})

Node(tbl, infra, e) ==
    LET ids == EventsOf(tbl, infra, {e}) IN
    [entity |-> e, degree |-> Degree(tbl, infra, e), families |-> Cardinality(FamiliesOf(tbl, ids)),
     kc_order |-> Deepest({KcPhase(tbl[i]) : i \in ids})]

\* Kept for how much of the picture they hold together.
Nodes(tbl, infra) ==
    FirstOf({Node(tbl, infra, e) : e \in Linked(tbl, infra)}, NodeLimit,
          LAMBDA a, b : Lex(<<b.degree, b.families>>, <<a.degree, a.families>>))

EntityGraph(tbl, infra) ==
    LET kept == {n.entity : n \in Nodes(tbl, infra)} IN
    [nodes |-> kept, edges |-> {e \in Edges(tbl, infra) : e \subseteq kept},
     total |-> Cardinality(Linked(tbl, infra)),
     truncated |-> Cardinality(Linked(tbl, infra)) > Cardinality(kept)]

-----------------------------------------------------------------------------
(* timeline                                                                 *)

\* _TIMELINE_WHY: a technique, a high rule, a notable action, a failure.
Notable(r) == AttackEvidence(r) \/ r.salient

TimelineHead(tbl, ids) ==
    LET key(i) == IF i \in Timed(tbl) THEN <<0, TsParsed(tbl[i]), i>> ELSE <<1, 0, i>>
    IN  FirstOf(ids, TimelineLimit, LAMBDA i, j : Lex(key(i), key(j)))

\* Where nothing is notable, the plain chronological head.
Timeline(tbl) ==
    LET notable == {i \in Rows(tbl) : Notable(tbl[i])}
    IN  TimelineHead(tbl, IF notable = {} THEN Rows(tbl) ELSE notable)

-----------------------------------------------------------------------------
(* killchain, host_killchain, technique_catalog, host_overview              *)

InPhase(tbl, p) == {i \in Rows(tbl) : KcPhase(tbl[i]) = p}

Observed(tbl) == {KcPhase(tbl[i]) : i \in Rows(tbl)} \ {0}

\* One row per observed phase; first and last are None where no event of
\* the phase has a time.
Killchain(tbl) ==
    [p \in Observed(tbl) |->
        LET ids == InPhase(tbl, p) \cap Timed(tbl) IN
        [events |-> Cardinality(InPhase(tbl, p)),
         first |-> IF ids = {} THEN None ELSE Earliest(tbl, ids),
         last  |-> IF ids = {} THEN None ELSE Latest(tbl, ids)]]

OnHost(tbl, h) == {i \in Rows(tbl) : Canon(tbl[i], "host") = h}

\* What the hosts are ranked by; depth 0: evidence the map cannot place.
HostRow(tbl, h) ==
    [host |-> h, max_order |-> Deepest({KcPhase(tbl[i]) : i \in OnHost(tbl, h)}),
     attack_events |-> Cardinality({i \in OnHost(tbl, h) : AttackEvidence(tbl[i])}),
     phases |-> Cardinality({KcPhase(tbl[i]) : i \in OnHost(tbl, h)} \ {0})]

\* Depth first, then breadth, then bulk (the name, which breaks what is still
\* a tie, is left to the choice of FirstOf).
AboveHost(a, b) ==
    Lex(<<b.max_order, b.phases, b.attack_events>>, <<a.max_order, a.phases, a.attack_events>>)

\* The triage list: the head of the hosts with evidence.
WithEvidence(tbl) == {h \in Distinct(tbl, "host") : \E i \in OnHost(tbl, h) : AttackEvidence(tbl[i])}
HostKillchain(tbl) == FirstOf({HostRow(tbl, h) : h \in WithEvidence(tbl)}, HostLimit, AboveHost)

HostOverview(tbl) ==
    [h \in Distinct(tbl, "host") |->
        [events |-> Cardinality(OnHost(tbl, h)),
         detections |-> Cardinality({i \in OnHost(tbl, h) : AttackEvidence(tbl[i])})]]

\* The techniques seen most.
TechniqueCatalog(tbl) ==
    FirstOf({[technique |-> t, hits |-> Cardinality({i \in Rows(tbl) : t \in Techniques(tbl[i])})] :
                t \in UNION {Techniques(tbl[i]) : i \in Rows(tbl)}},
          TechniqueLimit, LAMBDA a, b : a.hits > b.hits)

-----------------------------------------------------------------------------
(* phase_corroboration                                                      *)

\* coalesce(family, source, '(unnamed source)').
ToolName(r) == IF Family(r) = None THEN "(unnamed source)" ELSE Family(r)

\* Mutant: without the name, NOT IN over a NULL is NULL.
NotAmongNullable(r, phaseRows) ==
    Family(r) # None /\ \A s \in phaseRows : Family(s) # None /\ Family(s) # Family(r)

\* The tool has no event in the phase.
NotAmong(r, phaseRows) == ToolName(r) \notin {ToolName(s) : s \in phaseRows}

\* The events of the silent tools within the padded window of phase p.
Quiet(tbl, p) ==
    LET row == Killchain(tbl)[p] IN
    IF row.first = None THEN {}
    ELSE {i \in Timed(tbl) :
            /\ ~AttackEvidence(tbl[i])
            /\ NotAmong(tbl[i], {tbl[j] : j \in InPhase(tbl, p)})
            /\ TsParsed(tbl[i]) >= row.first - Gap /\ TsParsed(tbl[i]) <= row.last + Gap}

\* The tools named, busiest first.
Corroboration(tbl, p) ==
    LET tools == {ToolName(tbl[i]) : i \in Quiet(tbl, p)}
        count == [s \in tools |-> Cardinality({i \in Quiet(tbl, p) : ToolName(tbl[i]) = s})]
    IN  FirstOf(tools, FamilyLimit, LAMBDA s, u : count[s] > count[u])

=============================================================================
