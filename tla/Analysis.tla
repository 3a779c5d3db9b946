------------------------------- MODULE Analysis -------------------------------
(***************************************************************************)
(* A case that grows and is looked at again (analytics/runner.py,          *)
(* baseline.py): every analysis covers the whole case, its digest is kept  *)
(* in case.json, and the next one tells what changed since (delta).        *)
(* Between two looks the case takes further uploads, and the analyst may   *)
(* declare addresses to be infrastructure.                                 *)
(***************************************************************************)
EXTENDS Recipes

CONSTANTS
    Uploads,        \* what may be added to the case: sequences of records
    Addresses,      \* what an analyst may declare
    DigestCap,      \* _DIGEST_CAP: rows a digest keeps of a section
    MaxUploads,     \* bound: uploads a case takes
    Faults          \* may case.json be unreadable, or unwritable, for a moment

ASSUME AnalysisAssumption ==
    MaxUploads \in Nat /\ DigestCap \in Nat \ {0} /\ Faults \in BOOLEAN

\* The records there are.
Record == UNION {ToSet(u) : u \in Uploads}

\* A time that parses is an instant, and no tool has the name of none.
ASSUME UploadsAssumption ==
    /\ Uploads \subseteq Seq(Record)
    /\ \A r \in Record :
          /\ r.ts.form # "junk" => r.ts.time \in Int
          /\ Family(r) # "(unnamed source)"

VARIABLES
    taken,  \* the uploads of the case, oldest first
    tbl,    \* its events table
    infra,  \* infrastructure_ips
    digest, \* last_analysis (None: there is none)
    told,   \* the answer of an analysis that has just run (None: another step did)
    seen    \* history: the table and the infrastructure the digest was taken of

vars == <<taken, tbl, infra, digest, told, seen>>

-----------------------------------------------------------------------------
(* analyze_con and analysis_digest: the sections a delta is computed from.  *)

ByStrength(a, b) ==
    Lex(<<Confidence(b), b.families, b.occurrences, KindWeight[b.kind]>>,
        <<Confidence(a), a.families, a.occurrences, KindWeight[a.kind]>>)

Result(t, inf) ==
    [summary |-> Summary(t),
     shared_indicators |-> SharedIndicators(t, inf),
     technique_catalog |-> {c.technique : c \in TechniqueCatalog(t)},
     killchain |-> Observed(t),
     incident_clusters |-> IncidentClusters(t, inf),
     episodes |-> {e.start : e \in Episodes(t)}]

\* Mutant: the digest knows a bridge by its indicator alone.
NameOnly(b) == <<b.name>>

Key(b) == <<b.kind, b.name>>

\* The rows come strongest first, and the digest keeps their head: each
\* bridge's number of tools.  The other sections do not reach the cap here.
Kept(bridges) ==
    LET kept == FirstOf(bridges, DigestCap, ByStrength)
    IN  [k \in {Key(b) : b \in kept} |-> (CHOOSE b \in kept : Key(b) = k).families]

Digest(r) ==
    [r EXCEPT !.shared_indicators = Kept(@),
              !.incident_clusters =
        [clusters |-> Cardinality(@), entities |-> FoldSet(LAMBDA c, n : n + c.entities, 0, @)]]

NoDigest ==
    [summary |-> [events |-> 0, by_source |-> <<>>], shared_indicators |-> <<>>,
     technique_catalog |-> {}, killchain |-> {},
     incident_clusters |-> [clusters |-> 0, entities |-> 0], episodes |-> {}]

-----------------------------------------------------------------------------
(* baseline.delta                                                           *)

\* Mutant: either is enough.
FewerOrMore(b, a) == a.clusters < b.clusters \/ a.entities > b.entities

\* Fewer clusters with more entities.
Merged(b, a) == a.clusters < b.clusters /\ a.entities > b.entities

Delta(before, r) ==
    LET b == IF before = None THEN NoDigest ELSE before
        a == Digest(r)
        known == DOMAIN b.shared_indicators
        prior(c) == {k \in known : k = Key(c)}
    IN
    [first_analysis |-> before = None,
     new_events |-> a.summary.events - b.summary.events,
     new_sources |-> DOMAIN a.summary.by_source \ DOMAIN b.summary.by_source,
     new_bridges |-> {<<c.kind, c.name>> : c \in {d \in r.shared_indicators : prior(d) = {}}},
     strengthened |-> {<<c.kind, c.name>> : c \in {d \in r.shared_indicators :
                          \E k \in prior(d) : d.families > b.shared_indicators[k]}},
     new_techniques |-> a.technique_catalog \ b.technique_catalog,
     kc_before |-> Deepest(b.killchain), kc_after |-> Deepest(a.killchain),
     clusters_merged |-> Merged(b.incident_clusters, a.incident_clusters),
     new_episodes |-> Cardinality(a.episodes \ b.episodes)]

-----------------------------------------------------------------------------
(* baseline.diff: what records hold that a clean reference does not.  It    *)
(* compares the records themselves, in the wording they have.               *)

Diff(current, baseline) ==
    LET value(r, c)    == IF c \in Field THEN r.cell[c] ELSE r.col[c]
        values(t, cols) == {[c \in cols |-> value(r, c)] : r \in {s \in ToSet(t) : \A c \in cols : value(s, c) # None}}
        new(cols)      == values(current, cols) \ values(baseline, cols)
        techniques(t)  == UNION {r.techniques : r \in ToSet(t)}
    IN  [new_processes |-> new({"process"}), new_dst_ips |-> new({"dst_ip"}),
         new_dns |-> new({"dns"}), new_parent_child |-> new({"parent", "process"}),
         new_techniques |-> techniques(current) \ techniques(baseline)]

-----------------------------------------------------------------------------

Init ==
    /\ taken = <<>> /\ tbl = <<>> /\ infra = {}
    /\ digest = None /\ told = None
    /\ seen = [tbl |-> <<>>, infra |-> {}]

\* Mutant: without the content signature.
IngestAgain(u) ==
    /\ Len(taken) < MaxUploads
    /\ taken' = Append(taken, u) /\ tbl' = tbl \o u
    /\ told' = None
    /\ UNCHANGED <<infra, digest, seen>>

\* append: the records of an upload the case does not hold yet.
Ingest(u) ==
    /\ Len(taken) < MaxUploads
    /\ u \notin ToSet(taken)
    /\ taken' = Append(taken, u) /\ tbl' = tbl \o u
    /\ told' = None
    /\ UNCHANGED <<infra, digest, seen>>

\* set_infrastructure_ips.
Declare(s) ==
    /\ infra' = s
    /\ told' = None
    /\ UNCHANGED <<taken, tbl, digest, seen>>

\* load_analysis_digest, analyze_case, delta, save_analysis_digest; the last
\* absorbs an unwritable case.json.
Analyze ==
    LET r == Result(tbl, infra) IN
    /\ tbl # <<>>
    /\ told' = Delta(digest, r)
    /\ \/ digest' = Digest(r) /\ seen' = [tbl |-> tbl, infra |-> infra]
       \/ Faults /\ UNCHANGED <<digest, seen>>
    /\ UNCHANGED <<taken, tbl, infra>>

\* case.json cannot be read: no digest, and no infrastructure is applied.
AnalyzeBlind ==
    /\ Faults /\ tbl # <<>>
    /\ told' = Delta(None, Result(tbl, {}))
    /\ UNCHANGED <<taken, tbl, infra, digest, seen>>

Next ==
    \/ \E u \in Uploads : Ingest(u)
    \/ \E s \in SUBSET Addresses : Declare(s)
    \/ Analyze
    \/ AnalyzeBlind

Spec == Init /\ [][Next]_vars

-----------------------------------------------------------------------------
(* Properties                                                               *)

TypeOK ==
    /\ taken \in Seq(Uploads) /\ Len(taken) <= MaxUploads /\ IsInjective(taken)
    /\ tbl \in Seq(Record)
    /\ infra \in SUBSET Addresses
    /\ IsPrefix(seen.tbl, tbl)
    /\ (digest = None) <=> (seen.tbl = <<>>)

\* The union-find of incident_clusters, path compression included, finds the
\* connected components of what the attack map draws: no link leaves a
\* component, and none falls apart into two sets without a link between them.
ClustersAreComponents ==
    LET links == Edges(tbl, infra) IN
    \A comp \in Components(tbl, infra) :
        LET inside == {e \in links : e \cap comp # {}}
            one    == CHOOSE e \in comp : TRUE
        IN  /\ \A e \in inside : e \subseteq comp
            /\ \A S \in SUBSET (comp \ {one}) : S # {} => \E e \in inside : e \cap S # {} /\ ~(e \subseteq S)

\* Episodes are what the session gap says: two events are in one episode iff
\* no silence longer than the gap lies between them, in whatever order they
\* were stored and however their times were spelled (the window query of
\* episodes over ts_parsed).
EpisodesAreSessions ==
    LET at(i) == TsParsed(tbl[i])
        no == EpisodeNo(tbl)
        silenceAfter(k) == \A m \in Timed(tbl) : at(m) > at(k) => at(m) - at(k) > Gap
    IN  \A i, j \in Timed(tbl) :
            at(i) <= at(j) =>
                ((no[i] = no[j]) <=>
                 ~\E k \in Timed(tbl) : at(i) <= at(k) /\ at(k) < at(j) /\ silenceAfter(k))

\* The two views of one page agree on the machines, whatever the spellings of
\* a host: a row of the triage list of host_killchain has its row in
\* host_overview, with as many detections.  And no evidence is lost on the way
\* to the triage list: a host one of whose events carries a technique, even one
\* the offline map does not know, or a declared tactic, is in the list
\* (attack_evidence of store.py), unless the list has all the rows it may have
\* (limit of host_killchain), each for a host at least as deep as that event.
HostsAgree ==
    LET rows   == HostOverview(tbl)
        triage == HostKillchain(tbl)
    IN  /\ \A a \in triage :
              /\ a.host \in DOMAIN rows
              /\ a.attack_events = rows[a.host].detections /\ a.attack_events > 0
        /\ \A i \in Rows(tbl) :
              /\ Canon(tbl[i], "host") # None
              /\ Techniques(tbl[i]) # {} \/ PhasesOf(tbl[i].tactics) # {}
              => \/ \E a \in triage : a.host = Canon(tbl[i], "host")
                 \/ /\ Cardinality(triage) = HostLimit
                    /\ \A a \in triage : a.max_order >= KcPhase(tbl[i])

\* No tool is silently absent from the account of a phase: one that was
\* active in the phase's window is among the phase's own sources or is named
\* in its corroboration, even when some record has no source (NOT IN over
\* NULL).  What is quoted as corroboration is no phase's evidence.
NoSilentAbsence ==
    \A p \in Observed(tbl) :
        LET row == Killchain(tbl)[p] IN
        row.first # None =>
            \A i \in Timed(tbl) :
                /\ Family(tbl[i]) # None /\ ~AttackEvidence(tbl[i])
                /\ TsParsed(tbl[i]) \in (row.first - Gap)..(row.last + Gap)
                => \/ Family(tbl[i]) \in FamiliesOf(tbl, InPhase(tbl, p))
                   \/ Family(tbl[i]) \in Corroboration(tbl, p)
                   \/ Cardinality(Corroboration(tbl, p)) = FamilyLimit

\* The kind of an entity sets the band of its bridge: corroboration never
\* lifts a bridge above one of a stronger kind, if neither has a penalty
\* (the arithmetic of _confidence).
BandsHold ==
    \A a, b \in SharedIndicators(tbl, infra) :
        Penalty(a) = 0 /\ Penalty(b) = 0 /\ KindWeight[a.kind] > KindWeight[b.kind]
            => Confidence(a) > Confidence(b)

\* A beacon is judged by its connections: a flow is reported, or not, as it
\* would be if every connection had left one row, its first (the folding of
\* beaconing).  Stated of flows all of whose rows carry a source port.
BeaconsByConnection ==
    \A flow \in Flows(tbl) :
        (\A i \in flow : tbl[i].col["src_port"] # None) =>
            LET port(i)  == tbl[i].col["src_port"]
                firsts   == {i \in flow : \A j \in flow : port(j) = port(i) => ~Sooner(tbl, j, i)}
                gaps     == GapsOf(tbl, {{i} : i \in firsts})
            IN  (flow \in Beaconing(tbl))
                    <=> (Cardinality(firsts) >= MinEvents /\ Metronome(gaps))

\* What an analysis tells of the bridges is what changed since the digest it
\* compares with: new are those the case did not have, stronger those that
\* more tools see now (delta against analysis_digest, if no row fell off the
\* digest's end).  Nothing that changed is left out, nothing is told twice.
TellsBridges ==
    told' # told /\ told' # None =>
        LET before == IF told'.first_analysis THEN {}
                      ELSE SharedIndicators(seen.tbl, seen.infra)
            now    == SharedIndicators(tbl, infra)
            same(a, b) == a.kind = b.kind /\ a.name = b.name
        IN  Cardinality(before) <= DigestCap =>
            /\ told'.new_bridges =
                 {<<b.kind, b.name>> : b \in {c \in now : ~\E a \in before : same(a, c)}}
            /\ told'.strengthened =
                 {<<b.kind, b.name>> : b \in {c \in now : \E a \in before : same(a, c) /\ c.families > a.families}}

BridgesTold == [][TellsBridges]_vars

\* A merge is never invented: when an analysis says separate clusters became
\* one and the infrastructure is what it was, two clusters of the earlier
\* analysis lie in one of this one (clusters_merged).
MergedIsMerged ==
    [][told' # told /\ told' # None /\ told'.clusters_merged /\ infra = seen.infra =>
        \E c \in IncidentClusters(tbl, infra) :
            Cardinality({d \in IncidentClusters(seen.tbl, seen.infra) :
                            d.members \subseteq c.members}) > 1
      ]_vars

=============================================================================
