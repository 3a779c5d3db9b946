------------------------------ MODULE EventTable ------------------------------
(***************************************************************************)
(* The events table (analytics/store.py): what a record of the common      *)
(* schema becomes when it is loaded, with the entity columns of            *)
(* normalize.py and the ATT&CK columns of attack.py.                       *)
(*                                                                         *)
(* A cell of a record is a spelling [name, realm, form]: two spellings of  *)
(* one entity have one name.  realm is the sequence of labels of the       *)
(* domain an identity is spelled with (CORP is <<corp>>, corp.example      *)
(* <<corp, example>>); form is the rest of the wording (case, path, prefix *)
(* of a hash), "junk" where the wording is no value of its kind.  A phase  *)
(* of the kill chain is its number, 0 where there is none.                 *)
(***************************************************************************)
EXTENDS Naturals, Sequences, FiniteSets

CONSTANTS
    Generic,        \* names that identify nothing: SYSTEM, DC1$, 127.0.0.1, svchost.exe
    TacticsIn,      \* the ATT&CK map: technique |-> its tactics ({}: not in the map)
    ParentOf,       \* sub-technique |-> the technique before the dot (others: themselves)
    PhaseOfTactic,  \* tactic |-> phase (0: an unknown tactic)
    None            \* NULL

Tid    == DOMAIN TacticsIn
Tactic == DOMAIN PhaseOfTactic
Phase  == 1..7

ASSUME MapAssumption ==
    /\ \A t \in Tid : ParentOf[t] \in Tid /\ TacticsIn[t] \subseteq Tactic
    /\ \A c \in Tactic : PhaseOfTactic[c] \in Phase \cup {0}

\* The columns that name an entity, in the order _record_entities reads them.
Fields == <<"user", "host", "src_ip", "dst_ip", "dns", "hash", "md5", "file">>
Field  == {Fields[k] : k \in DOMAIN Fields}

KindOf(f) == CASE f \in {"src_ip", "dst_ip"} -> "ip"
               [] f = "dns"                  -> "domain"
               [] f \in {"hash", "md5"}      -> "file_hash"
               [] OTHER                      -> f

-----------------------------------------------------------------------------
(* normalize.py                                                             *)

\* canon_user .. canon_file: the entity, whatever its spelling.  What is no
\* hash is dropped; a host name in an address column stays.
Canon(r, f) ==
    LET s == r.cell[f] IN
    IF s = None \/ (KindOf(f) = "file_hash" /\ s.form = "junk") THEN None ELSE s.name

\* is_generic_*: a hash is never generic, an address that is not one always.
IsGeneric(r, f) ==
    /\ KindOf(f) # "file_hash"
    /\ Canon(r, f) \in Generic \cup {None} \/ (KindOf(f) = "ip" /\ r.cell[f].form = "junk")

\* user_domain, host_domain.
Realm(r, f) == IF r.cell[f] = None THEN <<>> ELSE r.cell[f].realm

\* The realms cannot be one realm: CORP and corp.example agree on their
\* first label, an unknown realm agrees with all.
RealmsConflict(realms) == Cardinality({d[1] : d \in realms \ {<<>>}}) > 1

\* source_family: the label of event.source without the file it came from.
Family(r) == IF r.source = None THEN None ELSE r.source.family

\* An entity the correlation may link on.
Names(r, f) == Canon(r, f) # None /\ ~IsGeneric(r, f)

Entity(r, f) == <<KindOf(f), Canon(r, f)>>

-----------------------------------------------------------------------------
(* attack.py                                                                *)

\* split_techniques: free text in the column is no technique.
Techniques(r) == r.techniques \cap Tid

\* tactics_of: a sub-technique without tactics has its parent's.
TacticsOf(t) == IF TacticsIn[t] # {} THEN TacticsIn[t] ELSE TacticsIn[ParentOf[t]]

PhasesOf(tactics) == {PhaseOfTactic[c] : c \in tactics \cap Tactic} \ {0}

\* _attack_of: what the techniques imply and what the rule declares.
Tactics(r) == (UNION {TacticsOf(t) : t \in Techniques(r)}) \cup r.tactics

Deepest(phases) ==
    IF phases = {} THEN 0 ELSE CHOOSE p \in phases : \A q \in phases : q <= p

\* kc_phase and kc_order: the deepest phase of all of them.
KcPhase(r) == Deepest(PhasesOf(Tactics(r)))

\* Mutant: a record counts as evidence by its phase alone.
HasPhase(r) == KcPhase(r) # 0

\* attack_evidence: a phase, or a technique the map may not know.
AttackEvidence(r) == KcPhase(r) # 0 \/ Techniques(r) # {}

-----------------------------------------------------------------------------
(* insert_records                                                           *)

\* ts_parsed: the instant in UTC, whatever the spelling; None if there is none.
\* A spelling is [form, time]; "offset" is an instant written in a zone ahead
\* of UTC, "epoch" one in seconds.
TsParsed(r) == IF r.ts.form = "junk" THEN None ELSE r.ts.time

Timed(tbl) == {i \in DOMAIN tbl : TsParsed(tbl[i]) # None}

Rows(tbl) == DOMAIN tbl

-----------------------------------------------------------------------------
(* summary                                                                  *)

Distinct(tbl, f) == {Canon(tbl[i], f) : i \in Rows(tbl)} \ {None}

\* by_source: events per tool family.
BySource(tbl) ==
    [s \in {Family(tbl[i]) : i \in Rows(tbl)} |->
        Cardinality({i \in Rows(tbl) : Family(tbl[i]) = s})]

Summary(tbl) ==
    [events |-> Len(tbl), by_source |-> BySource(tbl),
     distinct_hosts |-> Cardinality(Distinct(tbl, "host")),
     distinct_users |-> Cardinality(Distinct(tbl, "user"))]

=============================================================================
