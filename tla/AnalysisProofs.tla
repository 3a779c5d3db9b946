--------------------------- MODULE AnalysisProofs ---------------------------
(***************************************************************************)
(* What holds of the analysis for every case, whatever its records are:    *)
(* the bands of the bridges' confidences, which need no more than their    *)
(* definition; what delta tells of the bridges, which needs to know what   *)
(* the digest it compares with was taken of (DigestOfSeen); the types; and *)
(* of the sections of a result over any table, that a table of records and *)
(* the least or greatest row of a finite set of them are all they need:    *)
(* the host of a bridge, the tools a phase names or leaves out, the        *)
(* sessions the numbered starts of the episodes stand for, the gaps of the *)
(* beacons, and last the union-find behind the clusters, whose find and    *)
(* whose loop over the events are recursive functions, and what becomes of *)
(* the clusters when the table takes more rows.                            *)
(***************************************************************************)
EXTENDS Analysis, TLAPS, FiniteSetTheorems, SequenceTheorems

\* The kinds of a bridge are the six that have a weight.
LEMMA BridgeKinds ==
    ASSUME NEW t, NEW inf, NEW b \in SharedIndicators(t, inf)
    PROVE  b.kind \in Kind
<1>1. PICK e \in {Entity(t[p[1]], p[2]) : p \in Indicators(t)} :
          b = Bridge(t, e, {p \in Indicators(t) : Entity(t[p[1]], p[2]) = e}, inf)
  BY DEF SharedIndicators
<1>2. PICK p \in Indicators(t) : e = Entity(t[p[1]], p[2])
  OBVIOUS
<1>3. b.kind = e[1]
  BY <1>1 DEF Bridge
<1>4. e[1] = KindOf(p[2])
  BY <1>2 DEF Entity
<1>5. p[2] \in Field
  BY DEF Indicators
<1>6. Field = {"user", "host", "src_ip", "dst_ip", "dns", "hash", "md5", "file"}
  BY DEF Field, Fields
<1>7. QED
  BY <1>3, <1>4, <1>5, <1>6 DEF KindOf, Kind

\* Corroboration lifts a bridge by less than what lies between two kinds.
LEMMA Bands ==
    ASSUME NEW a, NEW b, a.kind \in Kind, b.kind \in Kind, Penalty(a) = 0, Penalty(b) = 0,
           KindWeight[a.kind] > KindWeight[b.kind]
    PROVE  Confidence(a) > Confidence(b)
<1>1. KindWeight[a.kind] \in {85, 70, 55, 40, 25, 10} /\ KindWeight[b.kind] \in {85, 70, 55, 40, 25, 10}
  BY DEF KindWeight, Kind
<1>2. Boost(a.families) \in {0, 5, 10} /\ Boost(b.families) \in {0, 5, 10}
  BY DEF Boost
<1>3. Confidence(a) = KindWeight[a.kind] + Boost(a.families)
  BY <1>1, <1>2 DEF Confidence
<1>4. Confidence(b) = KindWeight[b.kind] + Boost(b.families)
  BY <1>1, <1>2 DEF Confidence
<1>5. QED
  BY <1>1, <1>2, <1>3, <1>4

\* The kind of an entity sets the band of its bridge, whatever a case holds
\* (the arithmetic of _confidence).
THEOREM ConfidenceBands == Spec => []BandsHold
<1>1. BandsHold
  BY BridgeKinds, Bands DEF BandsHold
<1>2. QED
  BY <1>1, PTL

-----------------------------------------------------------------------------

\* A digest is of the uploads and the infrastructure seen says.
DigestOfSeen ==
    digest # None => digest = Digest(Result(seen.tbl, seen.infra))

\* It is, at first and after every step.
LEMMA DigestInit == Init => DigestOfSeen
BY DEF Init, DigestOfSeen

LEMMA DigestStep == DigestOfSeen /\ [Next]_vars => DigestOfSeen'
<1> SUFFICES ASSUME DigestOfSeen, [Next]_vars PROVE DigestOfSeen'
  OBVIOUS
<1>1. ASSUME NEW u \in Uploads, Ingest(u) PROVE DigestOfSeen'
  BY <1>1 DEF Ingest, DigestOfSeen
<1>2. ASSUME NEW s \in SUBSET Addresses, Declare(s) PROVE DigestOfSeen'
  BY <1>2 DEF Declare, DigestOfSeen
<1>3. CASE Analyze
  <2>1. CASE digest' = Digest(Result(tbl, infra)) /\ seen' = [tbl |-> tbl, infra |-> infra]
    BY <2>1 DEF DigestOfSeen
  <2>2. CASE UNCHANGED <<digest, seen>>
    BY <2>2 DEF DigestOfSeen
  <2>3. QED
    BY <1>3, <2>1, <2>2 DEF Analyze
<1>4. CASE AnalyzeBlind
  BY <1>4 DEF AnalyzeBlind, DigestOfSeen
<1>5. CASE UNCHANGED vars
  BY <1>5 DEF vars, DigestOfSeen
<1>6. QED
  BY <1>1, <1>2, <1>3, <1>4, <1>5 DEF Next

-----------------------------------------------------------------------------

\* A bridge is told from the others by its kind and its name.
LEMMA OneBridgePerKey ==
    ASSUME NEW t, NEW inf, NEW a \in SharedIndicators(t, inf), NEW b \in SharedIndicators(t, inf),
           Key(a) = Key(b)
    PROVE  a = b
<1> DEFINE Occ(e) == {p \in Indicators(t) : Entity(t[p[1]], p[2]) = e}
<1>1. PICK e \in {Entity(t[p[1]], p[2]) : p \in Indicators(t)} : a = Bridge(t, e, Occ(e), inf)
  BY DEF SharedIndicators
<1>2. PICK f \in {Entity(t[p[1]], p[2]) : p \in Indicators(t)} : b = Bridge(t, f, Occ(f), inf)
  BY DEF SharedIndicators
<1>3. PICK p \in Indicators(t), q \in Indicators(t) : e = Entity(t[p[1]], p[2]) /\ f = Entity(t[q[1]], q[2])
  OBVIOUS
<1>4. a.kind = e[1] /\ a.name = e[2] /\ b.kind = f[1] /\ b.name = f[2]
  BY <1>1, <1>2 DEF Bridge
<1>5. e[1] = f[1] /\ e[2] = f[2]
  BY <1>4 DEF Key
<1>6. e = <<e[1], e[2]>> /\ f = <<f[1], f[2]>>
  BY <1>3 DEF Entity
<1>7. e = f
  BY <1>5, <1>6
<1>8. QED
  BY <1>1, <1>2, <1>7

\* Which addresses are infrastructure decides no bridge, only its confidence.
LEMMA InfraKeepsBridges ==
    ASSUME NEW t, NEW inf, NEW other
    PROVE  {<<b.kind, b.name>> : b \in SharedIndicators(t, inf)}
             \subseteq {<<b.kind, b.name>> : b \in SharedIndicators(t, other)}
<1> DEFINE Occ(e) == {p \in Indicators(t) : Entity(t[p[1]], p[2]) = e}
<1> SUFFICES ASSUME NEW a \in SharedIndicators(t, inf)
             PROVE  \E b \in SharedIndicators(t, other) : b.kind = a.kind /\ b.name = a.name
  OBVIOUS
<1>1. PICK e \in {Entity(t[p[1]], p[2]) : p \in Indicators(t)} : a = Bridge(t, e, Occ(e), inf)
  BY DEF SharedIndicators
<1> DEFINE b == Bridge(t, e, Occ(e), other)
<1>2. b.kind = a.kind /\ b.name = a.name /\ b.families = a.families
  BY <1>1 DEF Bridge
<1>3. a.families > 1
  BY DEF SharedIndicators
<1>4. b \in SharedIndicators(t, other)
  BY <1>1, <1>2, <1>3 DEF SharedIndicators
<1>5. QED
  BY <1>2, <1>4

\* A digest whose cap no bridge fell off knows the tools of each of them.
LEMMA DigestKnows ==
    ASSUME NEW t, NEW inf, Cardinality(SharedIndicators(t, inf)) <= DigestCap
    PROVE  LET d == Digest(Result(t, inf)).shared_indicators IN
             /\ DOMAIN d = {Key(b) : b \in SharedIndicators(t, inf)}
             /\ \A b \in SharedIndicators(t, inf) : d[Key(b)] = b.families
<1> DEFINE S == SharedIndicators(t, inf)
<1>1. Digest(Result(t, inf)).shared_indicators = Kept(S)
  BY DEF Digest, Result
<1>2. FirstOf(S, DigestCap, ByStrength) = S
  BY DEF FirstOf
<1>3. Kept(S) = [k \in {Key(b) : b \in S} |-> (CHOOSE b \in S : Key(b) = k).families]
  BY <1>2 DEF Kept
<1>4. ASSUME NEW b \in S PROVE (CHOOSE c \in S : Key(c) = Key(b)) = b
  BY OneBridgePerKey
<1>5. QED
  BY <1>1, <1>3, <1>4

\* What delta tells of the bridges against such a digest.
LEMMA DeltaTells ==
    ASSUME NEW t, NEW inf, NEW t0, NEW inf0, NEW before,
           before # None => /\ before = Digest(Result(t0, inf0))
                            /\ Cardinality(SharedIndicators(t0, inf0)) <= DigestCap
    PROVE  LET was == IF before = None THEN {} ELSE SharedIndicators(t0, inf0)
               now == SharedIndicators(t, inf)
               d   == Delta(before, Result(t, inf))
           IN  /\ d.first_analysis = (before = None)
               /\ d.new_bridges = {<<b.kind, b.name>> : b \in {c \in now : ~\E a \in was : Key(a) = Key(c)}}
               /\ d.strengthened = {<<b.kind, b.name>> :
                    b \in {c \in now : \E a \in was : Key(a) = Key(c) /\ c.families > a.families}}
<1> DEFINE B    == IF before = None THEN NoDigest ELSE before
           was  == IF before = None THEN {} ELSE SharedIndicators(t0, inf0)
           now  == SharedIndicators(t, inf)
           d    == Delta(before, Result(t, inf))
           prior(c) == {k \in DOMAIN B.shared_indicators : k = Key(c)}
<1>1. /\ DOMAIN B.shared_indicators = {Key(a) : a \in was}
      /\ \A a \in was : B.shared_indicators[Key(a)] = a.families
  <2>1. CASE before = None
    BY <2>1 DEF NoDigest
  <2>2. CASE before # None
    BY <2>2, DigestKnows
  <2>3. QED
    BY <2>1, <2>2
<1>2. Result(t, inf).shared_indicators = now
  BY DEF Result
<1>3. /\ d.first_analysis = (before = None)
      /\ d.new_bridges = {<<c.kind, c.name>> : c \in {x \in now : prior(x) = {}}}
      /\ d.strengthened = {<<c.kind, c.name>> : c \in {x \in now :
                              \E k \in prior(x) : x.families > B.shared_indicators[k]}}
  BY <1>2 DEF Delta
<1>4. ASSUME NEW c \in now PROVE (prior(c) = {}) <=> ~\E a \in was : Key(a) = Key(c)
  BY <1>1
<1>5. ASSUME NEW c \in now
      PROVE  (\E k \in prior(c) : c.families > B.shared_indicators[k])
               <=> \E a \in was : Key(a) = Key(c) /\ c.families > a.families
  BY <1>1
<1>6. QED
  BY <1>3, <1>4, <1>5

\* An analysis compares with the digest of what seen says.
LEMMA AnalyzeTells == DigestOfSeen /\ Analyze => TellsBridges
<1> SUFFICES ASSUME DigestOfSeen, Analyze,
                    Cardinality(IF told'.first_analysis THEN {}
                                ELSE SharedIndicators(seen.tbl, seen.infra)) <= DigestCap
             PROVE  TellsBridges
  BY DEF TellsBridges
<1> DEFINE t0   == seen.tbl
           was  == IF digest = None THEN {} ELSE SharedIndicators(t0, seen.infra)
           now  == SharedIndicators(tbl, infra)
<1>1. told' = Delta(digest, Result(tbl, infra))
  BY DEF Analyze
<1>2. told'.first_analysis = (digest = None)
  BY <1>1 DEF Delta
<1>3. digest # None => /\ digest = Digest(Result(t0, seen.infra))
                       /\ Cardinality(SharedIndicators(t0, seen.infra)) <= DigestCap
  BY <1>2 DEF DigestOfSeen
<1>4. /\ told'.new_bridges = {<<b.kind, b.name>> : b \in {c \in now : ~\E a \in was : Key(a) = Key(c)}}
      /\ told'.strengthened = {<<b.kind, b.name>> :
            b \in {c \in now : \E a \in was : Key(a) = Key(c) /\ c.families > a.families}}
  BY <1>1, <1>3, DeltaTells
<1>5. \A a, c : Key(a) = Key(c) <=> a.kind = c.kind /\ a.name = c.name
  BY DEF Key
<1>6. was = IF told'.first_analysis THEN {} ELSE SharedIndicators(t0, seen.infra)
  BY <1>2
<1> HIDE DEF was, now, t0
<1>7. /\ told'.new_bridges = {<<b.kind, b.name>> : b \in {c \in now : ~\E a \in was : a.kind = c.kind /\ a.name = c.name}}
      /\ told'.strengthened = {<<b.kind, b.name>> :
            b \in {c \in now : \E a \in was : (a.kind = c.kind /\ a.name = c.name) /\ c.families > a.families}}
  BY <1>4, <1>5
<1>8. QED
  BY <1>6, <1>7 DEF TellsBridges, now, t0

\* Blind, everything is new, and with no address declared; the bridges are
\* the same.
LEMMA BlindTells == AnalyzeBlind => TellsBridges
<1> SUFFICES ASSUME AnalyzeBlind PROVE TellsBridges
  OBVIOUS
<1> DEFINE now  == SharedIndicators(tbl, infra)
           blind == SharedIndicators(tbl, {})
<1>1. told' = Delta(None, Result(tbl, {}))
  BY DEF AnalyzeBlind
<1>2. /\ told'.first_analysis = (None = None)
      /\ told'.new_bridges = {<<b.kind, b.name>> : b \in {c \in blind : ~\E a \in {} : Key(a) = Key(c)}}
      /\ told'.strengthened = {<<b.kind, b.name>> :
            b \in {c \in blind : \E a \in {} : Key(a) = Key(c) /\ c.families > a.families}}
  BY <1>1, DeltaTells
<1>3. {<<b.kind, b.name>> : b \in blind} = {<<b.kind, b.name>> : b \in now}
  BY InfraKeepsBridges
<1>4. told'.new_bridges = {<<b.kind, b.name>> : b \in now} /\ told'.strengthened = {}
  BY <1>2, <1>3
<1>5. QED
  BY <1>2, <1>4 DEF TellsBridges

\* For every case, however it grew and whatever was declared between two
\* looks at it: new are the bridges the earlier look did not have, stronger
\* those that more tools see now (baseline.delta over analysis_digest).
THEOREM BridgesAreTold == Spec => BridgesTold
<1>1. DigestOfSeen /\ [Next]_vars => [TellsBridges]_vars
  <2> SUFFICES ASSUME DigestOfSeen, [Next]_vars, vars' # vars PROVE TellsBridges
    OBVIOUS
  <2>1. ASSUME NEW u \in Uploads, Ingest(u) PROVE TellsBridges
    BY <2>1 DEF Ingest, TellsBridges
  <2>2. ASSUME NEW s \in SUBSET Addresses, Declare(s) PROVE TellsBridges
    BY <2>2 DEF Declare, TellsBridges
  <2>3. QED
    BY <2>1, <2>2, AnalyzeTells, BlindTells DEF Next
<1>2. QED
  BY DigestInit, DigestStep, <1>1, PTL DEF Spec, BridgesTold

-----------------------------------------------------------------------------
(* The types.                                                               *)

\* None is told from every digest.
NoneIsNoDigest ==
    \A t \in Seq(Record), inf \in SUBSET Addresses : Digest(Result(t, inf)) # None

TypeInv == TypeOK /\ seen.tbl \in Seq(Record)

LEMMA TypeInit == Init => TypeInv
<1> SUFFICES ASSUME Init PROVE TypeInv
  OBVIOUS
<1>1. seen.tbl = <<>> /\ tbl = <<>> /\ taken = <<>> /\ digest = None /\ infra = {}
  BY DEF Init
<1>2. <<>> \in Seq(Record) /\ <<>> \in Seq(Uploads) /\ Len(<<>>) = 0
  BY EmptySeq
<1>3. IsPrefix(<<>>, <<>>)
  BY <1>2 DEF IsPrefix
<1>4. IsInjective(taken)
  BY <1>1 DEF IsInjective
<1>5. QED
  BY <1>1, <1>2, <1>3, <1>4, AnalysisAssumption DEF TypeInv, TypeOK

\* What more the table takes, it keeps what it began with.
LEMMA PrefixGrows ==
    ASSUME NEW S, NEW s \in Seq(S), NEW t \in Seq(S), NEW u \in Seq(S), IsPrefix(s, t)
    PROVE  IsPrefix(s, t \o u)
<1>1. Len(s) <= Len(t) /\ SubSeq(s, 1, Len(s)) = SubSeq(t, 1, Len(s))
  BY DEF IsPrefix
<1>2. Len(t \o u) = Len(t) + Len(u) /\ Len(s) \in Nat /\ Len(t) \in Nat /\ Len(u) \in Nat
  BY ConcatProperties, LenProperties
<1>3. SubSeq(t \o u, 1, Len(s)) = SubSeq(t, 1, Len(s))
  BY <1>1, <1>2, SubSeqOfConcat1
<1>4. QED
  BY <1>1, <1>2, <1>3 DEF IsPrefix

LEMMA PrefixOfItself ==
    ASSUME NEW S, NEW s \in Seq(S)
    PROVE  IsPrefix(s, s)
BY LenProperties DEF IsPrefix

LEMMA TypeStep == NoneIsNoDigest /\ TypeInv /\ [Next]_vars => TypeInv'
<1> SUFFICES ASSUME NoneIsNoDigest, TypeInv, [Next]_vars PROVE TypeInv'
  OBVIOUS
<1> USE DEF TypeInv, TypeOK
<1>1. ASSUME NEW u \in Uploads, Ingest(u) PROVE TypeInv'
  <2>1. taken' = Append(taken, u) /\ tbl' = tbl \o u /\ UNCHANGED <<infra, digest, seen>>
        /\ Len(taken) < MaxUploads /\ u \notin ToSet(taken)
    BY <1>1 DEF Ingest
  <2>2. u \in Seq(Record)
    BY UploadsAssumption
  <2>3. tbl' \in Seq(Record) /\ IsPrefix(seen.tbl, tbl')
    BY <2>1, <2>2, ConcatProperties, PrefixGrows
  <2>4. taken' \in Seq(Uploads) /\ Len(taken') <= MaxUploads
    BY <2>1, AnalysisAssumption, AppendProperties, LenProperties
  <2>5. IsInjective(taken')
    <3>1. DOMAIN taken = 1..Len(taken) /\ DOMAIN taken' = 1..(Len(taken) + 1) /\ Len(taken) \in Nat
      BY <2>1
    <3>2. \A i \in 1..Len(taken) : taken'[i] = taken[i] /\ taken[i] # u
      <4>1. \A i \in 1..Len(taken) : taken'[i] = taken[i]
        BY <2>1, AppendProperties
      <4>2. \A i \in 1..Len(taken) : taken[i] # u
        <5>1. u \notin {taken[i] : i \in DOMAIN taken}
          BY <2>1, Zenon DEF ToSet
        <5>2. QED
          BY <3>1, <5>1
      <4>3. QED
        BY <4>1, <4>2
    <3>3. taken'[Len(taken) + 1] = u
      BY <2>1
    <3>4. \A i, j \in 1..Len(taken) : taken[i] = taken[j] => i = j
      BY <3>1 DEF IsInjective
    <3>5. SUFFICES ASSUME NEW i \in 1..(Len(taken) + 1), NEW j \in 1..(Len(taken) + 1),
                          taken'[i] = taken'[j]
                   PROVE  i = j
      BY <3>1 DEF IsInjective
    <3>6. CASE i \in 1..Len(taken) /\ j \in 1..Len(taken)
      BY <3>2, <3>4, <3>5, <3>6
    <3>7. CASE i = Len(taken) + 1 \/ j = Len(taken) + 1
      BY <3>1, <3>2, <3>3, <3>5, <3>7
    <3>8. QED
      BY <3>1, <3>6, <3>7
  <2>6. QED
    BY <2>1, <2>3, <2>4, <2>5
<1>2. ASSUME NEW s \in SUBSET Addresses, Declare(s) PROVE TypeInv'
  BY <1>2 DEF Declare
<1>3. CASE Analyze
  <2>1. tbl # <<>> /\ UNCHANGED <<taken, tbl, infra>>
    BY <1>3 DEF Analyze
  <2>2. CASE UNCHANGED <<digest, seen>>
    BY <2>1, <2>2
  <2>3. CASE digest' = Digest(Result(tbl, infra)) /\ seen' = [tbl |-> tbl, infra |-> infra]
    <3>1. seen'.tbl = tbl /\ digest' # None
      BY <2>3 DEF NoneIsNoDigest
    <3>2. IsPrefix(tbl, tbl)
      BY PrefixOfItself
    <3>3. QED
      BY <2>1, <3>1, <3>2
  <2>4. QED
    BY <1>3, <2>2, <2>3 DEF Analyze
<1>4. CASE AnalyzeBlind
  BY <1>4 DEF AnalyzeBlind
<1>5. CASE UNCHANGED vars
  BY <1>5 DEF vars
<1>6. QED
  BY <1>1, <1>2, <1>3, <1>4, <1>5 DEF Next

\* A case takes an upload once, its table only grows, and there is a digest iff
\* there was a look at the table, whose rows are still its first.
THEOREM AnalysisTyped == NoneIsNoDigest => (Spec => []TypeOK)
<1>1. SUFFICES ASSUME NoneIsNoDigest PROVE Spec => []TypeOK
  OBVIOUS
<1>2. TypeInv /\ [Next]_vars => TypeInv'
  BY <1>1, TypeStep
<1>3. TypeInv => TypeOK
  BY DEF TypeInv
<1>4. QED
  BY <1>2, <1>3, TypeInit, PTL DEF Spec

-----------------------------------------------------------------------------
(* The table needs nothing of the digest.                                   *)

TableOK == tbl \in Seq(Record)

LEMMA TableAlways == Spec => []TableOK
<1>1. Init => TableOK
  BY EmptySeq DEF Init, TableOK
<1>2. TableOK /\ [Next]_vars => TableOK'
  <2> SUFFICES ASSUME TableOK, [Next]_vars PROVE TableOK'
    OBVIOUS
  <2>1. ASSUME NEW u \in Uploads, Ingest(u) PROVE TableOK'
    BY <2>1, UploadsAssumption, ConcatProperties DEF Ingest, TableOK
  <2>2. QED
    BY <2>1 DEF Next, Declare, Analyze, AnalyzeBlind, vars, TableOK
<1>3. QED
  BY <1>1, <1>2, PTL DEF Spec

\* The rows of a table are finitely many, and each is a record.
LEMMA TableRows ==
    ASSUME TableOK
    PROVE  /\ Rows(tbl) = 1..Len(tbl) /\ Len(tbl) \in Nat /\ IsFiniteSet(Rows(tbl))
           /\ \A i \in Rows(tbl) : tbl[i] \in Record
           /\ \A i \in Timed(tbl) : i \in Rows(tbl) /\ TsParsed(tbl[i]) \in Int
<1>1. Rows(tbl) = 1..Len(tbl) /\ Len(tbl) \in Nat
  BY LenProperties DEF TableOK, Rows
<1>2. IsFiniteSet(Rows(tbl))
  BY <1>1, FS_Interval
<1>3. \A i \in Rows(tbl) : tbl[i] \in Record
  BY <1>1, ElementOfSeq DEF TableOK
<1>4. \A i \in Timed(tbl) : i \in Rows(tbl) /\ TsParsed(tbl[i]) \in Int
  BY <1>3, UploadsAssumption DEF Timed, TsParsed, Rows
<1>5. QED
  BY <1>1, <1>2, <1>3, <1>4

\* The deepest of some phases is one of them.
LEMMA DeepestIsOne ==
    ASSUME NEW S \in SUBSET Phase, S # {}
    PROVE  Deepest(S) \in S /\ \A q \in S : q <= Deepest(S)
<1>1. \E p \in S : \A q \in S : q <= p
  <2>1. \A q \in S : q \in {1, 2, 3, 4, 5, 6, 7}
    BY DEF Phase
  <2>2. CASE 7 \in S
    BY <2>1, <2>2
  <2>3. CASE 6 \in S /\ 7 \notin S
    BY <2>1, <2>3
  <2>4. CASE 5 \in S /\ S \cap {6, 7} = {}
    BY <2>1, <2>4
  <2>5. CASE 4 \in S /\ S \cap {5, 6, 7} = {}
    BY <2>1, <2>5
  <2>6. CASE 3 \in S /\ S \cap {4, 5, 6, 7} = {}
    BY <2>1, <2>6
  <2>7. CASE S \cap {3, 4, 5, 6, 7} = {}
    <3>1. \A q \in S : q = 1 \/ q = 2
      BY <2>1, <2>7
    <3>2. QED
      BY <3>1
  <2>8. QED
    BY <2>1, <2>2, <2>3, <2>4, <2>5, <2>6, <2>7
<1>2. QED
  BY <1>1 DEF Deepest

\* A tactic the record declares reaches its phase.
LEMMA DeclaredIsEvidence ==
    ASSUME NEW r, PhasesOf(r.tactics) # {}
    PROVE  KcPhase(r) # 0
<1>1. PhasesOf(r.tactics) \subseteq PhasesOf(Tactics(r))
  <2>1. r.tactics \subseteq Tactics(r)
    BY DEF Tactics
  <2>2. QED
    BY <2>1 DEF PhasesOf
<1>2. PhasesOf(Tactics(r)) \subseteq Phase
  BY MapAssumption DEF PhasesOf, Tactic
<1>3. 0 \notin PhasesOf(Tactics(r))
  BY DEF PhasesOf
<1>4. QED
  BY <1>1, <1>2, <1>3, DeepestIsOne DEF KcPhase

-----------------------------------------------------------------------------
(* Finite sets of numbers, and the first n of a finite set                  *)

\* Every set of naturals has a least: what the proofs by induction rest on.
LEMMA LeastNat ==
    ASSUME NEW S \in SUBSET Nat, S # {}
    PROVE  \E n \in S : \A m \in S : n <= m
<1> DEFINE F == {0..n : n \in S}
           R == StrictSubsetOrdering(Nat)
           D == FiniteSubsetsOf(Nat)
<1>1. F \subseteq D
  <2> SUFFICES ASSUME NEW T \in F PROVE T \in D
    OBVIOUS
  <2>1. PICK n \in S : T = 0..n
    OBVIOUS
  <2>2. IsFiniteSet(0..n)
    BY FS_Interval
  <2>3. 0..n \subseteq Nat
    OBVIOUS
  <2> QED
    BY <2>1, <2>2, <2>3 DEF FiniteSubsetsOf
<1>2. F # {}
  OBVIOUS
<1>3. IsWellFoundedOn(R, D)
  BY FS_StrictSubsetOrderingWellFounded
<1>4. PICK T \in F : \A U \in F : <<U, T>> \notin R
  <2> HIDE DEF F, R, D
  <2> QED
    BY <1>1, <1>2, <1>3, WFMin
<1>5. PICK n \in S : T = 0..n
  OBVIOUS
<1>6. ASSUME NEW m \in S, ~(n <= m) PROVE FALSE
  <2>1. <<0..m, 0..n>> \notin R
    BY <1>4, <1>5
  <2>2. 0..m \subseteq 0..n /\ n \in 0..n /\ n \notin 0..m
    BY <1>6
  <2>3. 0..m \in SUBSET Nat /\ 0..n \in SUBSET Nat
    OBVIOUS
  <2> QED
    BY <2>1, <2>2, <2>3 DEF StrictSubsetOrdering
<1> QED
  BY <1>6

\* Of finitely many things one has the greatest number, and one the least.
LEMMA FiniteGreatest ==
    ASSUME NEW S, IsFiniteSet(S), S # {}, NEW v \in [S -> Int]
    PROVE  \E m \in S : \A x \in S : v[x] <= v[m]
<1> DEFINE Above(x) == {y \in S : v[y] > v[x]}
           F == {Above(x) : x \in S}
           R == StrictSubsetOrdering(S)
<1>1. F \subseteq FiniteSubsetsOf(S) /\ F # {}
  <2>1. FiniteSubsetsOf(S) = SUBSET S
    BY FS_FiniteSubsetsOfFinite
  <2>2. \A x \in S : Above(x) \in SUBSET S /\ Above(x) \in F
    OBVIOUS
  <2>3. \A T \in F : T \in SUBSET S
    BY <2>2
  <2> HIDE DEF F
  <2>4. QED
    BY <2>1, <2>2, <2>3
<1>2. IsWellFoundedOn(R, FiniteSubsetsOf(S))
  BY FS_StrictSubsetOrderingWellFounded
<1>3. PICK T \in F : \A U \in F : <<U, T>> \notin R
  <2> HIDE DEF F, R
  <2>1. QED
    BY <1>1, <1>2, WFMin
<1>4. PICK m \in S : T = Above(m)
  OBVIOUS
<1>5. ASSUME NEW y \in S, v[y] > v[m] PROVE FALSE
  <2>1. \A z \in S : v[z] > v[y] => v[z] > v[m]
    BY <1>5
  <2>2. Above(y) \subseteq Above(m) /\ y \in Above(m) /\ y \notin Above(y)
    BY <1>5, <2>1
  <2>3. <<Above(y), Above(m)>> \in R
    BY <2>2 DEF StrictSubsetOrdering
  <2>4. QED
    BY <1>3, <1>4, <2>3
<1>6. QED
  BY <1>5

LEMMA FiniteLeast ==
    ASSUME NEW S, IsFiniteSet(S), S # {}, NEW v \in [S -> Int]
    PROVE  \E m \in S : \A x \in S : v[x] >= v[m]
<1> DEFINE minus == [x \in S |-> 0 - v[x]]
<1>1. minus \in [S -> Int]
  OBVIOUS
<1>2. PICK m \in S : \A x \in S : minus[x] <= minus[m]
  <2> HIDE DEF minus
  <2>1. QED
    BY <1>1, FiniteGreatest
<1>3. QED
  BY <1>2

\* The first n of a finite set exist, whatever puts some before others, if
\* every part of it has one that none of the part is before.
LEMMA TopExist ==
    ASSUME NEW S, IsFiniteSet(S), NEW n \in Nat, n <= Cardinality(S), NEW R,
           \A U \in SUBSET S : U # {} => \E x \in U : \A y \in U : <<y, x>> \notin R
    PROVE  \E T \in SUBSET S : Cardinality(T) = n /\ \A x \in T, y \in S \ T : <<y, x>> \notin R
<1> DEFINE Top(T) == \A x \in T, y \in S \ T : <<y, x>> \notin R
           Has(k) == \E T \in SUBSET S : Cardinality(T) = k /\ Top(T)
           Bad == {k \in 0..Cardinality(S) : ~Has(k)}
<1>1. Cardinality(S) \in Nat
  BY FS_CardinalityType
<1>2. SUFFICES ASSUME Bad # {} PROVE FALSE
  BY <1>1
<1>3. PICK k \in Bad : \A j \in Bad : k <= j
  <2>1. Bad \in SUBSET Nat
    BY <1>1
  <2> HIDE DEF Bad
  <2>2. QED
    BY <1>2, <2>1, LeastNat
<1>4. k # 0
  <2>1. Has(0)
    BY FS_EmptySet
  <2>2. QED
    BY <2>1
<1>5. k \in Nat /\ k - 1 \in 0..Cardinality(S) /\ k - 1 \notin Bad /\ k <= Cardinality(S)
  BY <1>1, <1>3, <1>4
<1>6. PICK T \in SUBSET S : Cardinality(T) = k - 1 /\ Top(T)
  BY <1>5
<1>7. IsFiniteSet(T) /\ T # S
  BY <1>5, <1>6, FS_Subset
<1>8. PICK x \in S \ T : \A y \in S \ T : <<y, x>> \notin R
  <2>1. S \ T \in SUBSET S /\ S \ T # {}
    BY <1>7
  <2>2. QED
    BY <2>1
<1>9. Cardinality(T \cup {x}) = k
  <2>1. Cardinality(T \cup {x}) = Cardinality(T) + 1
    BY <1>7, <1>8, FS_AddElement
  <2>2. QED
    BY <1>5, <1>6, <2>1
<1>10. Top(T \cup {x})
  <2> SUFFICES ASSUME NEW a \in T \cup {x}, NEW y \in S \ (T \cup {x})
               PROVE  <<y, a>> \notin R
    OBVIOUS
  <2>1. CASE a \in T
    BY <1>6, <2>1
  <2>2. CASE a = x
    BY <1>8, <2>2
  <2>3. QED
    BY <2>1, <2>2
<1>11. Has(k)
  BY <1>8, <1>9, <1>10
<1>12. QED
  BY <1>11

\* Of finitely many things ranked by three numbers, the first one first, one
\* has nothing above it.
LEMMA TopOfThree ==
    ASSUME NEW U, IsFiniteSet(U), U # {},
           NEW p \in [U -> Int], NEW q \in [U -> Int], NEW r \in [U -> Int]
    PROVE  \E x \in U : \A y \in U : ~Lex(<<p[x], q[x], r[x]>>, <<p[y], q[y], r[y]>>)
<1>1. PICK x1 \in U : \A y \in U : p[y] <= p[x1]
  BY FiniteGreatest
<1> DEFINE V == {y \in U : p[y] = p[x1]}
           second == [y \in V |-> q[y]]
<1>2. IsFiniteSet(V) /\ x1 \in V /\ V \subseteq U
  BY FS_Subset
<1>3. second \in [V -> Int] /\ \A y \in V : second[y] = q[y]
  OBVIOUS
<1>4. PICK x2 \in V : \A y \in V : second[y] <= second[x2]
  <2> HIDE DEF second, V
  <2>1. QED
    BY <1>2, <1>3, FiniteGreatest
<1> HIDE DEF second
<1> DEFINE W == {y \in V : q[y] = q[x2]}
           third == [y \in W |-> r[y]]
<1>5. IsFiniteSet(W) /\ x2 \in W /\ W \subseteq V
  BY <1>2, FS_Subset
<1>6. third \in [W -> Int] /\ \A y \in W : third[y] = r[y]
  BY <1>2, <1>5
<1>7. PICK x \in W : \A y \in W : third[y] <= third[x]
  <2> HIDE DEF third, W, V
  <2>1. QED
    BY <1>5, <1>6, FiniteGreatest
<1> HIDE DEF third
<1>8. x \in U /\ p[x] = p[x1] /\ q[x] = q[x2]
  OBVIOUS
<1>9. ASSUME NEW y \in U, Lex(<<p[x], q[x], r[x]>>, <<p[y], q[y], r[y]>>) PROVE FALSE
  <2> DEFINE a == <<p[x], q[x], r[x]>>
             b == <<p[y], q[y], r[y]>>
  <2>1. PICK k \in 1..3 : a[k] < b[k] /\ \A j \in 1..(k - 1) : a[j] = b[j]
    BY <1>9 DEF Lex
  <2>2. p[y] <= p[x]
    BY <1>1, <1>8
  <2>3. p[y] = p[x] => q[y] <= q[x]
    BY <1>3, <1>4, <1>8
  <2>4. p[y] = p[x] /\ q[y] = q[x] => r[y] <= r[x]
    BY <1>6, <1>7, <1>8
  <2>5. k = 1 \/ k = 2 \/ k = 3
    BY <2>1
  <2>6. CASE k = 1
    BY <2>1, <2>2, <2>6, <1>8
  <2>7. CASE k = 2
    <3>1. a[1] = b[1] /\ a[2] < b[2]
      BY <2>1, <2>7
    <3>2. QED
      BY <2>3, <3>1, <1>8
  <2>8. CASE k = 3
    <3>1. a[1] = b[1] /\ a[2] = b[2] /\ a[3] < b[3]
      BY <2>1, <2>8
    <3>2. QED
      BY <2>4, <3>1, <1>8
  <2>9. QED
    BY <2>5, <2>6, <2>7, <2>8
<1>10. QED
  BY <1>8, <1>9

\* So the first n of them exist.
LEMMA FirstOfThree ==
    ASSUME NEW S, IsFiniteSet(S), NEW n \in Nat, n <= Cardinality(S), NEW key \in [S -> Int \X Int \X Int]
    PROVE  \E T \in SUBSET S : Cardinality(T) = n /\ \A x \in T, y \in S \ T : ~Lex(key[x], key[y])
<1> DEFINE R == {z \in S \X S : Lex(key[z[2]], key[z[1]])}
<1>1. \A x, y \in S : <<y, x>> \in R <=> Lex(key[x], key[y])
  OBVIOUS
<1>2. ASSUME NEW U \in SUBSET S, U # {} PROVE \E x \in U : \A y \in U : <<y, x>> \notin R
  <2> DEFINE p == [y \in U |-> key[y][1]]
             q == [y \in U |-> key[y][2]]
             r == [y \in U |-> key[y][3]]
  <2>1. /\ IsFiniteSet(U)
        /\ p \in [U -> Int] /\ q \in [U -> Int] /\ r \in [U -> Int]
    BY FS_Subset
  <2>2. \A y \in U : key[y] = <<p[y], q[y], r[y]>>
    OBVIOUS
  <2> HIDE DEF p, q, r, R
  <2>3. PICK x \in U : \A y \in U : ~Lex(<<p[x], q[x], r[x]>>, <<p[y], q[y], r[y]>>)
    BY <1>2, <2>1, TopOfThree
  <2>4. \A y \in U : ~Lex(key[x], key[y])
    BY <2>2, <2>3
  <2>5. QED
    BY <1>1, <2>4
<1> HIDE DEF R
<1>3. PICK T \in SUBSET S : Cardinality(T) = n /\ \A x \in T, y \in S \ T : <<y, x>> \notin R
  BY <1>2, TopExist
<1>4. ASSUME NEW x \in T, NEW y \in S \ T PROVE ~Lex(key[x], key[y])
  <2>1. x \in S /\ y \in S /\ <<y, x>> \notin R
    BY <1>3
  <2> QED BY <1>1, <2>1
<1>5. QED
  BY <1>3, <1>4

\* The n busiest of a finite set exist, however many are as busy as the last.
LEMMA BusiestExist ==
    ASSUME NEW S, IsFiniteSet(S), NEW count \in [S -> Nat], NEW n \in Nat, n <= Cardinality(S)
    PROVE  \E T \in SUBSET S : /\ Cardinality(T) = n
                               /\ \A x \in T, y \in S \ T : ~(count[y] > count[x])
<1> DEFINE R == {p \in S \X S : count[p[1]] > count[p[2]]}
<1>1. \A x, y \in S : <<y, x>> \in R <=> count[y] > count[x]
  OBVIOUS
<1>2. ASSUME NEW U \in SUBSET S, U # {} PROVE \E x \in U : \A y \in U : <<y, x>> \notin R
  <2> DEFINE v == [y \in U |-> count[y]]
  <2>1. IsFiniteSet(U) /\ v \in [U -> Int] /\ \A y \in U : v[y] = count[y] /\ count[y] \in Nat
    BY <1>2, FS_Subset
  <2> HIDE DEF v, R
  <2>2. PICK x \in U : \A y \in U : v[y] <= v[x]
    BY <1>2, <2>1, FiniteGreatest
  <2>3. QED
    BY <1>1, <2>1, <2>2
<1> HIDE DEF R
<1>3. PICK T \in SUBSET S : Cardinality(T) = n /\ \A x \in T, y \in S \ T : <<y, x>> \notin R
  BY <1>2, TopExist
<1>4. QED
  BY <1>1, <1>3

-----------------------------------------------------------------------------
(* The triage list                                                          *)

\* The deepest of some depths is the greatest of them.
LEMMA DeepestIsGreatest ==
    ASSUME NEW S, IsFiniteSet(S), S # {}, S \subseteq Phase \cup {0}
    PROVE  Deepest(S) \in S /\ \A q \in S : q <= Deepest(S)
<1> DEFINE itself == [q \in S |-> q]
<1>1. itself \in [S -> Int] /\ \A q \in S : itself[q] = q
  BY DEF Phase
<1> HIDE DEF itself
<1>2. PICK m \in S : \A q \in S : itself[q] <= itself[m]
  BY <1>1, FiniteGreatest
<1>3. \E m2 \in S : \A q \in S : q <= m2
  BY <1>1, <1>2
<1>4. Deepest(S) = CHOOSE m2 \in S : \A q \in S : q <= m2
  BY DEF Deepest
<1>5. QED
  BY <1>3, <1>4, Zenon

\* The depth of a record is a phase, or none.
LEMMA DepthOfRecord ==
    ASSUME NEW r
    PROVE  KcPhase(r) \in Phase \cup {0}
<1>1. PhasesOf(Tactics(r)) \subseteq Phase
  BY MapAssumption DEF PhasesOf, Tactic
<1>2. CASE PhasesOf(Tactics(r)) = {}
  BY <1>2 DEF KcPhase, Deepest
<1>3. CASE PhasesOf(Tactics(r)) # {}
  BY <1>1, <1>3, DeepestIsOne DEF KcPhase
<1>4. QED
  BY <1>2, <1>3

\* The numbers of a host's row, and that no event of the host is deeper.
LEMMA HostNumbers ==
    ASSUME TableOK, NEW h \in WithEvidence(tbl)
    PROVE  LET row == HostRow(tbl, h) IN
             /\ row.host = h /\ row.max_order \in Int /\ row.phases \in Int
             /\ row.attack_events \in Nat /\ row.attack_events > 0
             /\ row.attack_events = HostOverview(tbl)[h].detections
             /\ \A i \in OnHost(tbl, h) : KcPhase(tbl[i]) <= row.max_order
<1> DEFINE row == HostRow(tbl, h)
           ids == OnHost(tbl, h)
           found == {i \in ids : AttackEvidence(tbl[i])}
           depths == {KcPhase(tbl[i]) : i \in ids}
<1>1. IsFiniteSet(ids) /\ IsFiniteSet(found) /\ found # {}
  BY TableRows, FS_Subset DEF OnHost, WithEvidence
<1>2. Cardinality(found) \in Nat /\ Cardinality(found) > 0
  BY <1>1, FS_CardinalityType, FS_EmptySet
<1>3. IsFiniteSet(depths) /\ depths # {} /\ depths \subseteq Phase \cup {0}
  <2> DEFINE depth == [i \in ids |-> KcPhase(tbl[i])]
  <2>1. depth \in Surjection(ids, depths)
    BY DEF Surjection
  <2>2. QED
    BY <1>1, <2>1, FS_Surjection, DepthOfRecord
<1>4. Deepest(depths) \in Int /\ \A i \in ids : KcPhase(tbl[i]) <= Deepest(depths)
  <2> HIDE DEF depths
  <2>1. Deepest(depths) \in depths /\ \A q \in depths : q <= Deepest(depths)
    BY <1>3, DeepestIsGreatest
  <2>2. QED
    BY <1>3, <2>1 DEF Phase, depths
<1>5. Cardinality(depths \ {0}) \in Int
  BY <1>3, FS_Subset, FS_CardinalityType
<1>6. h \in Distinct(tbl, "host")
  BY DEF WithEvidence
<1>7. QED
  BY <1>2, <1>4, <1>5, <1>6 DEF HostRow, HostOverview

\* The list holds rows of hosts with evidence, and a host it leaves out has
\* found it full of hosts at least as deep.
LEMMA TriageList ==
    ASSUME TableOK
    PROVE  /\ \A a \in HostKillchain(tbl) : \E h \in WithEvidence(tbl) : a = HostRow(tbl, h)
           /\ \A h \in WithEvidence(tbl) :
                 \/ HostRow(tbl, h) \in HostKillchain(tbl)
                 \/ /\ Cardinality(HostKillchain(tbl)) = HostLimit
                    /\ \A a \in HostKillchain(tbl) : HostRow(tbl, h).max_order <= a.max_order
<1> DEFINE hosts == WithEvidence(tbl)
           S == {HostRow(tbl, h) : h \in hosts}
           list == HostKillchain(tbl)
           Picked(T) == Cardinality(T) = HostLimit /\ \A x \in T, y \in S \ T : ~AboveHost(y, x)
<1>1. IsFiniteSet(S)
  <2> DEFINE name == [i \in Rows(tbl) |-> Canon(tbl[i], "host")]
             names == {Canon(tbl[i], "host") : i \in Rows(tbl)}
             row == [h \in hosts |-> HostRow(tbl, h)]
  <2>1. name \in Surjection(Rows(tbl), names) /\ row \in Surjection(hosts, S)
    BY DEF Surjection
  <2>2. IsFiniteSet(names)
    BY <2>1, TableRows, FS_Surjection
  <2>3. hosts \subseteq names
    BY DEF WithEvidence, Distinct
  <2>4. IsFiniteSet(hosts)
    BY <2>2, <2>3, FS_Subset
  <2>5. QED
    BY <2>1, <2>4, FS_Surjection
<1>2. \A a \in S : a.max_order \in Int /\ a.phases \in Int /\ a.attack_events \in Int
  BY HostNumbers
<1>3. Cardinality(S) \in Nat /\ HostLimit \in Nat
  BY <1>1, FS_CardinalityType, LimitAssumption
<1>4. list = IF Cardinality(S) <= HostLimit THEN S ELSE CHOOSE T \in SUBSET S : Picked(T)
  BY DEF HostKillchain, FirstOf
<1>5. list \subseteq S /\ (list = S \/ Picked(list))
  <2> HIDE DEF S, list
  <2>1. CASE Cardinality(S) <= HostLimit
    BY <1>4, <2>1
  <2>2. CASE ~(Cardinality(S) <= HostLimit)
    <3> DEFINE key == [a \in S |-> <<a.max_order, a.phases, a.attack_events>>]
    <3>1. key \in [S -> Int \X Int \X Int]
      BY <1>2
    <3>2. \A x, y \in S : Lex(key[x], key[y]) <=> AboveHost(y, x)
      BY DEF AboveHost
    <3>3. IsFiniteSet(S) /\ HostLimit \in Nat /\ HostLimit <= Cardinality(S)
      BY <1>1, <1>3, <2>2
    <3> HIDE DEF key
    <3>4. PICK T \in SUBSET S : Cardinality(T) = HostLimit /\ \A x \in T, y \in S \ T : ~Lex(key[x], key[y])
      BY <3>1, <3>3, FirstOfThree
    <3>5. Picked(T)
      BY <3>2, <3>4
    <3> HIDE DEF Picked
    <3>6. QED
      BY <1>4, <2>2, <3>5
  <2>3. QED
    BY <2>1, <2>2
<1>6. ASSUME NEW h \in hosts, HostRow(tbl, h) \notin list
      PROVE  /\ Cardinality(list) = HostLimit
             /\ \A a \in list : HostRow(tbl, h).max_order <= a.max_order
  <2> DEFINE b == HostRow(tbl, h)
  <2>1. b \in S /\ Picked(list)
    BY <1>5, <1>6
  <2>2. ASSUME NEW a \in list PROVE b.max_order <= a.max_order
    <3>1. ~Lex(<<a.max_order, a.phases, a.attack_events>>, <<b.max_order, b.phases, b.attack_events>>)
      BY <1>6, <2>1, <2>2 DEF AboveHost
    <3>2. a.max_order \in Int /\ b.max_order \in Int
      BY <1>2, <1>5, <2>1
    <3> HIDE DEF b
    <3>3. ~(a.max_order < b.max_order)
      BY <3>1 DEF Lex
    <3>4. QED
      BY <3>2, <3>3
  <2>3. QED
    BY <2>1, <2>2
<1>7. QED
  BY <1>5, <1>6

\* Every spelling of a host leads to one line in each view, and evidence on a
\* machine reaches the triage list, or finds it full of hosts as deep, whatever
\* the records and the limit of the list are.
THEOREM HostsAlwaysAgree == Spec => []HostsAgree
<1>1. TableOK => HostsAgree
  <2> SUFFICES ASSUME TableOK PROVE HostsAgree
    OBVIOUS
  <2> DEFINE triage == HostKillchain(tbl)
  <2>1. \A h \in WithEvidence(tbl) : h \in DOMAIN HostOverview(tbl)
    BY DEF WithEvidence, HostOverview
  <2>2. ASSUME NEW a \in triage
        PROVE  /\ a.host \in DOMAIN HostOverview(tbl)
               /\ a.attack_events = HostOverview(tbl)[a.host].detections /\ a.attack_events > 0
    <3>1. PICK h \in WithEvidence(tbl) : a = HostRow(tbl, h)
      BY TriageList
    <3>2. QED
      BY <2>1, <3>1, HostNumbers
  <2>3. ASSUME NEW i \in Rows(tbl), Canon(tbl[i], "host") # None,
               Techniques(tbl[i]) # {} \/ PhasesOf(tbl[i].tactics) # {}
        PROVE  \/ \E a \in triage : a.host = Canon(tbl[i], "host")
               \/ /\ Cardinality(triage) = HostLimit
                  /\ \A a \in triage : a.max_order >= KcPhase(tbl[i])
    <3> DEFINE h == Canon(tbl[i], "host")
    <3>1. AttackEvidence(tbl[i])
      BY <2>3, DeclaredIsEvidence DEF AttackEvidence
    <3>2. i \in OnHost(tbl, h)
      BY DEF OnHost
    <3>3. h \in WithEvidence(tbl)
      BY <2>3, <3>1, <3>2 DEF WithEvidence, Distinct
    <3>4. HostRow(tbl, h).host = h /\ HostRow(tbl, h).max_order \in Int
          /\ KcPhase(tbl[i]) <= HostRow(tbl, h).max_order /\ KcPhase(tbl[i]) \in Int
      BY <3>2, <3>3, HostNumbers, DepthOfRecord DEF Phase
    <3>5. \A a \in triage : a.max_order \in Int
      BY TriageList, HostNumbers
    <3> HIDE DEF h
    <3>6. CASE HostRow(tbl, h) \in triage
      BY <3>4, <3>6 DEF h
    <3>7. CASE HostRow(tbl, h) \notin triage
      <4>1. Cardinality(triage) = HostLimit /\ \A a \in triage : HostRow(tbl, h).max_order <= a.max_order
        BY <3>3, <3>7, TriageList
      <4>2. \A a \in triage : a.max_order >= KcPhase(tbl[i])
        BY <3>4, <3>5, <4>1
      <4>3. QED
        BY <4>1, <4>2
    <3>8. QED
      BY <3>6, <3>7
  <2>4. QED
    BY <2>2, <2>3 DEF HostsAgree
<1>2. QED
  BY <1>1, TableAlways, PTL

-----------------------------------------------------------------------------
(* Corroboration                                                            *)

\* The window of a phase is one of numbers.
LEMMA WindowIsInt ==
    ASSUME TableOK, NEW ids \in SUBSET Timed(tbl), ids # {}
    PROVE  Earliest(tbl, ids) \in Int /\ Latest(tbl, ids) \in Int
<1>1. IsFiniteSet(ids) /\ \A i \in ids : TsParsed(tbl[i]) \in Int
  BY TableRows, FS_Subset
<1> DEFINE at == [i \in ids |-> TsParsed(tbl[i])]
<1>2. at \in [ids -> Int] /\ \A i \in ids : at[i] = TsParsed(tbl[i])
  BY <1>1
<1>3. PICK m \in ids : \A i \in ids : at[i] <= at[m]
  <2> HIDE DEF at
  <2>1. QED
    BY <1>1, <1>2, FiniteGreatest
<1>4. PICK n \in ids : \A i \in ids : at[i] >= at[n]
  <2> HIDE DEF at
  <2>1. QED
    BY <1>1, <1>2, FiniteLeast
<1>5. Times(tbl, ids) = {TsParsed(tbl[i]) : i \in ids}
  BY DEF Times, Timed
<1>6. /\ at[m] \in Times(tbl, ids) /\ \A t \in Times(tbl, ids) : t <= at[m]
      /\ at[n] \in Times(tbl, ids) /\ \A t \in Times(tbl, ids) : t >= at[n]
  BY <1>2, <1>3, <1>4, <1>5
<1>7. Times(tbl, ids) \subseteq Int
  BY <1>1, <1>5
<1>8. Latest(tbl, ids) \in Times(tbl, ids)
  <2>1. \E s \in Times(tbl, ids) : \A u \in Times(tbl, ids) : s >= u
    BY <1>6, <1>7
  <2>2. QED
    BY <2>1 DEF Latest
<1>9. Earliest(tbl, ids) \in Times(tbl, ids)
  <2>1. \E s \in Times(tbl, ids) : \A u \in Times(tbl, ids) : s <= u
    BY <1>6, <1>7
  <2>2. QED
    BY <2>1 DEF Earliest
<1>10. QED
  BY <1>7, <1>8, <1>9

\* All the silent tools are named, or as many as there is room for.
LEMMA NamedToTheLimit ==
    ASSUME TableOK, NEW p, NEW i \in Quiet(tbl, p)
    PROVE  \/ ToolName(tbl[i]) \in Corroboration(tbl, p)
           \/ Cardinality(Corroboration(tbl, p)) = FamilyLimit
<1> DEFINE quiet == Quiet(tbl, p)
           tools == {ToolName(tbl[j]) : j \in quiet}
           of(s) == {j \in quiet : ToolName(tbl[j]) = s}
           count == [s \in tools |-> Cardinality(of(s))]
<1>1. quiet \subseteq Rows(tbl) /\ IsFiniteSet(quiet)
  <2>1. quiet \subseteq Rows(tbl)
    BY TableRows DEF Quiet
  <2>2. QED
    BY <2>1, TableRows, FS_Subset
<1>2. IsFiniteSet(tools)
  <2> DEFINE name == [j \in quiet |-> ToolName(tbl[j])]
  <2>1. name \in Surjection(quiet, tools)
    BY DEF Surjection
  <2>2. QED
    BY <1>1, <2>1, FS_Surjection
<1>3. count \in [tools -> Nat]
  <2>1. \A s \in tools : IsFiniteSet(of(s))
    BY <1>1, FS_Subset
  <2>2. \A s \in tools : Cardinality(of(s)) \in Nat
    BY <2>1, FS_CardinalityType
  <2>3. QED
    BY <2>2
<1>4. Corroboration(tbl, p) =
        IF Cardinality(tools) <= FamilyLimit THEN tools
        ELSE CHOOSE T \in SUBSET tools :
                Cardinality(T) = FamilyLimit /\ \A x \in T, y \in tools \ T : ~(count[y] > count[x])
  BY DEF Corroboration, FirstOf
<1>5. ToolName(tbl[i]) \in tools
  OBVIOUS
<1>6. Cardinality(tools) \in Nat /\ FamilyLimit \in Nat
  BY <1>2, FS_CardinalityType, LimitAssumption
<1> HIDE DEF tools, count
<1>7. CASE Cardinality(tools) <= FamilyLimit
  BY <1>4, <1>5, <1>7
<1>8. CASE ~(Cardinality(tools) <= FamilyLimit)
  <2>1. \E T \in SUBSET tools :
           Cardinality(T) = FamilyLimit /\ \A x \in T, y \in tools \ T : ~(count[y] > count[x])
    BY <1>2, <1>3, <1>6, <1>8, BusiestExist
  <2>2. QED
    BY <1>4, <1>8, <2>1
<1>9. QED
  BY <1>7, <1>8

\* No tool that was active in a phase's window is silently left out of the
\* phase's account, for every table: the phase's own, or named, or beyond the
\* number there is room for.
THEOREM NobodySilentlyAbsent == Spec => []NoSilentAbsence
<1>1. TableOK => NoSilentAbsence
  <2> SUFFICES ASSUME TableOK, NEW p \in Observed(tbl), Killchain(tbl)[p].first # None,
                      NEW i \in Timed(tbl), Family(tbl[i]) # None, ~AttackEvidence(tbl[i]),
                      TsParsed(tbl[i]) \in (Killchain(tbl)[p].first - Gap)..(Killchain(tbl)[p].last + Gap),
                      Family(tbl[i]) \notin FamiliesOf(tbl, InPhase(tbl, p))
               PROVE  \/ Family(tbl[i]) \in Corroboration(tbl, p)
                      \/ Cardinality(Corroboration(tbl, p)) = FamilyLimit
    BY DEF NoSilentAbsence
  <2> DEFINE row == Killchain(tbl)[p]
             ids == InPhase(tbl, p) \cap Timed(tbl)
  <2>1. row.first = (IF ids = {} THEN None ELSE Earliest(tbl, ids))
        /\ row.last = (IF ids = {} THEN None ELSE Latest(tbl, ids))
    BY DEF Killchain
  <2>2. row.first \in Int /\ row.last \in Int
    BY <2>1, WindowIsInt
  <2>3. Gap \in Nat
    BY LimitAssumption
  <2>4. TsParsed(tbl[i]) >= row.first - Gap /\ TsParsed(tbl[i]) <= row.last + Gap
    BY <2>2, <2>3
  <2>5. ToolName(tbl[i]) = Family(tbl[i]) /\ Family(tbl[i]) # "(unnamed source)"
    BY TableRows, UploadsAssumption DEF ToolName
  <2>6. NotAmong(tbl[i], {tbl[j] : j \in InPhase(tbl, p)})
    <3>1. ASSUME NEW j \in InPhase(tbl, p), ToolName(tbl[j]) = Family(tbl[i]) PROVE FALSE
      BY <2>5, <3>1 DEF ToolName, FamiliesOf
    <3>2. QED
      BY <2>5, <3>1 DEF NotAmong
  <2>7. i \in Quiet(tbl, p)
    BY <2>4, <2>6 DEF Quiet
  <2>8. QED
    BY <2>5, <2>7, NamedToTheLimit
<1>2. QED
  BY <1>1, TableAlways, PTL

-----------------------------------------------------------------------------
(* Episodes                                                                 *)

LEMMA SoonerIs ==
    ASSUME TableOK, NEW i \in Timed(tbl), NEW j \in Timed(tbl)
    PROVE  Sooner(tbl, i, j) <=> \/ TsParsed(tbl[i]) < TsParsed(tbl[j])
                                 \/ TsParsed(tbl[i]) = TsParsed(tbl[j]) /\ i < j
<1> DEFINE a == <<TsParsed(tbl[i]), i>>
           b == <<TsParsed(tbl[j]), j>>
<1>1. Sooner(tbl, i, j) <=> \E k \in {1, 2} : a[k] < b[k] /\ \A m \in 1..(k - 1) : a[m] = b[m]
  BY DEF Sooner, Lex
<1>2. a[1] = TsParsed(tbl[i]) /\ b[1] = TsParsed(tbl[j]) /\ a[2] = i /\ b[2] = j
  OBVIOUS
<1>3. 1..(1 - 1) = {} /\ 1..(2 - 1) = {1}
  OBVIOUS
<1> HIDE DEF a, b
<1>4. QED
  BY <1>1, <1>2, <1>3

UpTo(i) == {j \in Timed(tbl) : OpensEpisode(tbl, j) /\ (j = i \/ Sooner(tbl, j, i))}

SilenceAfter(k) ==
    \A m \in Timed(tbl) :
        TsParsed(tbl[m]) > TsParsed(tbl[k]) => TsParsed(tbl[m]) - TsParsed(tbl[k]) > Gap

\* After a silence the first row opens an episode.
LEMMA SilenceOpens ==
    ASSUME TableOK, NEW i \in Timed(tbl), NEW j \in Timed(tbl), NEW k \in Timed(tbl),
           TsParsed(tbl[i]) <= TsParsed(tbl[k]), TsParsed(tbl[k]) < TsParsed(tbl[j]),
           SilenceAfter(k)
    PROVE  \E o \in UpTo(j) : o \notin UpTo(i)
<1> DEFINE S == {m \in Timed(tbl) : TsParsed(tbl[m]) > TsParsed(tbl[k])}
           at == [m \in S |-> TsParsed(tbl[m])]
<1>1. \A m \in Timed(tbl) : m \in Nat /\ TsParsed(tbl[m]) \in Int
  BY TableRows
<1>2. IsFiniteSet(S) /\ j \in S
  <2>1. S \subseteq Rows(tbl)
    BY TableRows
  <2>2. QED
    BY <2>1, TableRows, FS_Subset
<1>3. at \in [S -> Int] /\ \A m \in S : at[m] = TsParsed(tbl[m])
  BY <1>1
<1>4. PICK n \in S : \A m \in S : at[m] >= at[n]
  <2> HIDE DEF at, S
  <2>1. QED
    BY <1>2, <1>3, FiniteLeast
<1> DEFINE E == {m \in S : at[m] = at[n]}
<1>5. PICK o \in E : \A m \in E : o <= m
  <2>1. E \in SUBSET Nat /\ E # {}
    BY <1>1
  <2> HIDE DEF E
  <2>2. QED
    BY <2>1, LeastNat
<1>6. /\ o \in Timed(tbl) /\ TsParsed(tbl[o]) > TsParsed(tbl[k])
      /\ \A m \in S : TsParsed(tbl[m]) >= TsParsed(tbl[o])
      /\ \A m \in S : TsParsed(tbl[m]) = TsParsed(tbl[o]) => o <= m
  BY <1>3, <1>4, <1>5
<1>7. OpensEpisode(tbl, o)
  <2> SUFFICES ASSUME NEW m \in Timed(tbl), Sooner(tbl, m, o)
               PROVE  TsParsed(tbl[o]) - TsParsed(tbl[m]) > Gap
    BY DEF OpensEpisode
  <2>1. TsParsed(tbl[m]) < TsParsed(tbl[o]) \/ (TsParsed(tbl[m]) = TsParsed(tbl[o]) /\ m < o)
    BY <1>6, SoonerIs
  <2>2. m \notin S
    BY <1>1, <1>6, <2>1
  <2>3. TsParsed(tbl[m]) <= TsParsed(tbl[k])
    BY <1>1, <2>2
  <2>4. TsParsed(tbl[o]) - TsParsed(tbl[k]) > Gap
    BY <1>6 DEF SilenceAfter
  <2>5. QED
    BY <1>1, <1>6, <2>3, <2>4, LimitAssumption
<1>8. o = j \/ Sooner(tbl, o, j)
  BY <1>1, <1>2, <1>6, SoonerIs
<1>9. ~(o = i \/ Sooner(tbl, o, i))
  BY <1>1, <1>6, SoonerIs
<1>10. QED
  BY <1>6, <1>7, <1>8, <1>9 DEF UpTo

\* Before a row that opens an episode there was a silence.
LEMMA OpenerEndsSilence ==
    ASSUME TableOK, NEW i \in Timed(tbl), NEW j \in Timed(tbl), NEW o \in UpTo(j),
           Sooner(tbl, i, o)
    PROVE  \E k \in Timed(tbl) : /\ TsParsed(tbl[i]) <= TsParsed(tbl[k])
                                 /\ TsParsed(tbl[k]) < TsParsed(tbl[j])
                                 /\ SilenceAfter(k)
<1> DEFINE S == {m \in Timed(tbl) : Sooner(tbl, m, o)}
           at == [m \in S |-> TsParsed(tbl[m])]
<1>1. \A m \in Timed(tbl) : m \in Nat /\ TsParsed(tbl[m]) \in Int
  BY TableRows
<1>2. IsFiniteSet(S) /\ i \in S
  <2>1. S \subseteq Rows(tbl)
    BY TableRows
  <2>2. QED
    BY <2>1, TableRows, FS_Subset
<1>3. at \in [S -> Int] /\ \A m \in S : at[m] = TsParsed(tbl[m])
  BY <1>1
<1>4. PICK k \in S : \A m \in S : at[m] <= at[k]
  <2> HIDE DEF at, S
  <2>1. QED
    BY <1>2, <1>3, FiniteGreatest
<1>5. o \in Timed(tbl) /\ OpensEpisode(tbl, o) /\ (o = j \/ Sooner(tbl, o, j))
  BY DEF UpTo
<1>6. TsParsed(tbl[o]) - TsParsed(tbl[k]) > Gap
  BY <1>4, <1>5 DEF OpensEpisode
<1>7. TsParsed(tbl[o]) <= TsParsed(tbl[j])
  BY <1>1, <1>5, SoonerIs
<1>8. TsParsed(tbl[k]) < TsParsed(tbl[j])
  BY <1>1, <1>4, <1>5, <1>6, <1>7, LimitAssumption
<1>9. SilenceAfter(k)
  <2> SUFFICES ASSUME NEW m \in Timed(tbl), TsParsed(tbl[m]) > TsParsed(tbl[k])
               PROVE  TsParsed(tbl[m]) - TsParsed(tbl[k]) > Gap
    BY DEF SilenceAfter
  <2>1. m \notin S
    BY <1>1, <1>3, <1>4
  <2>2. ~(TsParsed(tbl[m]) < TsParsed(tbl[o]))
    BY <1>5, <2>1, SoonerIs
  <2>3. QED
    BY <1>1, <1>4, <1>5, <1>6, <2>2, LimitAssumption
<1>10. QED
  BY <1>2, <1>3, <1>4, <1>8, <1>9

\* The rows up to one are among those up to a later one, and the numbers of
\* the two rows are the same iff the openers up to them are.
LEMMA NumbersAreOpeners ==
    ASSUME TableOK, NEW i \in Timed(tbl), NEW j \in Timed(tbl), i = j \/ Sooner(tbl, i, j)
    PROVE  /\ UpTo(i) \subseteq UpTo(j)
           /\ (EpisodeNo(tbl)[i] = EpisodeNo(tbl)[j]) <=> UpTo(i) = UpTo(j)
           /\ \A o \in UpTo(j) : o \notin UpTo(i) => Sooner(tbl, i, o)
<1>1. \A m \in Timed(tbl) : m \in Nat /\ TsParsed(tbl[m]) \in Int
  BY TableRows
<1>2. UpTo(i) \subseteq UpTo(j)
  <2> SUFFICES ASSUME NEW o \in UpTo(i) PROVE o \in UpTo(j)
    OBVIOUS
  <2>1. o \in Timed(tbl) /\ (o = i \/ Sooner(tbl, o, i))
    BY DEF UpTo
  <2>2. o = j \/ Sooner(tbl, o, j)
    BY <1>1, <2>1, SoonerIs
  <2>3. QED
    BY <2>1, <2>2 DEF UpTo
<1>3. \A m \in Timed(tbl) : EpisodeNo(tbl)[m] = Cardinality(UpTo(m))
  <2> TAKE m \in Timed(tbl)
  <2>1. {n \in {o \in Timed(tbl) : OpensEpisode(tbl, o)} : n = m \/ Sooner(tbl, n, m)} = UpTo(m)
    BY DEF UpTo
  <2>2. QED
    BY <2>1 DEF EpisodeNo
<1>4. IsFiniteSet(UpTo(j))
  <2>1. UpTo(j) \subseteq Rows(tbl)
    BY TableRows DEF UpTo
  <2>2. QED
    BY <2>1, TableRows, FS_Subset
<1>5. (EpisodeNo(tbl)[i] = EpisodeNo(tbl)[j]) <=> UpTo(i) = UpTo(j)
  BY <1>2, <1>3, <1>4, FS_Subset
<1>6. ASSUME NEW o \in UpTo(j), o \notin UpTo(i) PROVE Sooner(tbl, i, o)
  <2>1. o \in Timed(tbl) /\ o # i /\ ~Sooner(tbl, o, i)
    BY <1>6 DEF UpTo
  <2>2. QED
    BY <1>1, <2>1, SoonerIs
<1>7. QED
  BY <1>2, <1>5, <1>6

\* The window query of episodes finds the sessions the gap says, for every
\* table, in whatever order its rows are stored.
THEOREM EpisodesFindSessions == Spec => []EpisodesAreSessions
<1>1. TableOK => EpisodesAreSessions
  <2> SUFFICES ASSUME TableOK, NEW i \in Timed(tbl), NEW j \in Timed(tbl),
                      TsParsed(tbl[i]) <= TsParsed(tbl[j])
               PROVE  (EpisodeNo(tbl)[i] = EpisodeNo(tbl)[j])
                        <=> ~\E k \in Timed(tbl) : /\ TsParsed(tbl[i]) <= TsParsed(tbl[k])
                                                   /\ TsParsed(tbl[k]) < TsParsed(tbl[j])
                                                   /\ SilenceAfter(k)
    BY DEF EpisodesAreSessions, SilenceAfter
  <2>1. \A m \in Timed(tbl) : m \in Nat /\ TsParsed(tbl[m]) \in Int
    BY TableRows
  <2>2. CASE i = j \/ Sooner(tbl, i, j)
    <3>1. /\ UpTo(i) \subseteq UpTo(j)
          /\ (EpisodeNo(tbl)[i] = EpisodeNo(tbl)[j]) <=> UpTo(i) = UpTo(j)
          /\ \A o \in UpTo(j) : o \notin UpTo(i) => Sooner(tbl, i, o)
      BY <2>2, NumbersAreOpeners
    <3>2. ASSUME NEW k \in Timed(tbl), TsParsed(tbl[i]) <= TsParsed(tbl[k]),
                 TsParsed(tbl[k]) < TsParsed(tbl[j]), SilenceAfter(k)
          PROVE  UpTo(i) # UpTo(j)
      BY <3>2, SilenceOpens
    <3>3. ASSUME UpTo(i) # UpTo(j)
          PROVE  \E k \in Timed(tbl) : /\ TsParsed(tbl[i]) <= TsParsed(tbl[k])
                                       /\ TsParsed(tbl[k]) < TsParsed(tbl[j])
                                       /\ SilenceAfter(k)
      BY <3>1, <3>3, OpenerEndsSilence
    <3>4. QED
      BY <3>1, <3>2, <3>3
  <2>3. CASE ~(i = j \/ Sooner(tbl, i, j))
    <3>1. Sooner(tbl, j, i) /\ TsParsed(tbl[i]) = TsParsed(tbl[j])
      BY <2>1, <2>3, SoonerIs
    <3>2. /\ UpTo(j) \subseteq UpTo(i)
          /\ (EpisodeNo(tbl)[j] = EpisodeNo(tbl)[i]) <=> UpTo(j) = UpTo(i)
          /\ \A o \in UpTo(i) : o \notin UpTo(j) => Sooner(tbl, j, o)
      BY <3>1, NumbersAreOpeners
    <3>3. ASSUME UpTo(i) # UpTo(j) PROVE FALSE
      <4>1. PICK o \in UpTo(i) : o \notin UpTo(j)
        BY <3>2, <3>3
      <4>2. PICK k \in Timed(tbl) : /\ TsParsed(tbl[j]) <= TsParsed(tbl[k])
                                    /\ TsParsed(tbl[k]) < TsParsed(tbl[i])
        BY <3>2, <4>1, OpenerEndsSilence
      <4>3. QED
        BY <2>1, <3>1, <4>2
    <3>4. QED
      BY <2>1, <3>1, <3>2, <3>3
  <2>4. QED
    BY <2>2, <2>3
<1>2. QED
  BY <1>1, TableAlways, PTL

-----------------------------------------------------------------------------
(* Beacons                                                                  *)

\* Of some timed rows exactly one comes first.
LEMMA FirstRowIs ==
    ASSUME TableOK, NEW S \in SUBSET Timed(tbl), S # {}
    PROVE  /\ FirstRow(tbl, S) \in S
           /\ \A j \in S : ~Sooner(tbl, j, FirstRow(tbl, S))
           /\ \A i \in S : (\A j \in S : ~Sooner(tbl, j, i)) => i = FirstRow(tbl, S)
<1> DEFINE at == [m \in S |-> TsParsed(tbl[m])]
<1>1. \A m \in Timed(tbl) : m \in Nat /\ TsParsed(tbl[m]) \in Int
  BY TableRows
<1>2. IsFiniteSet(S)
  <2>1. S \subseteq Rows(tbl)
    BY TableRows
  <2>2. QED
    BY <2>1, TableRows, FS_Subset
<1>3. at \in [S -> Int] /\ \A m \in S : at[m] = TsParsed(tbl[m])
  BY <1>1
<1>4. PICK n \in S : \A m \in S : at[m] >= at[n]
  <2> HIDE DEF at
  <2>1. QED
    BY <1>2, <1>3, FiniteLeast
<1> DEFINE E == {m \in S : at[m] = at[n]}
<1>5. PICK o \in E : \A m \in E : o <= m
  <2>1. E \in SUBSET Nat /\ E # {}
    BY <1>1
  <2> HIDE DEF E
  <2>2. QED
    BY <2>1, LeastNat
<1>6. o \in S /\ \A j \in S : ~Sooner(tbl, j, o)
  <2> SUFFICES ASSUME NEW j \in S PROVE ~Sooner(tbl, j, o)
    BY <1>5
  <2>1. TsParsed(tbl[j]) >= TsParsed(tbl[o])
        /\ (TsParsed(tbl[j]) = TsParsed(tbl[o]) => o <= j)
    BY <1>3, <1>4, <1>5
  <2>2. QED
    BY <1>1, <1>5, <2>1, SoonerIs
<1>7. FirstRow(tbl, S) \in S /\ \A j \in S : ~Sooner(tbl, j, FirstRow(tbl, S))
  BY <1>6 DEF FirstRow
<1>8. ASSUME NEW i \in S, \A j \in S : ~Sooner(tbl, j, i)
      PROVE  i = FirstRow(tbl, S)
  <2> DEFINE f == FirstRow(tbl, S)
  <2>1. f \in S /\ ~Sooner(tbl, i, f) /\ ~Sooner(tbl, f, i)
    BY <1>7, <1>8
  <2> HIDE DEF f
  <2>2. i = f
    BY <1>1, <2>1, SoonerIs
  <2>3. QED
    BY <2>2 DEF f
<1>9. QED
  BY <1>7, <1>8

\* The gaps depend on the connections through the rows they start with.
GapsBetween(starts) ==
    LET prior(i) == {j \in starts : Sooner(tbl, j, i)}
        lag(i)   == CHOOSE j \in prior(i) : \A k \in prior(i) : ~Sooner(tbl, j, k)
    IN  {<<i, TsParsed(tbl[i]) - TsParsed(tbl[lag(i)])>> : i \in {j \in starts : prior(j) # {}}}

LEMMA GapsOfStarts ==
    ASSUME NEW conns
    PROVE  GapsOf(tbl, conns) = GapsBetween({FirstRow(tbl, c) : c \in conns})
BY DEF GapsOf, GapsBetween

\* Each start but the first ends one gap.
LEMMA GapsCounted ==
    ASSUME TableOK, NEW starts \in SUBSET Timed(tbl), starts # {}
    PROVE  IsFiniteSet(starts) /\ Cardinality(GapsBetween(starts)) = Cardinality(starts) - 1
<1> DEFINE prior(i) == {j \in starts : Sooner(tbl, j, i)}
           lag(i) == CHOOSE j \in prior(i) : \A k \in prior(i) : ~Sooner(tbl, j, k)
           gap(i) == <<i, TsParsed(tbl[i]) - TsParsed(tbl[lag(i)])>>
           later == {j \in starts : prior(j) # {}}
           opener == FirstRow(tbl, starts)
<1>1. GapsBetween(starts) = {gap(i) : i \in later}
  BY DEF GapsBetween
<1>2. IsFiniteSet(starts)
  <2>1. starts \subseteq Rows(tbl)
    BY TableRows
  <2>2. QED
    BY <2>1, TableRows, FS_Subset
<1>3. opener \in starts /\ later = starts \ {opener}
  <2>1. opener \in starts /\ prior(opener) = {}
    BY FirstRowIs
  <2>2. \A i \in starts : i # opener => prior(i) # {}
    BY FirstRowIs
  <2> HIDE DEF opener, prior
  <2>3. QED
    BY <2>1, <2>2
<1> HIDE DEF opener
<1>4. Cardinality(later) = Cardinality(starts) - 1 /\ IsFiniteSet(later)
  <2> HIDE DEF later
  <2>1. QED
    BY <1>2, <1>3, FS_RemoveElement, FS_CardinalityType
<1>5. Cardinality({gap(i) : i \in later}) = Cardinality(later)
  <2> DEFINE f == [i \in later |-> gap(i)]
             T == {gap(i) : i \in later}
  <2>1. f \in Bijection(later, T)
    <3>1. f \in [later -> T]
      OBVIOUS
    <3>2. \A i, j \in later : f[i] = f[j] => i = j
      OBVIOUS
    <3>3. \A t \in T : \E i \in later : f[i] = t
      OBVIOUS
    <3>4. QED
      BY <3>1, <3>2, <3>3 DEF Bijection, Injection, Surjection, IsInjective
  <2> HIDE DEF f, T, later
  <2>2. QED
    <3>1. ExistsBijection(later, T)
      BY <2>1 DEF ExistsBijection
    <3>2. QED
      BY <1>4, <3>1, FS_Bijection DEF T
<1>6. QED
  BY <1>1, <1>2, <1>4, <1>5

\* Where every row has its port, the starts of the connections are the rows
\* no earlier row of their port precedes.
LEMMA StartsAreFirsts ==
    ASSUME TableOK, NEW flow \in SUBSET Timed(tbl),
           \A i \in flow : tbl[i].col["src_port"] # None,
           NEW firsts,
           firsts = {i \in flow : \A j \in flow :
                        tbl[j].col["src_port"] = tbl[i].col["src_port"] => ~Sooner(tbl, j, i)}
    PROVE  {FirstRow(tbl, c) : c \in Connections(tbl, flow)} = firsts
<1> DEFINE conn(i) == {j \in flow : tbl[j].col["src_port"] = tbl[i].col["src_port"]}
           starts == {FirstRow(tbl, c) : c \in Connections(tbl, flow)}
<1>1. Connections(tbl, flow) = {conn(i) : i \in flow}
  BY DEF Connections
<1>2. \A i \in flow : i \in conn(i) /\ conn(i) \in SUBSET Timed(tbl)
  OBVIOUS
<1>3. ASSUME NEW c \in Connections(tbl, flow) PROVE FirstRow(tbl, c) \in firsts
  <2>1. PICK i \in flow : c = conn(i)
    BY <1>1, <1>3
  <2>2. FirstRow(tbl, c) \in c /\ \A j \in c : ~Sooner(tbl, j, FirstRow(tbl, c))
    <3>1. c \in SUBSET Timed(tbl) /\ c # {}
      BY <1>2, <2>1
    <3>2. QED
      BY <3>1, FirstRowIs
  <2> DEFINE h == FirstRow(tbl, c)
  <2>3. h \in c /\ \A j \in c : ~Sooner(tbl, j, h)
    BY <2>2
  <2> HIDE DEF h
  <2>4. h \in firsts
    BY <2>1, <2>3
  <2>5. QED
    BY <2>4 DEF h
<1>4. ASSUME NEW i \in firsts PROVE i \in starts
  <2>1. i \in flow /\ \A j \in conn(i) : ~Sooner(tbl, j, i)
    OBVIOUS
  <2> DEFINE c == conn(i)
  <2>2. c \in Connections(tbl, flow) /\ c \in SUBSET Timed(tbl) /\ c # {} /\ i \in c
    BY <1>1, <1>2, <2>1
  <2>3. \A j \in c : ~Sooner(tbl, j, i)
    BY <2>1
  <2> HIDE DEF c
  <2>4. i = FirstRow(tbl, c)
    BY <2>2, <2>3, FirstRowIs
  <2>5. QED
    BY <2>2, <2>4
<1>5. QED
  BY <1>3, <1>4

\* The folding of rows into connections gives every flow the verdict its
\* connections deserve, however many packets each left and in whatever order
\* tools reported them.
THEOREM BeaconsJudgeConnections == Spec => []BeaconsByConnection
<1>1. TableOK => BeaconsByConnection
  <2> SUFFICES ASSUME TableOK, NEW flow \in Flows(tbl),
                      \A i \in flow : tbl[i].col["src_port"] # None,
                      NEW firsts,
                      firsts = {i \in flow : \A j \in flow :
                          tbl[j].col["src_port"] = tbl[i].col["src_port"] => ~Sooner(tbl, j, i)}
               PROVE  (flow \in Beaconing(tbl))
                        <=> (/\ Cardinality(firsts) >= MinEvents
                             /\ Metronome(GapsOf(tbl, {{i} : i \in firsts})))
    BY DEF BeaconsByConnection
  <2>1. flow \in SUBSET Timed(tbl) /\ flow # {}
    BY DEF Flows, GroupBy
  <2>2. {FirstRow(tbl, c) : c \in Connections(tbl, flow)} = firsts
    BY <2>1, StartsAreFirsts
  <2>3. {FirstRow(tbl, c) : c \in {{i} : i \in firsts}} = firsts
    <3>1. firsts \subseteq Timed(tbl)
      BY <2>1
    <3>2. \A i \in firsts : FirstRow(tbl, {i}) = i
      <4> TAKE i \in firsts
      <4>1. {i} \in SUBSET Timed(tbl) /\ {i} # {}
        BY <3>1
      <4>2. QED
        BY <4>1, FirstRowIs
    <3>3. \A i \in firsts : \E c \in {{j} : j \in firsts} : FirstRow(tbl, c) = i
      BY <3>2
    <3>4. \A c \in {{j} : j \in firsts} : FirstRow(tbl, c) \in firsts
      <4> TAKE c \in {{j} : j \in firsts}
      <4>1. PICK i \in firsts : c = {i}
        OBVIOUS
      <4>2. QED
        BY <3>2, <4>1
    <3>5. QED
      BY <3>3, <3>4
  <2>4. /\ GapsOf(tbl, Connections(tbl, flow)) = GapsBetween(firsts)
        /\ GapsOf(tbl, {{i} : i \in firsts}) = GapsBetween(firsts)
    BY <2>2, <2>3, GapsOfStarts, Zenon
  <2>5. firsts \in SUBSET Timed(tbl) /\ firsts # {}
    <3>1. PICK i : i \in flow
      BY <2>1
    <3>2. PICK c : c \in Connections(tbl, flow)
      BY <3>1 DEF Connections
    <3>3. QED
      BY <2>1, <2>2, <3>2
  <2>6. Cardinality(GapsBetween(firsts)) = Cardinality(firsts) - 1
        /\ Cardinality(firsts) \in Nat
    BY <2>5, GapsCounted, FS_CardinalityType
  <2>7. (flow \in Beaconing(tbl))
          <=> /\ Cardinality(GapsOf(tbl, Connections(tbl, flow))) + 1 >= MinEvents
              /\ Metronome(GapsOf(tbl, Connections(tbl, flow)))
    BY DEF Beaconing
  <2>8. QED
    BY <2>4, <2>6, <2>7, RecipeAssumption
<1>2. QED
  BY <1>1, TableAlways, PTL

-----------------------------------------------------------------------------
(* Clusters: the union-find                                                 *)

\* f holds the values of a loop that computes each from the one before.
Loop(f, A, base, N, step) ==
    /\ f \in [0..N -> A]
    /\ f[0] = base /\ \A n \in 1..N : f[n] = step[<<f[n - 1], n>>]

\* A loop of finitely many steps has its values: there is no first step where
\* it is stuck.
LEMMA LoopExists ==
    ASSUME NEW A, NEW base \in A, NEW N \in Nat, NEW step \in [A \X (1..N) -> A]
    PROVE  \E f : Loop(f, A, base, N, step)
<1> DEFINE Runs(m, f) == f[0] = base /\ \A n \in 1..m : f[n] = step[<<f[n - 1], n>>]
           Stuck == {m \in 0..N : ~\E f \in [0..m -> A] : Runs(m, f)}
<1>1. SUFFICES ASSUME Stuck # {} PROVE FALSE
  <2>1. N \in 0..N /\ (N \notin Stuck => \E f \in [0..N -> A] : Runs(N, f))
    OBVIOUS
  <2>2. QED
    BY <1>1, <2>1 DEF Loop
<1>2. PICK m \in Stuck : \A n \in Stuck : m <= n
  <2>1. Stuck \in SUBSET Nat
    OBVIOUS
  <2> HIDE DEF Stuck
  <2>2. QED
    BY <1>1, <2>1, LeastNat
<1>3. m # 0
  <2>1. [n \in 0..0 |-> base] \in [0..0 -> A] /\ Runs(0, [n \in 0..0 |-> base])
    OBVIOUS
  <2>2. QED
    BY <2>1
<1>4. m \in 1..N /\ m - 1 \in 0..N /\ m - 1 \notin Stuck
  BY <1>2, <1>3
<1>5. PICK f \in [0..(m - 1) -> A] : Runs(m - 1, f)
  BY <1>4
<1> DEFINE g == [n \in 0..m |-> IF n < m THEN f[n] ELSE step[<<f[m - 1], m>>]]
<1>6. g \in [0..m -> A]
  <2>1. f[m - 1] \in A /\ <<f[m - 1], m>> \in A \X (1..N)
    BY <1>4
  <2>2. step[<<f[m - 1], m>>] \in A
    BY <2>1
  <2>3. \A n \in 0..m : n < m => f[n] \in A
    BY <1>4
  <2>4. QED
    BY <2>2, <2>3
<1>7. Runs(m, g)
  <2>1. g[0] = base
    BY <1>4, <1>5
  <2>2. ASSUME NEW n \in 1..m PROVE g[n] = step[<<g[n - 1], n>>]
    <3>1. n - 1 \in 0..m /\ n \in 0..m /\ g[n - 1] = f[n - 1]
      BY <1>4
    <3>2. CASE n < m
      <4>1. n \in 1..(m - 1)
        BY <1>4, <3>2
      <4>2. f[n] = step[<<f[n - 1], n>>]
        BY <1>5, <4>1
      <4>3. QED
        BY <3>1, <3>2, <4>2
    <3>3. CASE n = m
      BY <3>1, <3>3
    <3>4. QED
      BY <1>4, <3>2, <3>3
  <2>3. QED
    BY <2>1, <2>2
<1>8. QED
  BY <1>2, <1>6, <1>7

\* parent is a forest: the way up descends in some measure.
Descends(p, k) == \A x \in DOMAIN p : p[x] # x => k[p[x]] < k[x]
ForestOn(D) == {p \in [D -> D] : \E k \in [D -> Nat] : Descends(p, k)}

\* What find walks over: all that a set closed upwards must contain.
Trail(p, y) ==
    {z \in DOMAIN p : \A C \in SUBSET DOMAIN p : y \in C /\ (\A x \in C : p[x] \in C) => z \in C}

LEMMA TrailIs ==
    ASSUME NEW D, NEW p \in [D -> D], NEW y \in D
    PROVE  /\ p[y] = y => Trail(p, y) = {y}
           /\ p[y] # y => Trail(p, y) = {y} \cup Trail(p, p[y])
<1> DEFINE Up(C) == \A x \in C : p[x] \in C
<1>1. \A u, z : z \in Trail(p, u) <=> z \in D /\ \A C \in SUBSET D : u \in C /\ Up(C) => z \in C
  BY DEF Trail
<1>2. y \in Trail(p, y)
  BY <1>1
<1>3. ASSUME p[y] = y PROVE Trail(p, y) = {y}
  <2>1. {y} \in SUBSET D /\ Up({y})
    BY <1>3
  <2> DEFINE C == {y}
  <2> HIDE DEF C
  <2>2. ASSUME NEW z \in Trail(p, y) PROVE z \in C
    BY <1>1, <2>1 DEF C
  <2>3. QED
    BY <1>2, <2>2 DEF C
<1>4. ASSUME NEW z \in Trail(p, y), z # y PROVE z \in Trail(p, p[y])
  <2>1. SUFFICES ASSUME NEW C \in SUBSET D, p[y] \in C, Up(C) PROVE z \in C
    BY <1>1, <1>4
  <2>2. C \cup {y} \in SUBSET D /\ Up(C \cup {y}) /\ y \in C \cup {y}
    BY <2>1
  <2>3. z \in C \cup {y}
    BY <1>1, <1>4, <2>2
  <2>4. QED
    BY <1>4, <2>3
<1>5. ASSUME NEW z \in Trail(p, p[y]) PROVE z \in Trail(p, y)
  BY <1>1, <1>5
<1>6. QED
  BY <1>2, <1>3, <1>4, <1>5

\* Nothing that holds of a node when it holds of its parent fails: the least
\* counterexample would have a lesser one.
LEMMA NoLeastFailure ==
    ASSUME NEW D, NEW p \in [D -> D], NEW k \in [D -> Nat], Descends(p, k), NEW T \in SUBSET D,
           \A y \in D : (p[y] # y => p[y] \in T) => y \in T
    PROVE  T = D
<1> SUFFICES ASSUME NEW x \in D, x \notin T PROVE FALSE
  OBVIOUS
<1> DEFINE S == {k[y] : y \in D \ T}
<1>1. S \in SUBSET Nat /\ S # {}
  OBVIOUS
<1>2. PICK n \in S : \A m \in S : n <= m
  <2> HIDE DEF S
  <2>1. QED
    BY <1>1, LeastNat
<1>3. PICK y \in D \ T : n = k[y]
  OBVIOUS
<1>4. p[y] # y /\ p[y] \notin T
  BY <1>3
<1>5. k[p[y]] < k[y] /\ k[p[y]] \in S /\ k[y] \in Nat /\ k[p[y]] \in Nat
  BY <1>3, <1>4 DEF Descends
<1> HIDE DEF S
<1>6. k[y] <= k[p[y]]
  BY <1>2, <1>3, <1>5
<1>7. QED
  BY <1>5, <1>6

\* find is defined: every trail has one end.
LEMMA RootEquation ==
    ASSUME NEW D, NEW p \in [D -> D], NEW k \in [D -> Nat], Descends(p, k)
    PROVE  \A y \in D : Root(p, y) = IF p[y] = y THEN y ELSE Root(p, p[y])
<1> DEFINE Ends(y, z) == z \in Trail(p, y) /\ p[z] = z
           One == {y \in D : \E z : Ends(y, z) /\ \A w : Ends(y, w) => w = z}
<1>1. One = D
  <2>1. ASSUME NEW y \in D, p[y] # y => p[y] \in One PROVE y \in One
    <3>1. CASE p[y] = y
      <4>1. Ends(y, y) /\ \A w : Ends(y, w) => w = y
        BY <3>1, TrailIs
      <4>2. QED
        BY <4>1
    <3>2. CASE p[y] # y
      <4>1. PICK z : Ends(p[y], z) /\ \A w : Ends(p[y], w) => w = z
        BY <2>1, <3>2
      <4>2. \A w : Ends(y, w) <=> Ends(p[y], w)
        BY <3>2, TrailIs
      <4>3. QED
        BY <4>1, <4>2
    <3>3. QED
      BY <3>1, <3>2
  <2>2. One \in SUBSET D
    OBVIOUS
  <2> HIDE DEF One
  <2>3. QED
    BY <2>1, <2>2, NoLeastFailure
<1> DEFINE last == [y \in D |-> CHOOSE z : Ends(y, z)]
<1>2. \A y \in D : last[y] = IF p[y] = y THEN y ELSE last[p[y]]
  <2> SUFFICES ASSUME NEW y \in D PROVE last[y] = IF p[y] = y THEN y ELSE last[p[y]]
    OBVIOUS
  <2>1. PICK z : Ends(y, z) /\ \A w : Ends(y, w) => w = z
    BY <1>1
  <2>2. last[y] = z
    BY <2>1
  <2>3. CASE p[y] = y
    <3>1. Ends(y, y)
      BY <2>3, TrailIs
    <3>2. QED
      BY <2>1, <2>2, <2>3, <3>1
  <2>4. CASE p[y] # y
    <3>1. \A w : Ends(y, w) <=> Ends(p[y], w)
      BY <2>4, TrailIs
    <3>2. p[y] \in D /\ last[p[y]] = z
      BY <2>1, <3>1
    <3>3. QED
      BY <2>2, <2>4, <3>2
  <2>5. QED
    BY <2>3, <2>4
<1> HIDE DEF last
<1> DEFINE Solves(r) == r = [y \in DOMAIN p |-> IF p[y] = y THEN y ELSE r[p[y]]]
           root == CHOOSE r : Solves(r)
<1>3. Solves(last)
  <2>1. last = [y \in D |-> last[y]]
    BY DEF last
  <2>2. QED
    BY <1>2, <2>1
<1>4. Solves(root)
  BY <1>3
<1>5. \A y : Root(p, y) = root[y]
  BY DEF Root
<1> HIDE DEF root
<1>6. \A y \in D : root[y] = IF p[y] = y THEN y ELSE root[p[y]]
  BY <1>4
<1>7. QED
  BY <1>5, <1>6

\* The root of a node: a root, on the way up, and the root of its parent.
LEMMA RootIs ==
    ASSUME NEW D, NEW p \in [D -> D], NEW k \in [D -> Nat], Descends(p, k)
    PROVE  \A y \in D : /\ Root(p, y) \in D /\ p[Root(p, y)] = Root(p, y)
                        /\ Root(p, p[y]) = Root(p, y)
                        /\ p[y] = y => Root(p, y) = y
                        /\ Root(p, y) # y => k[Root(p, y)] < k[y]
<1> DEFINE root(y) == Root(p, y)
           Good == {y \in D : root(y) \in D /\ p[root(y)] = root(y) /\ (root(y) # y => k[root(y)] < k[y])}
<1>1. \A y \in D : root(y) = IF p[y] = y THEN y ELSE root(p[y])
  BY RootEquation
<1> HIDE DEF root
<1>2. Good = D
  <2>1. ASSUME NEW y \in D, p[y] # y => p[y] \in Good PROVE y \in Good
    <3>1. CASE p[y] = y
      BY <1>1, <3>1
    <3>2. CASE p[y] # y
      <4>1. root(y) = root(p[y]) /\ k[p[y]] < k[y] /\ k[p[y]] \in Nat /\ k[y] \in Nat
        BY <1>1, <3>2 DEF Descends
      <4>2. root(y) \in D /\ p[root(y)] = root(y) /\ (root(y) # p[y] => k[root(y)] < k[p[y]])
        BY <2>1, <3>2, <4>1
      <4>3. k[root(y)] \in Nat
        BY <4>2
      <4>4. k[root(y)] < k[y]
        BY <4>1, <4>2, <4>3
      <4>5. QED
        BY <4>2, <4>4
    <3>3. QED
      BY <3>1, <3>2
  <2>2. Good \in SUBSET D
    OBVIOUS
  <2> HIDE DEF Good
  <2>3. QED
    BY <2>1, <2>2, NoLeastFailure
<1>3. \A y \in D : root(p[y]) = root(y) /\ (p[y] = y => root(y) = y)
  <2> TAKE y \in D
  <2>1. CASE p[y] = y
    BY <1>1, <2>1
  <2>2. CASE p[y] # y
    BY <1>1, <2>2
  <2>3. QED
    BY <2>1, <2>2
<1>4. QED
  BY <1>2, <1>3 DEF root

\* Whatever satisfies the equation of find is find.
LEMMA RootUnique ==
    ASSUME NEW D, NEW p \in [D -> D], NEW k \in [D -> Nat], Descends(p, k), NEW R,
           \A y \in D : R[y] = IF p[y] = y THEN y ELSE R[p[y]]
    PROVE  \A y \in D : R[y] = Root(p, y)
<1> DEFINE Good == {y \in D : R[y] = Root(p, y)}
<1>1. \A y \in D : (p[y] # y => p[y] \in Good) => y \in Good
  BY RootIs
<1>2. Good \in SUBSET D
  OBVIOUS
<1> HIDE DEF Good
<1>3. Good = D
  BY <1>1, <1>2, NoLeastFailure
<1>4. QED
  BY <1>3 DEF Good

\* Path compression hangs the nodes on the way under their root, and changes
\* no node's root.
LEMMA CompressedIs ==
    ASSUME NEW D, NEW p \in [D -> D], NEW k \in [D -> Nat], Descends(p, k), NEW x \in D,
           NEW q, q = Compressed(p, x)
    PROVE  /\ q \in [D -> D] /\ Descends(q, k)
           /\ \A y \in D : Root(q, y) = Root(p, y)
<1> DEFINE root(y) == Root(p, y)
           Solves(r) == r = [y \in DOMAIN p |-> IF p[y] = y THEN {y} ELSE {y} \cup r[p[y]]]
           path == CHOOSE r : Solves(r)
<1>1. \A y \in D : /\ root(y) \in D /\ p[root(y)] = root(y) /\ root(p[y]) = root(y)
                   /\ p[y] = y => root(y) = y
                   /\ root(y) # y => k[root(y)] < k[y]
  BY RootIs
<1>2. q = [y \in D |-> IF y \in path[x] THEN root(x) ELSE p[y]]
  BY DEF Compressed
<1>3. \E r : Solves(r)
  <2> DEFINE r == [y \in D |-> Trail(p, y)]
  <2>1. \A y \in D : r[y] = IF p[y] = y THEN {y} ELSE {y} \cup r[p[y]]
    BY TrailIs
  <2>2. r = [y \in D |-> r[y]]
    OBVIOUS
  <2> HIDE DEF r
  <2>3. Solves(r)
    BY <2>1, <2>2
  <2>4. QED
    BY <2>3
<1>4. Solves(path)
  BY <1>3
<1> HIDE DEF path, root
<1>5. \A y \in D : path[y] = IF p[y] = y THEN {y} ELSE {y} \cup path[p[y]]
  BY <1>4
<1>6. \A y \in path[x] : y \in D /\ root(y) = root(x)
  <2> DEFINE Good == {y \in D : \A z \in path[y] : z \in D /\ root(z) = root(y)}
  <2>1. ASSUME NEW y \in D, p[y] # y => p[y] \in Good PROVE y \in Good
    <3> SUFFICES ASSUME NEW z \in path[y], z # y PROVE z \in D /\ root(z) = root(y)
      OBVIOUS
    <3>1. p[y] # y /\ z \in path[p[y]]
      <4>1. z \in IF p[y] = y THEN {y} ELSE {y} \cup path[p[y]]
        BY <1>5
      <4>2. QED
        BY <4>1
    <3>2. QED
      BY <1>1, <2>1, <3>1
  <2>2. Good \in SUBSET D
    OBVIOUS
  <2> HIDE DEF Good
  <2>3. Good = D
    BY <2>1, <2>2, NoLeastFailure
  <2>4. QED
    BY <2>3 DEF Good
<1>7. q \in [D -> D]
  BY <1>1, <1>2
<1>8. Descends(q, k)
  <2> SUFFICES ASSUME NEW y \in D, q[y] # y PROVE k[q[y]] < k[y]
    BY <1>7 DEF Descends
  <2>1. CASE y \in path[x]
    <3>1. q[y] = root(y)
      BY <1>2, <1>6, <2>1
    <3>2. QED
      BY <1>1, <3>1
  <2>2. CASE y \notin path[x]
    BY <1>2, <2>2 DEF Descends
  <2>3. QED
    BY <2>1, <2>2
<1>9. \A y \in D : Root(q, y) = root(y)
  <2> DEFINE R == [y \in D |-> root(y)]
  <2>1. \A y \in D : R[y] = IF q[y] = y THEN y ELSE R[q[y]]
    <3> SUFFICES ASSUME NEW y \in D PROVE root(y) = IF q[y] = y THEN y ELSE root(q[y])
      BY <1>7
    <3>1. CASE y \in path[x]
      <4>1. q[y] = root(y) /\ root(root(y)) = root(y)
        BY <1>1, <1>2, <1>6, <3>1
      <4>2. QED
        BY <4>1
    <3>2. CASE y \notin path[x]
      BY <1>1, <1>2, <3>2
    <3>3. QED
      BY <3>1, <3>2
  <2> HIDE DEF R
  <2>2. \A y \in D : R[y] = Root(q, y)
    BY <1>7, <1>8, <2>1, RootUnique
  <2>3. QED
    BY <2>2 DEF R
<1>10. QED
  BY <1>7, <1>8, <1>9 DEF root

\* union puts the nodes of one root under the other's, and no others.
LEMMA UnionIs ==
    ASSUME NEW D, NEW p \in ForestOn(D), NEW a \in D, NEW b \in D, NEW q, q = Union(p, a, b)
    PROVE  /\ q \in ForestOn(D)
           /\ \A y \in D : Root(q, y) = IF Root(p, y) = Root(p, a) THEN Root(p, b) ELSE Root(p, y)
<1>1. p \in [D -> D]
  BY DEF ForestOn
<1>2. PICK k \in [D -> Nat] : Descends(p, k)
  BY DEF ForestOn
<1>3. PICK f : f = Compressed(Compressed(p, a), b)
  OBVIOUS
<1>4. f \in [D -> D] /\ Descends(f, k) /\ \A y \in D : Root(f, y) = Root(p, y)
  <2>1. PICK g : g = Compressed(p, a)
    OBVIOUS
  <2>2. g \in [D -> D] /\ Descends(g, k) /\ \A y \in D : Root(g, y) = Root(p, y)
    BY <1>1, <1>2, <2>1, CompressedIs
  <2>3. f \in [D -> D] /\ Descends(f, k) /\ \A y \in D : Root(f, y) = Root(g, y)
    BY <1>2, <1>3, <2>1, <2>2, CompressedIs
  <2>4. QED
    BY <2>2, <2>3
<1> DEFINE root(y) == Root(f, y)
           ra == root(a)
           rb == root(b)
<1>5. q = [f EXCEPT ![ra] = rb]
  BY <1>3 DEF Union
<1>6. \A y \in D : /\ root(y) \in D /\ f[root(y)] = root(y) /\ root(f[y]) = root(y)
                   /\ f[y] = y => root(y) = y
  BY <1>2, <1>4, RootIs
<1> HIDE DEF root
<1>7. q \in [D -> D] /\ ra \in D /\ rb \in D /\ root(ra) = ra /\ root(rb) = rb
      /\ f[ra] = ra /\ f[rb] = rb
  BY <1>4, <1>5, <1>6
<1> HIDE DEF ra, rb
<1>8. CASE ra = rb
  <2>1. q = f
    BY <1>4, <1>5, <1>7, <1>8
  <2>2. QED
    BY <1>2, <1>4, <1>8, <2>1 DEF ForestOn, root, ra, rb
<1>9. CASE ra # rb
  <2> DEFINE h == [y \in D |-> IF root(y) = ra THEN k[y] + k[rb] + 1 ELSE k[y]]
  <2>1. h \in [D -> Nat]
    BY <1>7
  <2>2. Descends(q, h)
    <3> SUFFICES ASSUME NEW y \in D, q[y] # y PROVE h[q[y]] < h[y]
      BY <1>7 DEF Descends
    <3>1. k[y] \in Nat /\ k[rb] \in Nat /\ k[ra] \in Nat
      BY <1>7
    <3>2. CASE y = ra
      <4>1. q[y] = rb /\ h[rb] = k[rb] /\ h[ra] = k[ra] + k[rb] + 1
        BY <1>4, <1>5, <1>7, <1>9, <3>2
      <4>2. QED
        BY <3>1, <3>2, <4>1
    <3>3. CASE y # ra
      <4>1. q[y] = f[y] /\ f[y] \in D /\ root(f[y]) = root(y)
        BY <1>4, <1>5, <1>6, <3>3
      <4>2. k[f[y]] < k[y] /\ k[f[y]] \in Nat
        BY <1>4, <4>1 DEF Descends
      <4>3. QED
        BY <3>1, <4>1, <4>2
    <3>4. QED
      BY <3>2, <3>3
  <2> DEFINE R == [y \in D |-> IF root(y) = ra THEN rb ELSE root(y)]
  <2>3. \A y \in D : R[y] = IF q[y] = y THEN y ELSE R[q[y]]
    <3> TAKE y \in D
    <3>1. CASE y = ra
      BY <1>4, <1>5, <1>7, <1>9, <3>1
    <3>2. CASE y # ra
      <4>1. q[y] = f[y] /\ f[y] \in D /\ root(f[y]) = root(y)
        BY <1>4, <1>5, <1>6, <3>2
      <4>2. CASE f[y] = y
        <5>1. root(y) = y
          BY <1>6, <4>2
        <5>2. QED
          BY <3>2, <4>1, <4>2, <5>1
      <4>3. CASE f[y] # y
        BY <4>1, <4>3
      <4>4. QED
        BY <4>2, <4>3
    <3>3. QED
      BY <3>1, <3>2
  <2>4. q \in ForestOn(D)
    BY <1>7, <2>1, <2>2 DEF ForestOn
  <2> HIDE DEF R, h
  <2>5. \A y \in D : R[y] = Root(q, y)
    BY <1>7, <2>1, <2>2, <2>3, RootUnique
  <2>6. \A y \in D : Root(q, y) = IF root(y) = ra THEN rb ELSE root(y)
    BY <2>5 DEF R
  <2>7. QED
    BY <1>4, <2>4, <2>6 DEF root, ra, rb
<1>10. QED
  BY <1>8, <1>9
\* The roots of p do not tell apart what C holds together.
Respects(p, C) ==
    \A x, y \in DOMAIN p : Root(p, x) = Root(p, y) => (x \in C <=> y \in C)

\* q joins what p joins.
Joins(p, q) == \A x, y \in DOMAIN p : Root(p, x) = Root(p, y) => Root(q, x) = Root(q, y)

\* One event: its entities end under one root, what was together stays so,
\* and only what the event names comes together.
LEMMA UnionRowIs ==
    ASSUME NEW D, NEW p \in ForestOn(D), NEW ents \in Seq(D), NEW q, q = UnionRow(p, ents)
    PROVE  /\ q \in ForestOn(D) /\ Joins(p, q)
           /\ \A i, j \in 1..Len(ents) : Root(q, ents[i]) = Root(q, ents[j])
           /\ \A C : Respects(p, C) /\ (\A i, j \in 1..Len(ents) : ents[i] \in C <=> ents[j] \in C)
                       => Respects(q, C)
<1> DEFINE N == Len(ents)
           A == ForestOn(D)
           Solves(f) == f = [n \in 0..N |-> IF n <= 1 THEN p ELSE Union(f[n - 1], ents[1], ents[n])]
           after == CHOOSE f : Solves(f)
<1>1. N \in Nat /\ \A n \in 1..N : ents[n] \in D
  OBVIOUS
<1>2. ASSUME NEW f \in A, NEW n \in 1..N PROVE Union(f, ents[1], ents[n]) \in A
  <2>1. ents[1] \in D /\ ents[n] \in D
    BY <1>1
  <2>2. QED
    BY <2>1, UnionIs
<1>3. \E f : Solves(f)
  <2> DEFINE step == [s \in A \X (1..N) |-> IF s[2] = 1 THEN s[1] ELSE Union(s[1], ents[1], ents[s[2]])]
  <2>1. step \in [A \X (1..N) -> A]
    BY <1>2
  <2>2. \A f \in A, n \in 1..N :
            step[<<f, n>>] = IF n = 1 THEN f ELSE Union(f, ents[1], ents[n])
    OBVIOUS
  <2>3. p \in A
    OBVIOUS
  <2> HIDE DEF step, A, N
  <2>4. PICK f \in [0..N -> A] : f[0] = p /\ \A n \in 1..N : f[n] = step[<<f[n - 1], n>>]
    <3>1. PICK f : Loop(f, A, p, N, step)
      BY <1>1, <2>3, <2>1, LoopExists
    <3>2. QED
      BY <3>1 DEF Loop
  <2>5. \A n \in 1..N : f[n] = IF n = 1 THEN p ELSE Union(f[n - 1], ents[1], ents[n])
    <3> TAKE n \in 1..N
    <3>1. n - 1 \in 0..N /\ f[n - 1] \in A
      BY <1>1, <2>4
    <3>2. f[n] = IF n = 1 THEN f[n - 1] ELSE Union(f[n - 1], ents[1], ents[n])
      BY <2>2, <2>4, <3>1
    <3>3. QED
      BY <2>4, <3>2
  <2>6. \A n \in 0..N : f[n] = IF n <= 1 THEN p ELSE Union(f[n - 1], ents[1], ents[n])
    BY <1>1, <2>4, <2>5
  <2>7. f = [n \in 0..N |-> f[n]]
    BY <2>4
  <2>8. Solves(f)
    BY <2>6, <2>7
  <2>9. QED
    BY <2>8
<1>4. Solves(after)
  BY <1>3
<1>5. q = after[N]
  BY DEF UnionRow
<1> HIDE DEF after
<1>6. \A n \in 0..N : after[n] = IF n <= 1 THEN p ELSE Union(after[n - 1], ents[1], ents[n])
  BY <1>4
<1> DEFINE Fine(n) ==
               /\ after[n] \in A /\ Joins(p, after[n])
               /\ \A i, j \in 1..n : Root(after[n], ents[i]) = Root(after[n], ents[j])
               /\ \A C : Respects(p, C) /\ (\A i, j \in 1..N : ents[i] \in C <=> ents[j] \in C)
                           => Respects(after[n], C)
           Bad == {n \in 0..N : ~Fine(n)}
<1>7. \A n \in 0..N : n <= 1 => Fine(n)
  <2> TAKE n \in 0..N
  <2> HAVE n <= 1
  <2>1. after[n] = p
    BY <1>6
  <2>2. \A i, j \in 1..n : i = j
    BY <1>1
  <2>3. QED
    BY <2>1, <2>2 DEF Joins
<1>8. ASSUME NEW n \in 0..N, n > 1, Fine(n - 1) PROVE Fine(n)
  <2> DEFINE r == after[n - 1]
             s == after[n]
  <2>1. s = Union(r, ents[1], ents[n]) /\ r \in A /\ ents[1] \in D /\ ents[n] \in D
    BY <1>1, <1>6, <1>8
  <2>2. Joins(p, r) /\ (\A i, j \in 1..(n - 1) : Root(r, ents[i]) = Root(r, ents[j]))
    BY <1>8
  <2>3. ASSUME NEW C, Respects(p, C), \A i, j \in 1..N : ents[i] \in C <=> ents[j] \in C
        PROVE  Respects(r, C)
    BY <1>8, <2>3
  <2>4. r \in [D -> D] /\ p \in [D -> D]
    BY <2>1 DEF ForestOn
  <2> HIDE DEF r, s
  <2>5. /\ s \in ForestOn(D)
        /\ \A y \in D : Root(s, y) = IF Root(r, y) = Root(r, ents[1]) THEN Root(r, ents[n]) ELSE Root(r, y)
    BY <2>1, UnionIs
  <2>6. s \in [D -> D]
    BY <2>5 DEF ForestOn
  <2>7. Joins(p, s)
    BY <2>2, <2>4, <2>5 DEF Joins
  <2>8. ASSUME NEW i \in 1..n PROVE Root(s, ents[i]) = Root(r, ents[n])
    <3>1. ents[i] \in D
      BY <1>1, <2>8
    <3>2. CASE i = n
      BY <2>5, <3>1, <3>2
    <3>3. CASE i # n
      <4>1. i \in 1..(n - 1) /\ 1 \in 1..(n - 1)
        BY <1>8, <3>3
      <4>2. Root(r, ents[i]) = Root(r, ents[1])
        BY <2>2, <4>1
      <4>3. QED
        BY <2>5, <3>1, <4>2
    <3>4. QED
      BY <3>2, <3>3
  <2>9. ASSUME NEW C, Respects(p, C), \A i, j \in 1..N : ents[i] \in C <=> ents[j] \in C
        PROVE  Respects(s, C)
    <3>1. Respects(r, C)
      BY <2>3, <2>9
    <3>2. ents[1] \in C <=> ents[n] \in C
      BY <1>1, <1>8, <2>9
    <3> DEFINE a == ents[1]
               b == ents[n]
    <3>3. a \in D /\ b \in D /\ (a \in C <=> b \in C)
      BY <2>1, <3>2
    <3>4. \A y \in D : Root(s, y) = IF Root(r, y) = Root(r, a) THEN Root(r, b) ELSE Root(r, y)
      BY <2>5
    <3> HIDE DEF a, b
    <3>5. \A x, y \in D : Root(r, x) = Root(r, y) => (x \in C <=> y \in C)
      BY <2>4, <3>1 DEF Respects
    <3> SUFFICES ASSUME NEW x \in D, NEW y \in D, Root(s, x) = Root(s, y)
                 PROVE  x \in C <=> y \in C
      BY <2>6 DEF Respects
    <3>6. \A z \in D : Root(s, z) = Root(r, b) => (z \in C <=> b \in C)
      BY <3>3, <3>4, <3>5
    <3>7. QED
      BY <3>3, <3>4, <3>5, <3>6
  <2>10. QED
    BY <2>5, <2>7, <2>8, <2>9 DEF s
<1>9. Bad = {}
  <2> SUFFICES ASSUME Bad # {} PROVE FALSE
    OBVIOUS
  <2>1. Bad \in SUBSET Nat
    OBVIOUS
  <2>2. PICK n \in Bad : \A m \in Bad : n <= m
    <3> HIDE DEF Bad
    <3>1. QED
      BY <2>1, LeastNat
  <2>3. n \in 0..N /\ ~Fine(n)
    OBVIOUS
  <2> HIDE DEF Fine
  <2>4. n > 1
    BY <1>1, <1>7, <2>3
  <2>5. n - 1 \in 0..N /\ n - 1 \notin Bad
    BY <1>1, <2>2, <2>3, <2>4
  <2>6. QED
    BY <1>8, <2>3, <2>4, <2>5
<1>10. Fine(N)
  BY <1>1, <1>9
<1>11. QED
  BY <1>5, <1>10

\* The entities of an event are a sequence of linked ones.
LEMMA EntitiesAre ==
    ASSUME NEW t \in Seq(Record), NEW inf, NEW i \in 1..Len(t)
    PROVE  RecordEntities(t[i], inf) \in Seq(Linked(t, inf))
<1> DEFINE r == t[i]
           E == {Entity(r, f) : f \in Field}
           s == RecordEntities(r, inf)
           links(f) == Names(r, f) /\ ~(KindOf(f) = "ip" /\ Canon(r, f) \in inf)
           ents(f) == IF links(f) THEN <<Entity(r, f)>> ELSE <<>>
<1>1. Field = {"user", "host", "src_ip", "dst_ip", "dns", "hash", "md5", "file"}
  BY DEF Field, Fields
<1>2. \A f \in Field : ents(f) \in Seq(E)
  <2> TAKE f \in Field
  <2>1. Entity(r, f) \in E
    OBVIOUS
  <2> HIDE DEF E
  <2>2. QED
    BY <2>1
<1>3. s = ents("user") \o ents("host") \o ents("src_ip") \o ents("dst_ip") \o ents("dns")
          \o ents("hash") \o ents("md5") \o ents("file")
  BY DEF RecordEntities
<1> HIDE DEF ents, E, s
<1>4. s \in Seq(E)
  BY <1>1, <1>2, <1>3
<1>5. Len(s) \in Nat /\ DOMAIN s = 1..Len(s) /\ s \in [1..Len(s) -> E]
  BY <1>4
<1>6. \A k \in 1..Len(s) : s[k] \in Linked(t, inf)
  <2>1. \A k \in 1..Len(s) : s[k] \in ToSet(RecordEntities(t[i], inf))
    BY <1>5 DEF ToSet, s
  <2>2. i \in Rows(t)
    BY DEF Rows
  <2>3. QED
    BY <2>1, <2>2 DEF Linked
<1>7. s \in [1..Len(s) -> Linked(t, inf)]
  BY <1>5, <1>6
<1>8. s \in Seq(Linked(t, inf))
  BY <1>5, <1>7, SeqDef
<1>9. QED
  BY <1>8 DEF s

\* A set that no event of the table reaches across.
Whole(t, inf, C) ==
    \A i \in 1..Len(t) : \A x, y \in ToSet(RecordEntities(t[i], inf)) : x \in C <=> y \in C

\* When all events are through, the entities of each are under one root, and
\* the roots keep apart what no event joins.
LEMMA ForestIs ==
    ASSUME NEW t \in Seq(Record), NEW inf, NEW D, D = Linked(t, inf), NEW q, q = Forest(t, inf)
    PROVE  /\ q \in ForestOn(D)
           /\ \A i \in 1..Len(t) : \A x, y \in ToSet(RecordEntities(t[i], inf)) : Root(q, x) = Root(q, y)
           /\ \A C : Whole(t, inf, C) => Respects(q, C)
<1> DEFINE N == Len(t)
           A == ForestOn(D)
           alone == [e \in D |-> e]
           ents(n) == RecordEntities(t[n], inf)
           Solves(f) == f = [n \in 0..N |-> IF n = 0 THEN alone ELSE UnionRow(f[n - 1], ents(n))]
           after == CHOOSE f : Solves(f)
<1>1. N \in Nat /\ \A n \in 1..N : ents(n) \in Seq(D)
  BY EntitiesAre
<1>2. q = after[N]
  BY DEF Forest
<1> HIDE DEF ents
<1>3. ASSUME NEW f \in A, NEW n \in 1..N PROVE UnionRow(f, ents(n)) \in A
  BY <1>1, UnionRowIs
<1>4. alone \in A
  <2> DEFINE k == [e \in D |-> 0]
  <2>1. alone \in [D -> D] /\ k \in [D -> Nat] /\ Descends(alone, k)
    BY DEF Descends
  <2>2. QED
    BY <2>1 DEF ForestOn
<1>5. \E f : Solves(f)
  <2> DEFINE step == [s \in A \X (1..N) |-> UnionRow(s[1], ents(s[2]))]
  <2>1. step \in [A \X (1..N) -> A]
    BY <1>3
  <2>2. \A f \in A, n \in 1..N : step[<<f, n>>] = UnionRow(f, ents(n))
    OBVIOUS
  <2> HIDE DEF step, A, N, alone
  <2>3. PICK f : Loop(f, A, alone, N, step)
    BY <1>1, <1>4, <2>1, LoopExists
  <2>4. f \in [0..N -> A] /\ f[0] = alone /\ \A n \in 1..N : f[n] = step[<<f[n - 1], n>>]
    BY <2>3 DEF Loop
  <2>5. \A n \in 1..N : f[n] = UnionRow(f[n - 1], ents(n))
    <3> TAKE n \in 1..N
    <3>1. n - 1 \in 0..N /\ f[n - 1] \in A
      BY <1>1, <2>4
    <3>2. QED
      BY <2>2, <2>4, <3>1
  <2>6. \A n \in 0..N : f[n] = IF n = 0 THEN alone ELSE UnionRow(f[n - 1], ents(n))
    BY <1>1, <2>4, <2>5
  <2>7. f = [n \in 0..N |-> f[n]]
    BY <2>4
  <2>8. Solves(f)
    BY <2>6, <2>7
  <2>9. QED
    BY <2>8
<1>6. Solves(after)
  BY <1>5
<1> HIDE DEF after
<1>7. \A n \in 0..N : after[n] = IF n = 0 THEN alone ELSE UnionRow(after[n - 1], ents(n))
  BY <1>6
<1> DEFINE Fine(n) ==
               /\ after[n] \in A
               /\ \A i \in 1..n : \A j, k \in 1..Len(ents(i)) :
                      Root(after[n], ents(i)[j]) = Root(after[n], ents(i)[k])
               /\ \A C : Whole(t, inf, C) => Respects(after[n], C)
           Bad == {n \in 0..N : ~Fine(n)}
<1>8. Fine(0)
  <2>1. after[0] = alone
    BY <1>1, <1>7
  <2>2. \A x \in D : Root(alone, x) = x
    <3> DEFINE k == [e \in D |-> 0]
    <3>1. alone \in [D -> D] /\ k \in [D -> Nat] /\ Descends(alone, k) /\ \A x \in D : alone[x] = x
      BY DEF Descends
    <3> HIDE DEF alone, k
    <3>2. QED
      BY <3>1, RootIs
  <2>3. DOMAIN alone = D
    OBVIOUS
  <2> HIDE DEF alone
  <2>4. \A C : Respects(alone, C)
    BY <2>2, <2>3 DEF Respects
  <2>5. QED
    BY <1>4, <2>1, <2>4
<1>9. ASSUME NEW n \in 1..N, Fine(n - 1) PROVE Fine(n)
  <2> DEFINE p == after[n - 1]
             s == after[n]
             row == ents(n)
  <2>1. s = UnionRow(p, row) /\ p \in ForestOn(D) /\ row \in Seq(D)
    <3>1. n \in 0..N /\ n # 0 /\ ents(n) \in Seq(D)
      BY <1>1
    <3>2. after[n] = UnionRow(after[n - 1], ents(n))
      BY <1>7, <3>1
    <3>3. after[n - 1] \in ForestOn(D)
      BY <1>9
    <3>4. QED
      BY <3>1, <3>2, <3>3
  <2>2. \A i \in 1..(n - 1) : \A j, k \in 1..Len(ents(i)) : Root(p, ents(i)[j]) = Root(p, ents(i)[k])
    BY <1>9
  <2>3. \A C : Whole(t, inf, C) => Respects(p, C)
    BY <1>9
  <2> HIDE DEF p, s, row
  <2>4. /\ s \in ForestOn(D) /\ Joins(p, s)
        /\ \A j, k \in 1..Len(row) : Root(s, row[j]) = Root(s, row[k])
        /\ \A C : Respects(p, C) /\ (\A j, k \in 1..Len(row) : row[j] \in C <=> row[k] \in C)
                    => Respects(s, C)
    BY <2>1, UnionRowIs
  <2>5. ASSUME NEW i \in 1..n, NEW j \in 1..Len(ents(i)), NEW k \in 1..Len(ents(i))
        PROVE  Root(s, ents(i)[j]) = Root(s, ents(i)[k])
    <3>1. CASE i = n
      BY <2>4, <3>1 DEF row
    <3>2. CASE i # n
      <4>1. i \in 1..(n - 1) /\ i \in 1..N
        BY <1>1, <3>2
      <4>2. ents(i)[j] \in D /\ ents(i)[k] \in D
        BY <1>1, <4>1
      <4>3. Root(p, ents(i)[j]) = Root(p, ents(i)[k])
        BY <2>2, <4>1
      <4>4. DOMAIN p = D
        BY <2>1 DEF ForestOn
      <4>5. QED
        BY <2>4, <4>2, <4>3, <4>4 DEF Joins
    <3>3. QED
      BY <3>1, <3>2
  <2>6. ASSUME NEW C, Whole(t, inf, C) PROVE Respects(s, C)
    <3>1. \A j \in 1..Len(row) : row[j] \in ToSet(RecordEntities(t[n], inf))
      <4>1. DOMAIN row = 1..Len(row)
        BY <2>1
      <4>2. QED
        BY <4>1 DEF ToSet, row, ents
    <3>2. \A x, y \in ToSet(RecordEntities(t[n], inf)) : x \in C <=> y \in C
      BY <2>6 DEF Whole
    <3>3. QED
      BY <2>3, <2>4, <2>6, <3>1, <3>2
  <2>7. QED
    BY <2>4, <2>5, <2>6 DEF s
<1>10. Bad = {}
  <2> SUFFICES ASSUME Bad # {} PROVE FALSE
    OBVIOUS
  <2>1. Bad \in SUBSET Nat
    OBVIOUS
  <2>2. PICK n \in Bad : \A m \in Bad : n <= m
    <3> HIDE DEF Bad
    <3>1. QED
      BY <2>1, LeastNat
  <2>3. n \in 0..N /\ ~Fine(n)
    OBVIOUS
  <2> HIDE DEF Fine
  <2>4. n \in 1..N /\ n - 1 \in 0..N
    BY <1>1, <1>8, <2>3
  <2>5. n - 1 \notin Bad
    BY <1>1, <2>2, <2>4
  <2>6. QED
    BY <1>9, <2>3, <2>4, <2>5
<1>11. Fine(N)
  BY <1>1, <1>10
<1>12. ASSUME NEW i \in 1..N, NEW x \in ToSet(ents(i)), NEW y \in ToSet(ents(i))
       PROVE  Root(q, x) = Root(q, y)
  <2>1. ents(i) \in Seq(D)
    BY <1>1
  <2>2. PICK j \in 1..Len(ents(i)) : x = ents(i)[j]
    BY <2>1 DEF ToSet
  <2>3. PICK k \in 1..Len(ents(i)) : y = ents(i)[k]
    BY <2>1 DEF ToSet
  <2>4. QED
    BY <1>2, <1>11, <2>2, <2>3
<1>13. QED
  BY <1>2, <1>11, <1>12 DEF ents

\* A component is the set of the nodes of one root.
LEMMA ComponentsAre ==
    ASSUME NEW t \in Seq(Record), NEW inf, NEW comp \in Components(t, inf), NEW q, q = Forest(t, inf)
    PROVE  /\ comp # {} /\ comp \subseteq Linked(t, inf)
           /\ \E r : \A e : e \in comp <=> e \in Linked(t, inf) /\ Root(q, e) = r
<1>1. DOMAIN q = Linked(t, inf)
  BY ForestIs DEF ForestOn
<1>2. PICK e0 \in DOMAIN q : comp = {e \in DOMAIN q : Root(q, e) = Root(q, e0)}
  BY DEF Components
<1>3. QED
  BY <1>1, <1>2

\* Two entities of one event are linked.
LEMMA PairIsEdge ==
    ASSUME NEW t \in Seq(Record), NEW inf, NEW i \in 1..Len(t),
           NEW x \in ToSet(RecordEntities(t[i], inf)), NEW y \in ToSet(RecordEntities(t[i], inf)), x # y
    PROVE  {x, y} \in Edges(t, inf)
<1>1. IsFiniteSet({x, y}) /\ Cardinality({x, y}) = 2
  <2>1. IsFiniteSet({x}) /\ Cardinality({x}) = 1
    BY FS_Singleton
  <2>2. IsFiniteSet({x} \cup {y}) /\ Cardinality({x} \cup {y}) = 1 + 1
    BY <2>1, FS_AddElement
  <2>3. {x} \cup {y} = {x, y} /\ 1 + 1 = 2
    OBVIOUS
  <2>4. QED
    BY <2>2, <2>3, Zenon
<1>2. {x, y} \in kSubset(2, ToSet(RecordEntities(t[i], inf)))
  BY <1>1 DEF kSubset
<1>3. QED
  BY <1>2 DEF Edges, Rows

\* The links inside comp stay in it, and no part of it without one is cut off.
Connected(comp, inside, one) ==
    /\ \A e \in inside : e \subseteq comp
    /\ \A S \in SUBSET (comp \ {one}) : S # {} => \E e \in inside : e \cap S # {} /\ ~(e \subseteq S)

\* A component holds the links that touch it, and is held together by them: a
\* part that no link leaves would be respected by the forest, and the part has
\* the root of the whole.
LEMMA ClustersOf ==
    ASSUME NEW t \in Seq(Record), NEW inf, NEW comp \in Components(t, inf),
           NEW one \in comp, NEW inside, inside = {e \in Edges(t, inf) : e \cap comp # {}}
    PROVE  Connected(comp, inside, one)
<1>1. PICK q : q = Forest(t, inf)
  OBVIOUS
<1>2. /\ q \in ForestOn(Linked(t, inf))
      /\ \A i \in 1..Len(t) : \A x, y \in ToSet(RecordEntities(t[i], inf)) : Root(q, x) = Root(q, y)
      /\ \A C : Whole(t, inf, C) => Respects(q, C)
  BY <1>1, ForestIs
<1>3. PICK r : \A e : e \in comp <=> e \in Linked(t, inf) /\ Root(q, e) = r
  BY <1>1, ComponentsAre
<1>4. DOMAIN q = Linked(t, inf)
  BY <1>2 DEF ForestOn
<1>5. ASSUME NEW e \in inside PROVE e \subseteq comp
  <2>1. PICK i \in 1..Len(t) : e \in kSubset(2, ToSet(RecordEntities(t[i], inf)))
    BY DEF Edges, Rows
  <2>2. e \subseteq ToSet(RecordEntities(t[i], inf))
    BY <2>1 DEF kSubset
  <2>3. \A x \in ToSet(RecordEntities(t[i], inf)) : x \in Linked(t, inf)
    BY DEF Linked, Rows
  <2>4. PICK x \in e : x \in comp
    BY <1>5
  <2>5. QED
    BY <1>2, <1>3, <2>2, <2>3, <2>4
<1>6. ASSUME NEW S \in SUBSET (comp \ {one}), NEW s \in S,
             \A e \in inside : e \cap S # {} => e \subseteq S
      PROVE  FALSE
  <2>1. Whole(t, inf, S)
    <3> SUFFICES ASSUME NEW i \in 1..Len(t), NEW x \in ToSet(RecordEntities(t[i], inf)),
                        NEW y \in ToSet(RecordEntities(t[i], inf)), x \in S
                 PROVE  y \in S
      BY DEF Whole
    <3>1. CASE x = y
      BY <3>1
    <3>2. CASE x # y
      <4>1. {x, y} \in Edges(t, inf) /\ x \in comp
        BY <3>2, PairIsEdge
      <4>2. {x, y} \in inside
        BY <4>1
      <4>3. QED
        BY <1>6, <4>2
    <3>3. QED
      BY <3>1, <3>2
  <2>2. Respects(q, S)
    BY <1>2, <2>1
  <2>3. Root(q, s) = Root(q, one) /\ s \in DOMAIN q /\ one \in DOMAIN q
    BY <1>3, <1>4
  <2>4. QED
    BY <2>2, <2>3 DEF Respects
<1>7. QED
  BY <1>5, <1>6 DEF Connected

\* Clusters: on the table of every case the union-find of incident_clusters
\* finds the connected components, whatever the order of the events and
\* whatever parents the unions and the path compressions leave behind.
THEOREM ClustersFound == Spec => []ClustersAreComponents
<1>1. TableOK => ClustersAreComponents
  <2> SUFFICES ASSUME TableOK, NEW comp \in Components(tbl, infra)
               PROVE  LET links  == Edges(tbl, infra)
                          inside == {e \in links : e \cap comp # {}}
                          one    == CHOOSE e \in comp : TRUE
                      IN  /\ \A e \in inside : e \subseteq comp
                          /\ \A S \in SUBSET (comp \ {one}) :
                                 S # {} => \E e \in inside : e \cap S # {} /\ ~(e \subseteq S)
    BY DEF ClustersAreComponents
  <2> DEFINE links  == Edges(tbl, infra)
             inside == {e \in links : e \cap comp # {}}
             one    == CHOOSE e \in comp : TRUE
  <2>1. tbl \in Seq(Record)
    BY DEF TableOK
  <2>2. one \in comp
    BY <2>1, ComponentsAre
  <2>3. inside = {e \in Edges(tbl, infra) : e \cap comp # {}}
    OBVIOUS
  <2> HIDE DEF one, links, inside
  <2>4. Connected(comp, inside, one)
    BY <2>1, <2>2, <2>3, ClustersOf
  <2>5. QED
    BY <2>4 DEF one, inside, links, Connected
<1>2. QED
  BY <1>1, TableAlways, PTL

-----------------------------------------------------------------------------
(* Clusters: what a list of them keeps, and what they grow into             *)

\* The clusters there are, before the list's limit.
Found(t, inf) ==
    {c \in {Cluster(t, inf, comp) : comp \in Components(t, inf)} : c.entities >= 2 /\ c.sources >= 2}

\* A table links finitely many entities, into finitely many components.
LEMMA FinitelyLinked ==
    ASSUME NEW t \in Seq(Record), NEW inf
    PROVE  /\ Rows(t) = 1..Len(t) /\ Len(t) \in Nat /\ IsFiniteSet(Rows(t))
           /\ IsFiniteSet(Linked(t, inf)) /\ IsFiniteSet(Components(t, inf)) /\ IsFiniteSet(Found(t, inf))
           /\ \A comp \in Components(t, inf) : IsFiniteSet(comp)
<1>1. Rows(t) = 1..Len(t) /\ Len(t) \in Nat /\ IsFiniteSet(Rows(t))
  <2>1. Rows(t) = 1..Len(t) /\ Len(t) \in Nat
    BY LenProperties DEF Rows
  <2>2. QED
    BY <2>1, FS_Interval
<1> DEFINE names(i) == ToSet(RecordEntities(t[i], inf))
<1>2. ASSUME NEW i \in Rows(t) PROVE IsFiniteSet(names(i))
  <2> DEFINE ents == RecordEntities(t[i], inf)
  <2>1. ents \in Seq(Linked(t, inf))
    BY <1>1, EntitiesAre
  <2>2. DOMAIN ents = 1..Len(ents) /\ Len(ents) \in Nat
    BY <2>1
  <2> HIDE DEF ents
  <2>3. IsFiniteSet(DOMAIN ents)
    BY <2>2, FS_Interval
  <2>4. [k \in DOMAIN ents |-> ents[k]] \in Surjection(DOMAIN ents, ToSet(ents))
    BY DEF Surjection, ToSet
  <2>5. QED
    BY <2>3, <2>4, FS_Surjection DEF ents
<1>3. IsFiniteSet({names(i) : i \in Rows(t)})
  <2> DEFINE all == {names(i) : i \in Rows(t)}
             f == [i \in Rows(t) |-> names(i)]
  <2>1. f \in Surjection(Rows(t), all)
    BY DEF Surjection
  <2> HIDE DEF f, all
  <2>2. IsFiniteSet(all)
    BY <1>1, <2>1, FS_Surjection
  <2>3. QED
    BY <2>2 DEF all
<1>4. IsFiniteSet(Linked(t, inf))
  <2>1. \A T \in {names(i) : i \in Rows(t)} : IsFiniteSet(T)
    BY <1>2
  <2>2. IsFiniteSet(UNION {names(i) : i \in Rows(t)})
    <3> DEFINE all == {names(i) : i \in Rows(t)}
    <3> HIDE DEF all
    <3>1. IsFiniteSet(UNION all)
      BY <1>3, <2>1, FS_UNION DEF all
    <3>2. QED
      BY <3>1 DEF all
  <2>3. QED
    BY <2>2 DEF Linked
<1>5. IsFiniteSet(Components(t, inf))
  <2>1. Components(t, inf) \in SUBSET (SUBSET Linked(t, inf))
    BY ComponentsAre
  <2>2. IsFiniteSet(SUBSET Linked(t, inf))
    BY <1>4, FS_SUBSET
  <2>3. QED
    BY <2>1, <2>2, FS_Subset
<1>6. IsFiniteSet(Found(t, inf))
  <2> DEFINE comps == Components(t, inf)
             f == [comp \in comps |-> Cluster(t, inf, comp)]
             all == {Cluster(t, inf, comp) : comp \in comps}
  <2>1. f \in Surjection(comps, all)
    BY DEF Surjection
  <2>2. Found(t, inf) \in SUBSET all
    BY DEF Found
  <2> HIDE DEF f, all
  <2>3. IsFiniteSet(all)
    BY <1>5, <2>1, FS_Surjection
  <2>4. QED
    BY <2>2, <2>3, FS_Subset
<1>7. \A comp \in Components(t, inf) : IsFiniteSet(comp)
  BY <1>4, ComponentsAre, FS_Subset
<1>8. QED
  BY <1>1, <1>4, <1>5, <1>6, <1>7

\* Finitely many rows are of finitely many tools.
LEMMA FamiliesFinite ==
    ASSUME NEW t, NEW ids, IsFiniteSet(ids)
    PROVE  IsFiniteSet(FamiliesOf(t, ids))
<1> DEFINE f == [i \in ids |-> Family(t[i])]
           all == {Family(t[i]) : i \in ids}
<1>1. f \in Surjection(ids, all)
  BY DEF Surjection
<1>2. FamiliesOf(t, ids) \in SUBSET all
  BY DEF FamiliesOf
<1> HIDE DEF f, all
<1>3. QED
  BY <1>1, <1>2, FS_Surjection, FS_Subset

\* A cluster is ranked by whole numbers.
LEMMA ClusterNumbers ==
    ASSUME NEW t \in Seq(Record), NEW inf, NEW c \in Found(t, inf)
    PROVE  c.kc_depth \in Int /\ c.sources \in Int /\ c.entities \in Int
<1>1. PICK comp \in Components(t, inf) : c = Cluster(t, inf, comp)
  BY DEF Found
<1> DEFINE ids == EventsOf(t, inf, comp)
           phases == {KcPhase(t[i]) : i \in ids}
<1>2. /\ c.entities = Cardinality(comp) /\ c.sources = Cardinality(FamiliesOf(t, ids))
      /\ c.kc_depth = Deepest(phases)
  BY <1>1 DEF Cluster
<1>3. IsFiniteSet(comp) /\ IsFiniteSet(ids)
  <2>1. ids \in SUBSET Rows(t)
    BY DEF EventsOf
  <2>2. QED
    BY <2>1, FinitelyLinked, FS_Subset
<1>4. Cardinality(comp) \in Nat
  BY <1>3, FS_CardinalityType
<1>5. Cardinality(FamiliesOf(t, ids)) \in Nat
  BY <1>3, FamiliesFinite, FS_CardinalityType
<1>6. Deepest(phases) \in Int
  <2>1. CASE phases = {}
    BY <2>1 DEF Deepest
  <2>2. CASE phases # {}
    <3> DEFINE depth == [i \in ids |-> KcPhase(t[i])]
    <3>1. depth \in Surjection(ids, phases)
      BY DEF Surjection
    <3>2. IsFiniteSet(phases)
      BY <1>3, <3>1, FS_Surjection
    <3>3. phases \subseteq Phase \cup {0}
      BY DepthOfRecord
    <3> HIDE DEF phases
    <3>4. Deepest(phases) \in phases
      BY <2>2, <3>2, <3>3, DeepestIsGreatest
    <3>5. \A q \in Phase \cup {0} : q \in Int
      BY DEF Phase
    <3>6. QED
      BY <3>3, <3>4, <3>5
  <2>3. QED
    BY <2>1, <2>2
<1>7. QED
  BY <1>2, <1>4, <1>5, <1>6

\* The list holds clusters, as many as there are or as the limit allows.
LEMMA ListOfClusters ==
    ASSUME NEW t \in Seq(Record), NEW inf
    PROVE  LET list == IncidentClusters(t, inf) IN
             /\ list \subseteq Found(t, inf) /\ IsFiniteSet(list) /\ Cardinality(list) \in Nat
             /\ Cardinality(list) <= ClusterLimit
             /\ Cardinality(list) < ClusterLimit => list = Found(t, inf)
<1> DEFINE S == Found(t, inf)
           list == IncidentClusters(t, inf)
           Picked(T) == Cardinality(T) = ClusterLimit /\ \A x \in T, y \in S \ T : ~AboveCluster(y, x)
<1>1. IsFiniteSet(S) /\ Cardinality(S) \in Nat /\ ClusterLimit \in Nat
  BY FinitelyLinked, FS_CardinalityType, LimitAssumption
<1>2. list = IF Cardinality(S) <= ClusterLimit THEN S ELSE CHOOSE T \in SUBSET S : Picked(T)
  BY DEF IncidentClusters, FirstOf, Found
<1>3. \A c \in S : c.kc_depth \in Int /\ c.sources \in Int /\ c.entities \in Int
  BY ClusterNumbers
<1> HIDE DEF S, list
<1>4. CASE Cardinality(S) <= ClusterLimit
  BY <1>1, <1>2, <1>4 DEF S, list
<1>5. CASE ~(Cardinality(S) <= ClusterLimit)
  <2> DEFINE key == [c \in S |-> <<c.kc_depth, c.sources, c.entities>>]
  <2>1. key \in [S -> Int \X Int \X Int]
    BY <1>3
  <2>2. \A x, y \in S : Lex(key[x], key[y]) <=> AboveCluster(y, x)
    BY DEF AboveCluster
  <2>3. IsFiniteSet(S) /\ ClusterLimit \in Nat /\ ClusterLimit <= Cardinality(S)
    BY <1>1, <1>5
  <2> HIDE DEF key
  <2>4. PICK T \in SUBSET S : Cardinality(T) = ClusterLimit /\ \A x \in T, y \in S \ T : ~Lex(key[x], key[y])
    BY <2>1, <2>3, FirstOfThree
  <2>5. Picked(T)
    BY <2>2, <2>4
  <2> HIDE DEF Picked
  <2>7. list \in SUBSET S /\ Picked(list)
    BY <1>2, <1>5, <2>5
  <2>8. IsFiniteSet(list)
    BY <1>1, <2>7, FS_Subset
  <2>9. QED
    BY <1>1, <2>7, <2>8 DEF Picked, S, list
<1>6. QED
  BY <1>4, <1>5

\* What a component is when the table has taken more rows lies in one component.
LEMMA ComponentGrows ==
    ASSUME NEW t \in Seq(Record), NEW u \in Seq(Record), NEW inf,
           Len(t) <= Len(u), \A i \in 1..Len(t) : u[i] = t[i], NEW comp \in Components(t, inf)
    PROVE  \E big \in Components(u, inf) : comp \subseteq big
<1> DEFINE old == Forest(t, inf)
           new == Forest(u, inf)
<1>1. Rows(t) = 1..Len(t) /\ Len(t) \in Nat /\ Rows(u) = 1..Len(u) /\ Len(u) \in Nat
  BY FinitelyLinked
<1>2. /\ old \in ForestOn(Linked(t, inf)) /\ new \in ForestOn(Linked(u, inf))
      /\ \A i \in 1..Len(u) : \A x, y \in ToSet(RecordEntities(u[i], inf)) : Root(new, x) = Root(new, y)
      /\ \A C : Whole(t, inf, C) => Respects(old, C)
  BY ForestIs
<1>3. DOMAIN old = Linked(t, inf) /\ DOMAIN new = Linked(u, inf)
  BY <1>2 DEF ForestOn
<1>4. Linked(t, inf) \subseteq Linked(u, inf)
  <2>1. \A i \in Rows(t) : i \in Rows(u) /\ u[i] = t[i]
    BY <1>1
  <2>2. QED
    BY <2>1 DEF Linked
<1>5. comp # {} /\ \E r : \A e : e \in comp <=> e \in Linked(t, inf) /\ Root(old, e) = r
  BY ComponentsAre
<1>6. PICK x \in comp : x \in Linked(t, inf)
  BY <1>5
<1> DEFINE big == {e \in DOMAIN new : Root(new, e) = Root(new, x)}
<1>7. big \in Components(u, inf)
  BY <1>3, <1>4, <1>6 DEF Components
<1>8. Whole(t, inf, big)
  <2> SUFFICES ASSUME NEW i \in 1..Len(t), NEW y \in ToSet(RecordEntities(t[i], inf)),
                      NEW z \in ToSet(RecordEntities(t[i], inf)), y \in big
               PROVE  z \in big
    BY DEF Whole
  <2>1. i \in 1..Len(u) /\ u[i] = t[i]
    BY <1>1
  <2>2. Root(new, y) = Root(new, z)
    BY <1>2, <2>1
  <2>3. z \in Linked(u, inf)
    BY <1>1, <1>4 DEF Linked
  <2>4. QED
    BY <1>3, <2>2, <2>3
<1>9. Respects(old, big)
  BY <1>2, <1>8
<1>10. x \in big
  BY <1>3, <1>4, <1>6
<1>11. ASSUME NEW y \in comp PROVE y \in big
  <2>1. x \in DOMAIN old /\ y \in DOMAIN old /\ Root(old, x) = Root(old, y)
    BY <1>3, <1>5, <1>6
  <2> HIDE DEF big, old
  <2>2. QED
    BY <1>9, <1>10, <2>1 DEF Respects
<1>12. QED
  BY <1>7, <1>11

\* A cluster lies in a cluster of the table that has taken more rows.
LEMMA ClusterGrows ==
    ASSUME NEW t \in Seq(Record), NEW u \in Seq(Record), NEW inf,
           Len(t) <= Len(u), \A i \in 1..Len(t) : u[i] = t[i], NEW c \in Found(t, inf)
    PROVE  \E d \in Found(u, inf) : c.members \subseteq d.members
<1>1. PICK comp \in Components(t, inf) : c = Cluster(t, inf, comp)
  BY DEF Found
<1>2. PICK big \in Components(u, inf) : comp \subseteq big
  BY ComponentGrows
<1> DEFINE d == Cluster(u, inf, big)
           was == EventsOf(t, inf, comp)
           are == EventsOf(u, inf, big)
<1>3. /\ c.members = comp /\ c.entities = Cardinality(comp) /\ c.sources = Cardinality(FamiliesOf(t, was))
      /\ d.members = big /\ d.entities = Cardinality(big) /\ d.sources = Cardinality(FamiliesOf(u, are))
  BY <1>1 DEF Cluster
<1>4. c.entities >= 2 /\ c.sources >= 2
  BY DEF Found
<1>5. /\ Rows(t) = 1..Len(t) /\ Len(t) \in Nat /\ Rows(u) = 1..Len(u) /\ Len(u) \in Nat
      /\ IsFiniteSet(big) /\ IsFiniteSet(Rows(u))
  BY FinitelyLinked
<1>6. \A i \in was : i \in are /\ u[i] = t[i]
  BY <1>2, <1>5 DEF EventsOf
<1>7. FamiliesOf(t, was) \subseteq FamiliesOf(u, are)
  BY <1>6 DEF FamiliesOf
<1>8. IsFiniteSet(FamiliesOf(u, are))
  <2>1. are \in SUBSET Rows(u)
    BY DEF EventsOf
  <2>2. QED
    BY <1>5, <2>1, FS_Subset, FamiliesFinite
<1> HIDE DEF d, was, are
<1>9. c.entities <= d.entities /\ c.entities \in Nat /\ d.entities \in Nat
  BY <1>2, <1>3, <1>5, FS_Subset, FS_CardinalityType
<1>10. c.sources <= d.sources /\ c.sources \in Nat /\ d.sources \in Nat
  BY <1>3, <1>7, <1>8, FS_Subset, FS_CardinalityType
<1>11. d \in Found(u, inf)
  BY <1>4, <1>9, <1>10 DEF Found, d
<1>12. QED
  BY <1>2, <1>3, <1>11

\* Two clusters of t lie in one of u.
TwoInOne(t, u, inf) ==
    \E c \in IncidentClusters(u, inf) :
        Cardinality({d \in IncidentClusters(t, inf) : d.members \subseteq c.members}) > 1

\* Fewer clusters in the list of a table that has only taken more rows: two of
\* the earlier ones lie in one.  The list was not cut off where it is shorter
\* than an earlier one, so each earlier cluster lies in one of it, and there
\* are more of them.
LEMMA FewerMeansMerged ==
    ASSUME NEW t \in Seq(Record), NEW u \in Seq(Record), NEW inf,
           Len(t) <= Len(u), \A i \in 1..Len(t) : u[i] = t[i],
           Cardinality(IncidentClusters(u, inf)) < Cardinality(IncidentClusters(t, inf))
    PROVE  TwoInOne(t, u, inf)
<1> DEFINE S == IncidentClusters(t, inf)
           T == IncidentClusters(u, inf)
<1>1. /\ S \subseteq Found(t, inf) /\ IsFiniteSet(S) /\ Cardinality(S) \in Nat /\ Cardinality(S) <= ClusterLimit
      /\ IsFiniteSet(T) /\ Cardinality(T) \in Nat
      /\ Cardinality(T) < ClusterLimit => T = Found(u, inf)
  BY ListOfClusters
<1>2. T = Found(u, inf)
  BY <1>1, LimitAssumption
<1> DEFINE into == [d \in S |-> CHOOSE c \in T : d.members \subseteq c.members]
<1>3. \A d \in S : \E c \in T : d.members \subseteq c.members
  BY <1>1, <1>2, ClusterGrows
<1>4. \A d \in S : into[d] \in T /\ d.members \subseteq into[d].members
  BY <1>3
<1>5. into \in [S -> T]
  BY <1>4
<1> HIDE DEF into, S, T
<1>6. Cardinality(T) < Cardinality(S)
  BY DEF S, T
<1>7. PICK a, b \in S : a # b /\ into[a] = into[b]
  BY <1>1, <1>5, <1>6, FS_PigeonHole
<1> DEFINE inside == {d \in S : d.members \subseteq into[a].members}
<1>8. IsFiniteSet(inside) /\ a \in inside /\ b \in inside
  BY <1>1, <1>4, <1>7, FS_Subset
<1>9. Cardinality(inside) > 1
  <2>1. IsFiniteSet({a}) /\ Cardinality({a}) = 1
    BY FS_Singleton
  <2>2. {a} \in SUBSET inside /\ inside # {a}
    BY <1>7, <1>8
  <2> HIDE DEF inside
  <2>3. Cardinality({a}) <= Cardinality(inside) /\ Cardinality({a}) # Cardinality(inside)
        /\ Cardinality(inside) \in Nat
    BY <1>8, <2>2, FS_Subset, FS_CardinalityType
  <2>4. QED
    BY <2>1, <2>3
<1>10. into[a] \in T
  BY <1>4
<1>11. QED
  BY <1>9, <1>10 DEF S, T, TwoInOne

\* A table that begins with another has its rows first.
LEMMA PrefixRows ==
    ASSUME NEW S, NEW s \in Seq(S), NEW t \in Seq(S), IsPrefix(s, t)
    PROVE  Len(s) <= Len(t) /\ \A i \in 1..Len(s) : t[i] = s[i]
<1>1. Len(s) <= Len(t) /\ SubSeq(s, 1, Len(s)) = SubSeq(t, 1, Len(s))
  BY DEF IsPrefix
<1>2. ASSUME NEW i \in 1..Len(s) PROVE t[i] = s[i]
  <2>1. SubSeq(s, 1, Len(s))[i] = s[i] /\ SubSeq(t, 1, Len(s))[i] = t[i]
    BY <1>1
  <2>2. QED
    BY <1>1, <2>1
<1>3. QED
  BY <1>1, <1>2

\* What the digest was taken of is what the table began with.
Began == tbl \in Seq(Record) /\ seen.tbl \in Seq(Record) /\ IsPrefix(seen.tbl, tbl)

LEMMA BeganAlways == Spec => []Began
<1>1. Init => Began
  <2> SUFFICES ASSUME Init PROVE Began
    OBVIOUS
  <2>1. seen.tbl = <<>> /\ tbl = <<>> /\ <<>> \in Seq(Record)
    BY EmptySeq DEF Init
  <2>2. QED
    BY <2>1, PrefixOfItself DEF Began
<1>2. Began /\ [Next]_vars => Began'
  <2> SUFFICES ASSUME Began, [Next]_vars PROVE Began'
    OBVIOUS
  <2>1. ASSUME NEW u \in Uploads, Ingest(u) PROVE Began'
    <3>1. u \in Seq(Record) /\ tbl' = tbl \o u /\ seen' = seen
      BY <2>1, UploadsAssumption DEF Ingest
    <3>2. tbl' \in Seq(Record) /\ IsPrefix(seen.tbl, tbl')
      BY <3>1, ConcatProperties, PrefixGrows DEF Began
    <3>3. QED
      BY <3>1, <3>2 DEF Began
  <2>2. CASE Analyze
    <3>1. tbl' = tbl /\ (seen' = seen \/ seen' = [tbl |-> tbl, infra |-> infra])
      BY <2>2 DEF Analyze
    <3>2. IsPrefix(tbl, tbl)
      BY PrefixOfItself DEF Began
    <3>3. QED
      BY <3>1, <3>2 DEF Began
  <2>3. QED
    BY <2>1, <2>2 DEF Next, Declare, AnalyzeBlind, vars, Began
<1>3. QED
  BY <1>1, <1>2, PTL DEF Spec

\* What delta says of the clusters.
LEMMA DeltaMerges ==
    ASSUME NEW t, NEW inf, NEW before
    PROVE  LET b == IF before = None THEN NoDigest ELSE before
               d == Delta(before, Result(t, inf))
           IN  d.clusters_merged =>
                 Cardinality(IncidentClusters(t, inf)) < b.incident_clusters.clusters
<1>1. Digest(Result(t, inf)).incident_clusters.clusters = Cardinality(IncidentClusters(t, inf))
  BY DEF Digest, Result
<1>2. QED
  BY <1>1 DEF Delta, Merged

\* A step that answers says "merged" only when two clusters of the table seen
\* lie in one of the table.
Merges ==
    told' # told /\ told' # None /\ told'.clusters_merged /\ infra = seen.infra =>
        \E c \in IncidentClusters(tbl, infra) :
            Cardinality({d \in IncidentClusters(seen.tbl, seen.infra) : d.members \subseteq c.members}) > 1

\* Clusters: for every case, however it grew and whatever was declared or lost
\* between two looks at it, an analysis that tells of a merge has merged
\* something (baseline.delta over incident_clusters and the digest).
THEOREM MergesAreMerges == Spec => MergedIsMerged
<1>1. DigestOfSeen /\ Began /\ [Next]_vars => [Merges]_vars
  <2> SUFFICES ASSUME DigestOfSeen, Began, Next,
                      told' # told, told' # None, told'.clusters_merged, infra = seen.infra
               PROVE  \E c \in IncidentClusters(tbl, infra) :
                        Cardinality({d \in IncidentClusters(seen.tbl, seen.infra) :
                                        d.members \subseteq c.members}) > 1
    BY DEF Merges
  <2>1. \A inf : Cardinality(IncidentClusters(tbl, inf)) \in Nat
    BY ListOfClusters DEF Began
  <2>2. NoDigest.incident_clusters.clusters = 0
    BY DEF NoDigest
  <2>3. PICK inf, before : /\ told' = Delta(before, Result(tbl, inf))
                           /\ before = None \/ (before = digest /\ inf = infra)
    BY DEF Next, Ingest, Declare, Analyze, AnalyzeBlind
  <2>4. Cardinality(IncidentClusters(tbl, inf)) <
          (IF before = None THEN NoDigest ELSE before).incident_clusters.clusters
    BY <2>3, DeltaMerges
  <2>5. before # None
    BY <2>1, <2>2, <2>4
  <2>6. digest = Digest(Result(seen.tbl, seen.infra)) /\ before = digest /\ inf = infra
    BY <2>3, <2>5 DEF DigestOfSeen
  <2>7. digest.incident_clusters.clusters = Cardinality(IncidentClusters(seen.tbl, seen.infra))
    BY <2>6 DEF Digest, Result
  <2>8. Cardinality(IncidentClusters(tbl, infra)) < Cardinality(IncidentClusters(seen.tbl, infra))
    BY <2>4, <2>5, <2>6, <2>7
  <2>9. seen.tbl \in Seq(Record) /\ tbl \in Seq(Record) /\ Len(seen.tbl) <= Len(tbl)
        /\ \A i \in 1..Len(seen.tbl) : tbl[i] = seen.tbl[i]
    BY PrefixRows DEF Began
  <2>10. TwoInOne(seen.tbl, tbl, infra)
    BY <2>8, <2>9, FewerMeansMerged
  <2>11. seen.infra = infra
    BY <2>6
  <2>12. TwoInOne(seen.tbl, tbl, seen.infra)
    BY <2>10, <2>11
  <2>13. QED
    BY <2>11, <2>12 DEF TwoInOne
<1>2. QED
  BY DigestInit, DigestStep, BeganAlways, <1>1, PTL DEF Spec, MergedIsMerged, Merges

=============================================================================
