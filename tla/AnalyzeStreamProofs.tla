------------------------- MODULE AnalyzeStreamProofs -------------------------
(***************************************************************************)
(* What a client of POST /api/analyze may rely on, for any number of       *)
(* requests, files and cases: an answer covers the upload it answers, and  *)
(* no failure of the case costs the analyst the records, unless that case  *)
(* was deleted; and nothing counts as known that no delta has named.  The  *)
(* first two rest on ServedOK, which says of a request at each step what   *)
(* the case it goes into already holds, and on Grows: no step takes a file *)
(* away from a case that was never deleted.                                *)
(***************************************************************************)
EXTENDS AnalyzeStream, TLAPS

Deleted(r) == req[r].case \in deleted

\* Persisted in its case, which has not lost a file of it.
Safe(r) ==
    /\ req[r].case # NoCase
    /\ Deleted(r) \/ /\ case[req[r].case].exists
                     /\ FilesIn(req[r].built) \subseteq Kept(req[r].case)

Covered(r) ==
    IF InCase(r) THEN Deleted(r) \/ FilesIn(req[r].built) \subseteq req[r].seen
                 ELSE req[r].seen = FilesIn(req[r].built)

ServedOK(r) ==
    /\ req[r].pc \in {"unused", "sent", "build"} => req[r].built = Nothing /\ ~req[r].error
    /\ req[r].pc \in {"persist", "create", "append"} => InCase(r)
    /\ At(r, "append") => Deleted(r) \/ case[req[r].case].exists
    /\ At(r, "analyze") /\ InCase(r) => Safe(r)
    /\ At(r, "report") => Covered(r)
    /\ req[r].answer # "none" => req[r].pc \in {"answered", "closed"}
    /\ req[r].answer = "complete" => Covered(r)
    /\ req[r].answer = "error" => req[r].built = Nothing \/ Safe(r)

\* A case that is not there holds nothing: creating it hides no file.
NothingHidden == \A c \in CaseId : ~case[c].exists => Kept(c) = {}

StreamInv == TypeOK /\ NothingHidden /\ \A r \in Request : ServedOK(r)

\* No case goes away, and none loses a file, without being deleted.
Grows ==
    /\ deleted \subseteq deleted'
    /\ \A c \in CaseId \ deleted' :
         /\ case[c].exists => case'[c].exists
         /\ Kept(c) \subseteq Kept(c)'

-----------------------------------------------------------------------------
(* Types                                                                    *)

LEMMA ValueTypes ==
    /\ Nothing \in Upload /\ Unused \in Req
    /\ Absent \in Case /\ Empty \in Case
    /\ Upload \subseteq [File -> Nat] /\ NoCase \notin CaseId
<1>1. Nothing \in Upload /\ Nothing \in [File -> Nat]
  BY BoundAssumption DEF Nothing, Upload
<1>2. Unused \in Req
  <2>1. {} \in SUBSET File /\ "unused" \in PC /\ "none" \in {"none", "complete", "error"}
    BY DEF PC
  <2>2. FALSE \in BOOLEAN /\ NoCase \in CaseId \cup {NoCase}
    OBVIOUS
  <2> QED BY <1>1, <2>1, <2>2 DEF Unused, Req
<1>3. Absent \in Case /\ Empty \in Case
  BY <1>1 DEF Absent, Empty, Case
<1>4. Upload \subseteq [File -> Nat]
  BY BoundAssumption DEF Upload
<1>5. NoCase \notin CaseId
  BY BoundAssumption DEF NoCase, CaseId
<1> QED BY <1>1, <1>2, <1>3, <1>4, <1>5

\* Records add up to records.
LEMMA WithType ==
    ASSUME NEW copies \in [File -> Nat], NEW upload \in [File -> Nat]
    PROVE  /\ With(copies, upload) \in [File -> Nat]
           /\ FilesIn(With(copies, upload)) = FilesIn(copies) \cup FilesIn(upload)
BY DEF With, FilesIn

\* The records of some of the files of an upload (AppendFails).
SomeOf(upload, part) == [f \in File |-> IF f \in part THEN upload[f] ELSE 0]

\* A case that took records, all or some of them, is still one, and has
\* lost no file.
LEMMA StoredType ==
    ASSUME NEW c \in Case, NEW r \in Request, TypeOK
    PROVE  /\ StoredIn(c, r) \in Case
           /\ FilesIn(StoredIn(c, r).copies) = FilesIn(c.copies) \cup FilesIn(req[r].built)
           /\ StoredIn(c, r).exists = c.exists
<1>1. req[r].built \in Upload /\ req[r].built \in [File -> Nat] /\ c.copies \in [File -> Nat]
  BY ValueTypes DEF TypeOK, Req, Case
<1>2. /\ With(c.copies, req[r].built) \in [File -> Nat]
      /\ FilesIn(With(c.copies, req[r].built)) = FilesIn(c.copies) \cup FilesIn(req[r].built)
  BY <1>1, WithType
<1> QED BY <1>1, <1>2 DEF StoredIn, Case

LEMMA PartType ==
    ASSUME NEW c \in Case, NEW upload \in Upload, NEW part \in SUBSET File
    PROVE  LET stored == [c EXCEPT !.copies = With(@, SomeOf(upload, part))] IN
           /\ stored \in Case
           /\ FilesIn(c.copies) \subseteq FilesIn(stored.copies)
           /\ stored.exists = c.exists
<1>1. SomeOf(upload, part) \in [File -> Nat]
  BY ValueTypes DEF SomeOf
<1>2. /\ With(c.copies, SomeOf(upload, part)) \in [File -> Nat]
      /\ FilesIn(c.copies) \subseteq FilesIn(With(c.copies, SomeOf(upload, part)))
  BY <1>1, WithType DEF Case
<1> QED BY <1>2 DEF Case

\* What an append, whole or cut short, does to the case.
LEMMA AppendStep ==
    ASSUME TypeOK, NEW r \in Request, Append(r) \/ AppendFails(r), req[r].case \in CaseId
    PROVE  \E new \in Case :
             /\ case' = [case EXCEPT ![req[r].case] = new]
             /\ new.exists = case[req[r].case].exists
             /\ FilesIn(case[req[r].case].copies) \subseteq FilesIn(new.copies)
             /\ Append(r) => FilesIn(req[r].built) \subseteq FilesIn(new.copies)
<1> DEFINE c == req[r].case
<1>1. case[c] \in Case /\ req[r].built \in Upload
  BY DEF TypeOK, Req
<1>2. CASE Append(r)
  BY <1>1, <1>2, StoredType DEF Append
<1>3. CASE AppendFails(r) /\ ~Append(r)
  <2>1. PICK part \in SUBSET File :
          case' = [case EXCEPT ![c].copies = With(@, SomeOf(req[r].built, part))]
    BY <1>3 DEF AppendFails, SomeOf
  <2>2. case' = [case EXCEPT ![c] =
                   [case[c] EXCEPT !.copies = With(@, SomeOf(req[r].built, part))]]
    BY <1>1, <2>1 DEF TypeOK, Case
  <2> QED BY <1>1, <1>3, <2>2, PartType
<1> QED BY <1>2, <1>3

\* A request stays one under the updates its handler makes.
LEMMA ReqTypes ==
    ASSUME NEW q \in Req, NEW pc \in PC
    PROVE  /\ [q EXCEPT !.pc = pc] \in Req
           /\ \A c \in CaseId \cup {NoCase} : [q EXCEPT !.pc = pc, !.case = c] \in Req
           /\ \A built \in Upload : [q EXCEPT !.built = built, !.pc = pc] \in Req
           /\ \A seen \in SUBSET File : [q EXCEPT !.pc = pc, !.seen = seen] \in Req
           /\ \A error \in BOOLEAN : [q EXCEPT !.error = error, !.pc = pc] \in Req
           /\ \A kind \in {"complete", "error"} : [q EXCEPT !.pc = pc, !.answer = kind] \in Req
           /\ [q EXCEPT !.gone = TRUE] \in Req
BY DEF Req

LEMMA PersistedType ==
    ASSUME TypeOK, NEW r \in Request, NEW error \in BOOLEAN, Persisted(r, error)
    PROVE  req' \in [Request -> Req]
<1> DEFINE step == IF req[r].gone THEN "closed" ELSE "analyze"
<1>1. step \in PC
  BY DEF PC
<1>2. [req[r] EXCEPT !.error = error, !.pc = step] \in Req
  BY <1>1, ReqTypes DEF TypeOK
<1>3. req' = [req EXCEPT ![r] = [req[r] EXCEPT !.error = error, !.pc = step]]
  BY DEF Persisted, TypeOK, Req
<1> QED BY <1>2, <1>3 DEF TypeOK

LEMMA GotoType ==
    ASSUME TypeOK, NEW r \in Request, NEW pc \in PC, Goto(r, pc)
    PROVE  req' \in [Request -> Req]
<1>1. [req[r] EXCEPT !.pc = pc] \in Req
  BY ReqTypes DEF TypeOK
<1>2. req' = [req EXCEPT ![r] = [req[r] EXCEPT !.pc = pc]]
  BY DEF Goto, TypeOK, Req
<1> QED BY <1>1, <1>2 DEF TypeOK

LEMMA AnswerType ==
    ASSUME TypeOK, NEW r \in Request, NEW kind \in {"complete", "error"}, Answer(r, kind)
    PROVE  req' \in [Request -> Req]
<1>1. [req[r] EXCEPT !.pc = "answered", !.answer = kind] \in Req
  BY ReqTypes DEF TypeOK, PC
<1>2. req' = [req EXCEPT ![r] = [req[r] EXCEPT !.pc = "answered", !.answer = kind]]
  BY DEF Answer, TypeOK, Req
<1> QED BY <1>1, <1>2 DEF TypeOK

\* Every step keeps the types.
LEMMA TypeStep == TypeOK /\ [Next]_vars => TypeOK'
<1> SUFFICES ASSUME TypeOK, [Next]_vars PROVE TypeOK'
  OBVIOUS
<1> USE ValueTypes
<1>1. ASSUME NEW r \in Request, NEW c \in CaseId \cup {NoCase}, NEW upload \in Upload,
             NEW oneOff \in BOOLEAN, Post(r, c, upload, oneOff)
      PROVE  TypeOK'
  <2>1. [Unused EXCEPT !.pc = "sent", !.asked = c, !.files = upload, !.oneOff = oneOff] \in Req
    BY DEF Req, PC
  <2> QED BY <1>1, <2>1 DEF Post, TypeOK
<1>2. ASSUME NEW r \in Request, Receive(r) PROVE TypeOK'
  <2>1. PICK c \in CaseId \cup {NoCase} : req' = [req EXCEPT ![r] = [@ EXCEPT !.pc = "build", !.case = c]]
    BY <1>2 DEF Receive
  <2>2. [req[r] EXCEPT !.pc = "build", !.case = c] \in Req
    BY ReqTypes DEF TypeOK, PC
  <2>3. req' = [req EXCEPT ![r] = [req[r] EXCEPT !.pc = "build", !.case = c]]
    BY <2>1 DEF TypeOK, Req
  <2> QED BY <1>2, <2>2, <2>3 DEF Receive, TypeOK
<1>3. ASSUME NEW r \in Request, Build(r) PROVE TypeOK'
  <2> DEFINE Parsed(lost) == [f \in File |-> IF f \in lost THEN 0 ELSE req[r].files[f]]
             step == IF InCase(r) THEN "persist" ELSE "analyze"
  <2>1. PICK lost \in SUBSET File :
          req' = [req EXCEPT ![r] = [@ EXCEPT !.built = Parsed(lost), !.pc = step]]
    BY <1>3 DEF Build, FilesIn
  <2>2. req[r].files \in Upload
    BY DEF TypeOK, Req
  <2>3. Parsed(lost) \in Upload
    BY <2>2, BoundAssumption DEF Upload
  <2>4. step \in PC
    BY DEF PC
  <2> HIDE DEF Parsed, step
  <2>5. [req[r] EXCEPT !.built = Parsed(lost), !.pc = step] \in Req
    BY <2>3, <2>4, ReqTypes DEF TypeOK
  <2>6. req' = [req EXCEPT ![r] = [req[r] EXCEPT !.built = Parsed(lost), !.pc = step]]
    BY <2>1 DEF TypeOK, Req
  <2> QED BY <1>3, <2>5, <2>6 DEF Build, TypeOK
<1>4. ASSUME NEW r \in Request, Refuse(r) \/ BuildFails(r) \/ AnalyzeFails(r) PROVE TypeOK'
  <2>1. req' \in [Request -> Req]
    BY <1>4, AnswerType DEF Refuse, BuildFails, AnalyzeFails
  <2> QED BY <1>4, <2>1 DEF Refuse, BuildFails, AnalyzeFails, TypeOK
<1>5. ASSUME NEW r \in Request, Persist(r) \/ Close(r) PROVE TypeOK'
  <2>1. \E pc \in PC : Goto(r, pc)
    BY <1>5 DEF Persist, Close, PC
  <2>2. req' \in [Request -> Req]
    BY <2>1, GotoType
  <2> QED BY <1>5, <2>2 DEF Persist, Close, TypeOK
<1>6. ASSUME NEW r \in Request, Create(r) PROVE TypeOK'
  <2>1. req' \in [Request -> Req]
    BY <1>6, GotoType DEF Create, PC
  <2> QED BY <1>6, <2>1 DEF Create, TypeOK
<1>7. ASSUME NEW r \in Request, CreateRefused(r) \/ AppendRefused(r) PROVE TypeOK'
  <2>1. req' \in [Request -> Req]
    BY <1>7, PersistedType DEF CreateRefused, AppendRefused, Degrade
  <2> QED BY <1>7, <2>1 DEF CreateRefused, AppendRefused, TypeOK
<1>8. ASSUME NEW r \in Request, Append(r) \/ AppendFails(r) PROVE TypeOK'
  <2>1. req' \in [Request -> Req]
    BY <1>8, PersistedType DEF Append, AppendFails, Degrade
  <2>2. CASE req[r].case \in CaseId
    <3>1. case' \in [CaseId -> Case]
      BY <1>8, <2>2, AppendStep DEF TypeOK
    <3> QED BY <1>8, <2>1, <3>1 DEF Append, AppendFails, TypeOK
  <2>3. CASE req[r].case \notin CaseId
    <3>1. case' = case
      <4>1. CASE Append(r)
        BY <2>3, <4>1 DEF Append, TypeOK
      <4>2. CASE AppendFails(r)
        <5>1. PICK part \in SUBSET File :
                case' = [case EXCEPT ![req[r].case].copies =
                           With(@, SomeOf(req[r].built, part))]
          BY <4>2 DEF AppendFails, SomeOf
        <5> QED BY <2>3, <5>1 DEF TypeOK
      <4> QED BY <1>8, <4>1, <4>2
    <3> QED BY <1>8, <2>1, <3>1 DEF Append, AppendFails, TypeOK
  <2> QED BY <2>2, <2>3
<1>9. ASSUME NEW r \in Request, Analyze(r) PROVE TypeOK'
  <2> DEFINE seen == IF InCase(r) THEN Kept(req[r].case) ELSE FilesIn(req[r].built)
  <2>1. seen \in SUBSET File
    BY DEF Kept, FilesIn
  <2> HIDE DEF seen
  <2>2. [req[r] EXCEPT !.pc = "report", !.seen = seen] \in Req
    BY <2>1, ReqTypes DEF TypeOK, PC
  <2>3. req' = [req EXCEPT ![r] = [req[r] EXCEPT !.pc = "report", !.seen = seen]]
    BY <1>9 DEF Analyze, seen, TypeOK, Req
  <2> QED BY <1>9, <2>2, <2>3 DEF Analyze, TypeOK
<1>10. ASSUME NEW r \in Request, Report(r) PROVE TypeOK'
  <2>1. req' \in [Request -> Req]
    BY <1>10, AnswerType DEF Report
  <2>2. req[r].seen \in SUBSET File /\ req[r].case \in CaseId \cup {NoCase}
    BY DEF TypeOK, Req
  <2>3. case' \in [CaseId -> Case]
    <3>1. CASE UNCHANGED case
      BY <3>1 DEF TypeOK
    <3>2. CASE ~UNCHANGED case
      <4> DEFINE c == req[r].case
                 digest == IF case[c].exists THEN req[r].seen ELSE {}
      <4>1. case' = [case EXCEPT ![c].digest = digest]
        BY <1>10, <3>2 DEF Report
      <4>2. digest \in SUBSET File
        BY <2>2
      <4>3. CASE c \in CaseId
        <5> HIDE DEF digest
        <5>1. [case[c] EXCEPT !.digest = digest] \in Case
          BY <4>2, <4>3 DEF TypeOK, Case
        <5>2. case' = [case EXCEPT ![c] = [case[c] EXCEPT !.digest = digest]]
          BY <4>1, <4>3 DEF TypeOK, Case
        <5> QED BY <5>1, <5>2 DEF TypeOK
      <4>4. CASE c \notin CaseId
        BY <3>2, <4>1, <4>4 DEF TypeOK
      <4> QED BY <4>3, <4>4
    <3> QED BY <3>1, <3>2
  <2>4. told' \in [CaseId -> SUBSET File]
    BY <1>10, <2>2 DEF Report, TypeOK
  <2> QED BY <1>10, <2>1, <2>3, <2>4 DEF Report, TypeOK
<1>11. ASSUME NEW r \in Request, Disconnect(r) PROVE TypeOK'
  <2>1. CASE Goto(r, "closed")
    <3>1. req' \in [Request -> Req]
      BY <2>1, GotoType DEF PC
    <3> QED BY <1>11, <3>1 DEF Disconnect, TypeOK
  <2>2. CASE req' = [req EXCEPT ![r].gone = TRUE]
    <3>1. [req[r] EXCEPT !.gone = TRUE] \in Req
      BY ReqTypes DEF TypeOK, PC
    <3>2. req' = [req EXCEPT ![r] = [req[r] EXCEPT !.gone = TRUE]]
      BY <2>2 DEF TypeOK, Req
    <3> QED BY <1>11, <3>1, <3>2 DEF Disconnect, TypeOK
  <2> QED BY <1>11, <2>1, <2>2 DEF Disconnect
<1>12. ASSUME NEW c \in CaseId, Delete(c) PROVE TypeOK'
  BY <1>12 DEF Delete, TypeOK
<1>13. CASE UNCHANGED vars
  BY <1>13 DEF vars, TypeOK
<1> QED
  BY <1>1, <1>2, <1>3, <1>4, <1>5, <1>6, <1>7, <1>8, <1>9, <1>10, <1>11, <1>12, <1>13
  DEF Next, Serve

-----------------------------------------------------------------------------
(* Cases grow, requests are served one by one                               *)

\* A report touches no more of a case than its digest.
LEMMA ReportStep ==
    ASSUME TypeOK, NEW r \in Request, Report(r), NEW c \in CaseId
    PROVE  case'[c].exists = case[c].exists /\ case'[c].copies = case[c].copies
<1>1. CASE UNCHANGED case
  BY <1>1
<1>2. CASE ~UNCHANGED case
  <2> DEFINE digest == IF case[req[r].case].exists THEN req[r].seen ELSE {}
  <2>1. case' = [case EXCEPT ![req[r].case].digest = digest]
    BY <1>2 DEF Report
  <2> HIDE DEF digest
  <2> QED BY <2>1 DEF TypeOK, Case
<1> QED BY <1>1, <1>2

\* No step but its deletion takes a file from a case.
LEMMA NothingLost ==
    ASSUME StreamInv, [Next]_vars
    PROVE  Grows
<1>1. CASE UNCHANGED <<case, deleted>>
  BY <1>1 DEF Grows, Kept, FilesIn
<1>2. ASSUME NEW r \in Request, Create(r) PROVE Grows
  <2>1. req[r].case \in CaseId \cup {NoCase} /\ req[r].case # NoCase
    BY <1>2 DEF StreamInv, TypeOK, Req, ServedOK, InCase, Create, At
  <2>2. case' = [case EXCEPT ![req[r].case] = Empty] /\ Kept(req[r].case) = {}
    BY <1>2, <2>1 DEF Create, StreamInv, NothingHidden
  <2>3. \A c \in CaseId \ {req[r].case} : case'[c] = case[c]
    BY <2>2 DEF StreamInv, TypeOK
  <2>4. case'[req[r].case].exists
    BY <2>1, <2>2 DEF StreamInv, TypeOK, Empty
  <2> QED BY <1>2, <2>2, <2>3, <2>4 DEF Create, Grows, Kept
<1>3. ASSUME NEW r \in Request, Append(r) \/ AppendFails(r) PROVE Grows
  <2>1. req[r].case \in CaseId
    BY <1>3 DEF StreamInv, TypeOK, Req, ServedOK, InCase, Append, AppendFails, At
  <2> QED BY <1>3, <2>1, AppendStep DEF Append, AppendFails, StreamInv, TypeOK, Grows, Kept
<1>4. ASSUME NEW r \in Request, Report(r) PROVE Grows
  <2>1. \A c \in CaseId : case'[c].exists = case[c].exists /\ case'[c].copies = case[c].copies
    BY <1>4, ReportStep DEF StreamInv
  <2> QED BY <1>4, <2>1 DEF Report, Grows, Kept
<1>5. ASSUME NEW c \in CaseId, Delete(c) PROVE Grows
  BY <1>5 DEF Delete, StreamInv, TypeOK, Grows, Kept
<1> QED
  BY <1>1, <1>2, <1>3, <1>4, <1>5
  DEF Next, Serve, vars, Post, Receive, Refuse, Build, BuildFails, Persist, CreateRefused,
      AppendRefused, Analyze, AnalyzeFails, Close, Disconnect, Delete

LEMMA HiddenStep ==
    ASSUME StreamInv, [Next]_vars
    PROVE  NothingHidden'
<1>1. CASE UNCHANGED case
  BY <1>1 DEF StreamInv, NothingHidden, Kept, FilesIn
<1>2. ASSUME NEW r \in Request, Create(r) PROVE NothingHidden'
  BY <1>2 DEF Create, StreamInv, TypeOK, NothingHidden, Kept, Empty
<1>3. ASSUME NEW r \in Request, Append(r) \/ AppendFails(r) PROVE NothingHidden'
  <2>1. req[r].case \in CaseId /\ case[req[r].case].exists
    BY <1>3 DEF StreamInv, TypeOK, Req, ServedOK, InCase, Append, AppendFails, At
  <2> QED BY <1>3, <2>1, AppendStep DEF StreamInv, TypeOK, NothingHidden, Kept
<1>4. ASSUME NEW r \in Request, Report(r) PROVE NothingHidden'
  <2>1. \A c \in CaseId : case'[c].exists = case[c].exists /\ case'[c].copies = case[c].copies
    BY <1>4, ReportStep DEF StreamInv
  <2> QED BY <2>1 DEF StreamInv, NothingHidden, Kept
<1>5. ASSUME NEW c \in CaseId, Delete(c) PROVE NothingHidden'
  BY <1>5 DEF Delete, StreamInv, TypeOK, NothingHidden, Kept, FilesIn, Absent, Nothing
<1> QED
  BY <1>1, <1>2, <1>3, <1>4, <1>5
  DEF Next, Serve, vars, Post, Receive, Refuse, Build, BuildFails, Persist, CreateRefused,
      AppendRefused, Analyze, AnalyzeFails, Close, Disconnect, Delete

\* What a request knows of its case stays true while the case grows.
LEMMA SafeStays ==
    ASSUME TypeOK, Grows, NEW q \in Request,
           req'[q].case = req[q].case, req'[q].built = req[q].built
    PROVE  Safe(q) => Safe(q)'
<1>1. req[q].case \in CaseId \cup {NoCase}
  BY DEF TypeOK, Req
<1>2. FilesIn(req'[q].built) = FilesIn(req[q].built)
  BY DEF FilesIn
<1> QED BY <1>1, <1>2 DEF Safe, Deleted, Grows, Kept

LEMMA CoveredStays ==
    ASSUME Grows, NEW q \in Request, req'[q].case = req[q].case, req'[q].built = req[q].built,
           req'[q].error = req[q].error, req'[q].seen = req[q].seen
    PROVE  InCase(q)' = InCase(q) /\ (Covered(q) => Covered(q)')
<1>1. FilesIn(req'[q].built) = FilesIn(req[q].built)
  BY DEF FilesIn
<1>2. InCase(q)' = InCase(q)
  BY DEF InCase
<1> QED BY <1>1, <1>2 DEF Covered, Deleted, Grows

LEMMA OthersServed ==
    ASSUME StreamInv, Grows, NEW q \in Request, UNCHANGED req[q]
    PROVE  ServedOK(q)'
<1>1. req[q].case \in CaseId \cup {NoCase}
  BY DEF StreamInv, TypeOK, Req
<1>2. Safe(q) => Safe(q)'
  BY SafeStays DEF StreamInv
<1>3. InCase(q)' = InCase(q) /\ (Covered(q) => Covered(q)')
  BY CoveredStays
<1> QED BY <1>1, <1>2, <1>3 DEF StreamInv, ServedOK, At, InCase, Deleted, Grows, Nothing

\* A request that is being served keeps its invariant.
LEMMA ServedStep ==
    ASSUME StreamInv, Grows, NEW r \in Request, Serve(r)
    PROVE  ServedOK(r)'
<1>0. /\ req[r] \in Req /\ DOMAIN req = Request
      /\ req[r].case \in CaseId \cup {NoCase}
      /\ ServedOK(r) /\ TypeOK
  BY DEF StreamInv, TypeOK, Req
<1> USE DEF At, InCase
<1>1. CASE Receive(r)
  BY <1>0, <1>1 DEF Receive, ServedOK, Req, Nothing
<1>2. CASE Refuse(r) \/ BuildFails(r)
  <2>1. req[r].built = Nothing
    BY <1>0, <1>2 DEF Refuse, BuildFails, ServedOK
  <2>2. req'[r].pc = "answered" /\ req'[r].answer = "error" /\ req'[r].built = Nothing
    BY <1>0, <1>2, <2>1 DEF Refuse, BuildFails, Answer, Req
  <2> QED BY <2>2 DEF ServedOK, Nothing
<1>3. CASE Build(r)
  <2> DEFINE Parsed(lost) == [f \in File |-> IF f \in lost THEN 0 ELSE req[r].files[f]]
             step == IF InCase(r) THEN "persist" ELSE "analyze"
  <2>1. PICK lost \in SUBSET File :
          req' = [req EXCEPT ![r] = [@ EXCEPT !.built = Parsed(lost), !.pc = step]]
    BY <1>3 DEF Build, FilesIn
  <2>2. /\ req'[r].pc = step /\ req'[r].case = req[r].case
        /\ req'[r].error = req[r].error /\ req'[r].answer = req[r].answer
    <3> HIDE DEF Parsed, step
    <3> QED BY <1>0, <2>1 DEF Req
  <2>3. req[r].answer = "none"
    BY <1>0, <1>3 DEF Build, ServedOK, Req
  <2> QED BY <1>0, <2>2, <2>3 DEF ServedOK
<1>4. CASE Persist(r)
  BY <1>0, <1>4 DEF Persist, Goto, ServedOK, Req
<1>5. CASE Create(r)
  <2>1. req[r].case \in CaseId
    BY <1>0, <1>5 DEF Create, ServedOK
  <2>2. case'[req[r].case].exists
    BY <1>0, <1>5, <2>1 DEF Create, TypeOK, Empty
  <2> QED BY <1>0, <1>5, <2>2 DEF Create, Goto, ServedOK, Req
<1>6. CASE CreateRefused(r) \/ AppendRefused(r) \/ AppendFails(r)
  <2>1. Persisted(r, TRUE) /\ req[r].pc \in {"create", "append"}
    BY <1>6 DEF CreateRefused, AppendRefused, AppendFails, Degrade
  <2> QED BY <1>0, <2>1 DEF Persisted, ServedOK, Req
<1>7. CASE Append(r)
  <2>1. req[r].case \in CaseId /\ req[r].answer = "none"
    BY <1>0, <1>7 DEF Append, ServedOK, Req
  <2>2. /\ req'[r].pc \in {"analyze", "closed"} /\ req'[r].answer = "none"
        /\ req'[r].case = req[r].case /\ req'[r].built = req[r].built /\ ~req'[r].error
    BY <1>0, <1>7, <2>1 DEF Append, Persisted, Req
  <2>3. Safe(r)'
    <3>1. PICK new \in Case :
            /\ case' = [case EXCEPT ![req[r].case] = new]
            /\ new.exists = case[req[r].case].exists
            /\ FilesIn(req[r].built) \subseteq FilesIn(new.copies)
      BY <1>0, <1>7, <2>1, AppendStep
    <3>2. case'[req[r].case] = new
      BY <1>0, <2>1, <3>1 DEF TypeOK
    <3> QED BY <1>7, <2>1, <2>2, <3>1, <3>2, ValueTypes DEF Append, Safe, Kept, FilesIn
  <2> QED BY <2>2, <2>3 DEF ServedOK
<1>8. CASE Analyze(r)
  <2> DEFINE seen == IF InCase(r) THEN Kept(req[r].case) ELSE FilesIn(req[r].built)
  <2>1. /\ req'[r].pc = "report" /\ req'[r].seen = seen /\ req'[r].case = req[r].case
        /\ req'[r].built = req[r].built /\ req'[r].error = req[r].error
        /\ req'[r].answer = req[r].answer
    <3> HIDE DEF seen
    <3>1. req' = [req EXCEPT ![r] = [@ EXCEPT !.pc = "report", !.seen = seen]]
      BY <1>8 DEF Analyze, seen
    <3> QED BY <1>0, <3>1 DEF Req
  <2>2. InCase(r) => Safe(r)
    BY <1>0, <1>8 DEF Analyze, ServedOK
  <2>3. Covered(r)'
    BY <1>8, <2>1, <2>2 DEF Analyze, Covered, Safe, Deleted, FilesIn
  <2>4. req[r].answer = "none"
    BY <1>0, <1>8 DEF Analyze, ServedOK, Req
  <2> QED BY <2>1, <2>3, <2>4 DEF ServedOK
<1>9. CASE AnalyzeFails(r)
  <2>1. Safe(r) => Safe(r)'
    BY <1>0, <1>9, SafeStays DEF AnalyzeFails, Answer, Req
  <2> QED BY <1>0, <1>9, <2>1 DEF AnalyzeFails, Answer, ServedOK, Req
<1>10. CASE Report(r)
  <2>1. Covered(r) => Covered(r)'
    BY <1>0, <1>10, CoveredStays DEF Report, Answer, Req
  <2> QED BY <1>0, <1>10, <2>1 DEF Report, Answer, ServedOK, Req
<1> QED
  BY <1>1, <1>2, <1>3, <1>4, <1>5, <1>6, <1>7, <1>8, <1>9, <1>10 DEF Serve

-----------------------------------------------------------------------------
(* The invariant and what follows from it                                   *)

LEMMA InitInv == Init => StreamInv
<1> SUFFICES ASSUME Init PROVE StreamInv
  OBVIOUS
<1> USE ValueTypes
<1>1. TypeOK
  BY DEF Init, TypeOK
<1>2. NothingHidden
  BY DEF Init, NothingHidden, Kept, FilesIn, Absent, Empty, Nothing
<1>3. ASSUME NEW r \in Request PROVE ServedOK(r)
  BY DEF Init, ServedOK, Unused, At
<1> QED BY <1>1, <1>2, <1>3 DEF StreamInv

LEMMA InvStep ==
    ASSUME StreamInv, [Next]_vars
    PROVE  StreamInv'
<1>1. Grows
  BY NothingLost
<1>2. TypeOK' /\ NothingHidden'
  BY TypeStep, HiddenStep DEF StreamInv
<1>3. ASSUME NEW q \in Request PROVE ServedOK(q)'
  <2>1. CASE UNCHANGED req[q]
    BY <1>1, <2>1, OthersServed
  <2>2. CASE Serve(q)
    BY <1>1, <2>2, ServedStep
  <2>3. CASE \E c \in CaseId \cup {NoCase}, upload \in Upload, oneOff \in BOOLEAN :
               Post(q, c, upload, oneOff)
    <3>1. /\ req'[q].pc = "sent" /\ req'[q].built = Nothing /\ ~req'[q].error
          /\ req'[q].answer = "none"
      BY <2>3 DEF Post, StreamInv, TypeOK, Unused
    <3> QED BY <3>1 DEF ServedOK, At, Nothing
  <2>4. CASE Close(q) \/ Disconnect(q)
    <3>1. /\ req'[q].case = req[q].case /\ req'[q].built = req[q].built
          /\ req'[q].error = req[q].error /\ req'[q].seen = req[q].seen
          /\ req'[q].answer = req[q].answer
          /\ req'[q].pc \in {req[q].pc, "closed"}
      BY <2>4 DEF Close, Disconnect, Goto, StreamInv, TypeOK, Req
    <3>2. (Safe(q) => Safe(q)') /\ InCase(q)' = InCase(q) /\ (Covered(q) => Covered(q)')
      BY <1>1, <3>1, SafeStays, CoveredStays DEF StreamInv
    <3>3. req[q].case \in CaseId \cup {NoCase} /\ UNCHANGED <<case, deleted>>
      BY <2>4 DEF Close, Disconnect, StreamInv, TypeOK, Req
    <3>4. ServedOK(q)
      BY DEF StreamInv
    <3> QED BY <2>4, <3>1, <3>2, <3>3, <3>4 DEF Close, Disconnect, ServedOK, At, Deleted, Nothing
  <2> QED
    <3>1. ASSUME NEW r \in Request \ {q}, Serve(r) \/ Close(r) \/ Disconnect(r)
                   \/ \E c \in CaseId \cup {NoCase}, upload \in Upload, oneOff \in BOOLEAN :
                        Post(r, c, upload, oneOff)
          PROVE  UNCHANGED req[q]
      BY <3>1 DEF StreamInv, TypeOK, Serve, Receive, Refuse, Build, BuildFails, Persist, Create,
           CreateRefused, Append, AppendRefused, AppendFails, Analyze, AnalyzeFails, Report,
           Close, Disconnect, Post, Goto, Answer, Degrade, Persisted
    <3> QED BY <2>1, <2>2, <2>3, <2>4, <3>1 DEF Next, vars, Delete
<1> QED BY <1>2, <1>3 DEF StreamInv

\* What the invariant says of a complete answer and of an error is what
\* the two properties say.
LEMMA Inv == ASSUME StreamInv PROVE SeesOwn /\ NoEvidenceLost
BY DEF StreamInv, ServedOK, SeesOwn, NoEvidenceLost, Covered, Safe, Deleted, FilesIn, Nothing

\* A complete answer covers its upload, unless the case was deleted:
\* _analyze_stream never reports on less than what it was sent, whatever
\* other requests and failures come between persisting and analyzing.
THEOREM OwnUploadSeen == Spec => []SeesOwn
<1>1. StreamInv /\ [Next]_vars => StreamInv'
  BY InvStep
<1>2. StreamInv => SeesOwn
  BY Inv
<1> QED BY InitInv, <1>1, <1>2, PTL DEF Spec

\* A request whose records were built ends in an error only when its case
\* holds them or was deleted: the degradation path of _analyze_stream loses
\* no evidence.
THEOREM EvidenceKept == Spec => []NoEvidenceLost
<1>1. StreamInv /\ [Next]_vars => StreamInv'
  BY InvStep
<1>2. StreamInv => NoEvidenceLost
  BY Inv
<1> QED BY InitInv, <1>1, <1>2, PTL DEF Spec

\* No step takes a file for known that its delta, or one before, did not name.
LEMMA ToldStep ==
    ASSUME TypeOK, AllTold, [Next]_vars
    PROVE  AllTold'
<1>1. CASE UNCHANGED <<case, told>>
  BY <1>1 DEF AllTold
<1>2. ASSUME NEW r \in Request, Create(r) PROVE AllTold'
  BY <1>2 DEF Create, TypeOK, AllTold, Empty, Absent
<1>3. ASSUME NEW r \in Request, Append(r) PROVE AllTold'
  <2>1. case' = [case EXCEPT ![req[r].case] = StoredIn(case[req[r].case], r)] /\ told' = told
    BY <1>3 DEF Append
  <2>2. \A c \in CaseId : case'[c].digest = case[c].digest
    BY <2>1 DEF TypeOK, Case, StoredIn
  <2> QED BY <2>1, <2>2 DEF AllTold
<1>4. ASSUME NEW r \in Request, AppendFails(r) PROVE AllTold'
  <2>1. PICK part \in SUBSET File :
          case' = [case EXCEPT ![req[r].case].copies =
                     With(@, [f \in File |-> IF f \in part THEN req[r].built[f] ELSE 0])]
    BY <1>4 DEF AppendFails
  <2>2. \A c \in CaseId : case'[c].digest = case[c].digest
    BY <2>1 DEF TypeOK, Case
  <2> QED BY <1>4, <2>2 DEF AppendFails, AllTold
<1>5. ASSUME NEW r \in Request, Report(r), ~UNCHANGED <<case, told>> PROVE AllTold'
  <2> DEFINE d == req[r].case
             digest == IF case[d].exists THEN req[r].seen ELSE {}
  <2>1. told' = [told EXCEPT ![d] = @ \cup (req[r].seen \ case[d].digest)]
    BY <1>5 DEF Report, Prior
  <2>2. case' = [case EXCEPT ![d].digest = digest] \/ case' = case
    BY <1>5 DEF Report
  <2>3. ASSUME NEW c \in CaseId PROVE case'[c].digest \subseteq told'[c]
    <3>1. CASE c # d
      BY <2>1, <2>2, <3>1 DEF TypeOK, AllTold
    <3>2. CASE c = d
      <4>1. told'[c] = told[c] \cup (req[r].seen \ case[c].digest)
        BY <2>1, <3>2 DEF TypeOK
      <4>2. case'[c].digest \in {req[r].seen, {}, case[c].digest}
        BY <2>2, <3>2 DEF TypeOK, Case
      <4> QED BY <4>1, <4>2 DEF AllTold
    <3> QED BY <3>1, <3>2
  <2> QED BY <2>3 DEF AllTold
<1>6. ASSUME NEW c \in CaseId, Delete(c) PROVE AllTold'
  BY <1>6 DEF Delete, TypeOK, AllTold, Absent
<1> QED
  BY <1>1, <1>2, <1>3, <1>4, <1>5, <1>6
  DEF Next, Serve, vars, Post, Receive, Refuse, Build, BuildFails, Persist, CreateRefused,
      AppendRefused, Analyze, AnalyzeFails, Close, Disconnect

\* The requests, the cases and the histories keep their types, whatever
\* fails and whoever leaves.
THEOREM StreamTyped == Spec => []TypeOK
<1>1. Init => TypeOK
  BY InitInv DEF StreamInv
<1> QED BY <1>1, TypeStep, PTL DEF Spec

\* What a delta takes for known, one before it has named as new: no order in
\* which requests load the digest and save theirs keeps a finding from the
\* analyst (load_analysis_digest, delta, save_analysis_digest).
THEOREM AlwaysTold == Spec => []AllTold
<1>1. Init => TypeOK /\ AllTold
  BY InitInv DEF StreamInv, Init, AllTold, Empty, Absent
<1>2. TypeOK /\ AllTold /\ [Next]_vars => TypeOK' /\ AllTold'
  BY TypeStep, ToldStep
<1> QED BY <1>1, <1>2, PTL DEF Spec

=============================================================================
