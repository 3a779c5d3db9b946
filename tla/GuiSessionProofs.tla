--------------------------- MODULE GuiSessionProofs ---------------------------
(***************************************************************************)
(* The browser and the server together: whatever the analyst does in any   *)
(* number of tabs, the server sees a client of AnalyzeStream, so that all  *)
(* that is proved of AnalyzeStream for arbitrary clients holds of the two. *)
(* And for an analyst who waits, the files a session skips are in its      *)
(* case: HereInv joins what the server has done with a request (SentOK) to *)
(* the tab that waits for it (AwaitedOK).  For one who waits in one tab,   *)
(* turns from case to case and deletes some, ApartInv follows whose        *)
(* uploads the cases hold, and OnceInv which files.                        *)
(***************************************************************************)
EXTENDS GuiSession, AnalyzeStreamProofs

GuiTypes == TypeOK /\ SessionTypeOK

LEMMA SessionTypes ==
    /\ Fresh \in Session
    /\ \A s \in Session, new \in SUBSET File, oneOff \in BOOLEAN :
         Picked(s.files, new) \in Upload =>
           (IF oneOff THEN Picked(s.files, new) ELSE PendingFiles(Picked(s.files, new), s.ingested)) \in Upload
<1>1. Fresh \in Session
  BY ValueTypes, SessionAssumption DEF Fresh, Session, NoCase
<1>2. \A files \in Upload, ingested \in SUBSET File : PendingFiles(files, ingested) \in Upload
  BY BoundAssumption DEF PendingFiles, Upload
<1> QED BY <1>1, <1>2 DEF Session

\* A click on Analyze that sends something sends a request the server's
\* model allows: a case the tab knows, or none for a one-off look, and files
\* the tab holds.
LEMMA ClickIsPost ==
    ASSUME GuiTypes, NEW t \in Tab, NEW new \in SUBSET File, NEW oneOff \in BOOLEAN,
           Analyse(t, new, oneOff)
    PROVE  /\ SessionTypeOK'
           /\ \/ UNCHANGED vars
              \/ \E r \in Request, c \in CaseId \cup {NoCase}, upload \in Upload :
                   (oneOff => c = NoCase) /\ Post(r, c, upload, oneOff)
<1> DEFINE files  == Picked(session[t].files, new)
           upload == IF oneOff THEN files ELSE PendingFiles(files, session[t].ingested)
           asked  == IF oneOff THEN NoCase ELSE session[t].caseId
<1>1. session[t] \in Session
  BY DEF GuiTypes, SessionTypeOK
<1>2. files \in Upload /\ session' = [session EXCEPT ![t].files = files]
  BY DEF Analyse
<1>3. upload \in Upload
  BY <1>1, <1>2, SessionTypes
<1>4. asked \in CaseId \cup {NoCase} /\ (oneOff => asked = NoCase)
  BY <1>1 DEF Session
<1>5. session' \in [Tab -> Session]
  <2> HIDE DEF files
  <2>1. [session[t] EXCEPT !.files = files] \in Session
    BY <1>1, <1>2 DEF Session
  <2>2. session' = [session EXCEPT ![t] = [session[t] EXCEPT !.files = files]]
    BY <1>2 DEF GuiTypes, SessionTypeOK, Session
  <2> QED BY <2>1, <2>2 DEF GuiTypes, SessionTypeOK
<1>h. held' = held
  BY DEF Analyse
<1>6. CASE UNCHANGED <<vars, click>>
  BY <1>5, <1>6, <1>h DEF GuiTypes, SessionTypeOK
<1>7. CASE \E r \in Request :
             /\ Post(r, asked, upload, oneOff)
             /\ click' = [click EXCEPT ![r] =
                  [tab |-> t, inv |-> session[t].inv, own |-> session[t].own]]
  <2> HIDE DEF upload, asked, files
  <2>1. [tab |-> t, inv |-> session[t].inv, own |-> session[t].own] \in Click
    BY <1>1 DEF Session, Click
  <2>2. click' \in [Request -> Click]
    BY <1>7, <2>1 DEF GuiTypes, SessionTypeOK
  <2>3. SessionTypeOK'
    BY <1>5, <1>h, <2>2 DEF GuiTypes, SessionTypeOK
  <2> QED BY <1>3, <1>4, <1>7, <2>3
<1> QED BY <1>6, <1>7 DEF Analyse

\* What else the analyst does: the server sees at most a case deleted.
LEMMA OtherDeeds ==
    ASSUME GuiTypes, NEW t \in Tab,
           \/ StartNewCase(t) \/ ResetSession(t)
           \/ \E c \in CaseId : OpenCase(t, c) \/ SwitchCase(t, c) \/ DeleteCase(t, c)
    PROVE  SessionTypeOK' /\ (UNCHANGED vars \/ \E c \in CaseId : Delete(c))
<1> DEFINE s == session[t]
<1>0. s \in Session /\ click' = click
  BY DEF GuiTypes, SessionTypeOK, StartNewCase, ResetSession, OpenCase, SwitchCase, DeleteCase
<1>h. held' \in [CaseId -> [File -> Nat]]
  <2> DEFINE now == [c \in CaseId |-> case[c].copies]
  <2>1. held \in [CaseId -> [File -> Nat]] /\ now \in [CaseId -> [File -> Nat]] /\ Nothing \in [File -> Nat]
    BY ValueTypes DEF GuiTypes, TypeOK, SessionTypeOK, Case
  <2>2. \/ held' = held \/ held' = now
        \/ \E c \in CaseId : held' = [held EXCEPT ![c] = Nothing]
    BY DEF StartNewCase, ResetSession, OpenCase, SwitchCase, DeleteCase, Forget
  <2> HIDE DEF now
  <2> QED BY <2>1, <2>2
<1>1. ASSUME NEW new \in Session, session' = [session EXCEPT ![t] = new]
      PROVE  SessionTypeOK'
  BY <1>0, <1>1, <1>h DEF GuiTypes, SessionTypeOK
<1>2. s.inv < MaxInv => s.inv + 1 \in 1..MaxInv
  BY <1>0, SessionAssumption DEF Session
<1>3. CASE StartNewCase(t)
  <2>1. [s EXCEPT !.caseId = NoCase, !.inv = @ + 1, !.own = TRUE] \in Session
    BY <1>0, <1>2, <1>3 DEF StartNewCase, Turns, Session
  <2> QED BY <1>1, <1>3, <2>1 DEF StartNewCase
<1>4. CASE ResetSession(t)
  <2>1. [Fresh EXCEPT !.inv = s.inv + 1] \in Session
    BY <1>2, <1>4, SessionTypes DEF ResetSession, Turns, Session, Fresh
  <2> QED BY <1>1, <1>4, <2>1 DEF ResetSession
<1>5. ASSUME NEW c \in CaseId, OpenCase(t, c) PROVE SessionTypeOK' /\ UNCHANGED vars
  <2>1. [s EXCEPT !.ingested = IF s.caseId = c THEN @ ELSE {}, !.caseId = c, !.own = FALSE] \in Session
    BY <1>0 DEF Session
  <2> QED BY <1>1, <1>5, <2>1 DEF OpenCase
<1>6. ASSUME NEW c \in CaseId, SwitchCase(t, c) PROVE SessionTypeOK' /\ UNCHANGED vars
  <2>1. [s EXCEPT !.caseId = c, !.own = FALSE] \in Session
    BY <1>0 DEF Session
  <2>2. session' = [session EXCEPT ![t] = [s EXCEPT !.caseId = c, !.own = FALSE]]
    BY <1>6 DEF SwitchCase, GuiTypes, SessionTypeOK, Session
  <2> QED BY <1>1, <1>6, <2>1, <2>2 DEF SwitchCase
<1>7. ASSUME NEW c \in CaseId, DeleteCase(t, c) PROVE SessionTypeOK' /\ Delete(c)
  <2>1. CASE s.caseId = c
    <3>1. [s EXCEPT !.caseId = NoCase, !.inv = @ + 1, !.own = TRUE] \in Session
      BY <1>0, <1>2, <1>7, <2>1 DEF DeleteCase, Session
    <3> QED BY <1>1, <1>7, <2>1, <3>1 DEF DeleteCase
  <2>2. CASE s.caseId # c
    BY <1>0, <1>h, <1>7, <2>2 DEF DeleteCase, GuiTypes, SessionTypeOK
  <2> QED BY <2>1, <2>2
<1> QED BY <1>3, <1>4, <1>5, <1>6, <1>7 DEF StartNewCase, ResetSession

\* A request at work, and its answer read.
LEMMA WorkStep ==
    ASSUME GuiTypes, NEW r \in Request, Works(r)
    PROVE  SessionTypeOK' /\ (Serve(r) \/ Close(r) \/ Disconnect(r))
<1>1. CASE UNCHANGED guiVars
  BY <1>1 DEF Works, ReadResult, NoResult, guiVars, GuiTypes, SessionTypeOK
<1>2. CASE ReadResult(r)
  <2> DEFINE t == click[r].tab
             s == session[t]
             new == [s EXCEPT !.caseId = Adopted(t, r), !.ingested = @ \cup Landed(r)]
  <2>1. t \in Tab /\ s \in Session
    BY DEF GuiTypes, SessionTypeOK, Click
  <2>2. Adopted(t, r) \in CaseId \cup {NoCase} /\ Landed(r) \in SUBSET File
    BY <2>1 DEF Adopted, Landed, FilesIn, Session, GuiTypes, TypeOK, Req
  <2>3. new \in Session
    BY <2>1, <2>2 DEF Session
  <2>4. session' = [session EXCEPT ![t] = new] /\ click' = click /\ held' = held
    BY <1>2 DEF ReadResult
  <2> HIDE DEF new
  <2>5. SessionTypeOK'
    BY <2>1, <2>3, <2>4 DEF GuiTypes, SessionTypeOK
  <2> QED BY <1>2, <2>5 DEF ReadResult
<1> QED BY <1>1, <1>2 DEF Works, ReadResult, NoResult

LEMMA GuiStep ==
    ASSUME GuiTypes, [GuiNext]_allVars
    PROVE  GuiTypes' /\ [Next]_vars
<1>1. SessionTypeOK' /\ [Next]_vars
  <2>1. CASE UNCHANGED allVars
    BY <2>1 DEF allVars, guiVars, GuiTypes, SessionTypeOK
  <2>2. ASSUME NEW t \in Tab, Acts(t) PROVE SessionTypeOK' /\ [Next]_vars
    <3>1. ASSUME NEW new \in SUBSET File, NEW oneOff \in BOOLEAN, Analyse(t, new, oneOff)
          PROVE  SessionTypeOK' /\ [Next]_vars
      BY <3>1, ClickIsPost DEF Next
    <3>2. ASSUME \/ StartNewCase(t) \/ ResetSession(t)
                 \/ \E c \in CaseId : OpenCase(t, c) \/ SwitchCase(t, c) \/ DeleteCase(t, c)
          PROVE  SessionTypeOK' /\ [Next]_vars
      BY <3>2, OtherDeeds DEF Next
    <3> QED BY <2>2, <3>1, <3>2 DEF Acts
  <2>3. ASSUME NEW r \in Request, Works(r) PROVE SessionTypeOK' /\ [Next]_vars
    BY <2>3, WorkStep DEF Next
  <2> QED BY <2>1, <2>2, <2>3 DEF GuiNext
<1> QED BY <1>1, TypeStep DEF GuiTypes

LEMMA GuiInitTypes == GuiInit => GuiTypes
<1> SUFFICES ASSUME GuiInit PROVE GuiTypes
  OBVIOUS
<1>1. TypeOK
  BY InitInv DEF GuiInit, StreamInv
<1>2. session \in [Tab -> Session]
  BY SessionTypes DEF GuiInit
<1>3. \A t \in Tab : [tab |-> t, inv |-> 1, own |-> TRUE] \in Click
  BY SessionAssumption DEF Click
<1>4. click \in [Request -> Click]
  BY <1>3 DEF GuiInit
<1>5. held \in [CaseId -> [File -> Nat]]
  BY ValueTypes DEF GuiInit
<1> QED BY <1>1, <1>2, <1>4, <1>5 DEF GuiTypes, SessionTypeOK

-----------------------------------------------------------------------------
(* What the session skips is in its case                                    *)

\* An analyst who waits for answers, and neither starts a new case in a
\* session nor continues another; evidence that parses; no deletions.
Careful ==
    /\ Does \cap {"new case", "switch", "overlap", "turn away"} = {}
    /\ Unreadable = {} /\ Deletes = FALSE

\* The tab that sent r waits for it.
Live(r) == ~req[r].gone /\ req[r].pc \notin {"unused", "closed"}

Past(r) == req[r].pc \in {"analyze", "report"} \/ req[r].answer = "complete"

\* What is known of a request, whoever sent it: a client that is gone reads
\* no answer, the case is the one asked for, and past the append it holds
\* every file sent.
SentOK(r) ==
    /\ req[r].gone => req[r].pc \in {"persist", "create", "append", "closed"}
    /\ req[r].pc # "unused" /\ req[r].oneOff => req[r].asked = NoCase
    /\ req[r].pc \notin {"unused", "sent"} =>
         IF req[r].asked # NoCase THEN req[r].case = req[r].asked
                                  ELSE req[r].oneOff => req[r].case = NoCase
    /\ req[r].pc \in {"persist", "create", "append"} \/ Past(r) =>
         FilesIn(req[r].files) = FilesIn(req[r].built)
    /\ req[r].pc \in {"unused", "sent", "build"} => req[r].answer = "none"
    /\ Past(r) /\ InCase(r) => FilesIn(req[r].built) \subseteq Kept(req[r].case)

\* What it means for the tab that waits for it.
AwaitedOK(r) ==
    /\ Live(r) /\ ~req[r].oneOff => req[r].asked = session[click[r].tab].caseId
    /\ \A q \in Request : Live(q) /\ Live(r) /\ click[q].tab = click[r].tab => q = r

HereOK(t) ==
    /\ session[t].caseId = NoCase => session[t].ingested = {}
    /\ session[t].caseId # NoCase => session[t].ingested \subseteq Kept(session[t].caseId)

HereInv ==
    /\ GuiTypes /\ StreamInv /\ deleted = {}
    /\ \A r \in Request : SentOK(r) /\ AwaitedOK(r)
    /\ \A t \in Tab : HereOK(t)

\* Without deletions every case keeps its files.
LEMMA KeptGrows ==
    ASSUME StreamInv, Careful, deleted = {}, [Next]_vars
    PROVE  deleted' = {} /\ \A c \in CaseId : Kept(c) \subseteq Kept(c)'
<1>1. deleted' = {}
  BY DEF Careful, Next, Serve, vars, Post, Receive, Refuse, Build, BuildFails, Persist, Create,
     CreateRefused, Append, AppendRefused, AppendFails, Analyze, AnalyzeFails, Report, Close,
     Disconnect, Delete
<1> QED BY <1>1, NothingLost DEF Grows

\* A request nobody touches keeps what is known of it.
LEMMA OthersSent ==
    ASSUME StreamInv, Careful, deleted = {}, [Next]_vars, NEW q \in Request, SentOK(q),
           UNCHANGED req[q]
    PROVE  SentOK(q)'
<1>1. req[q].case \in CaseId \cup {NoCase}
  BY DEF StreamInv, TypeOK, Req
<1>2. Past(q)' = Past(q) /\ InCase(q)' = InCase(q)
  BY DEF Past, InCase
<1> QED BY <1>1, <1>2, KeptGrows DEF SentOK, InCase

LEMMA ServeSent ==
    ASSUME StreamInv, Careful, deleted = {}, NEW r \in Request, SentOK(r), Serve(r)
    PROVE  /\ SentOK(r)'
           /\ req'[r].asked = req[r].asked /\ req'[r].oneOff = req[r].oneOff
           /\ Live(r)' => Live(r)
<1>0. /\ req[r] \in Req /\ DOMAIN req = Request
      /\ req[r].case \in CaseId \cup {NoCase} /\ ServedOK(r)
  BY DEF StreamInv, TypeOK, Req
<1>k. [Next]_vars
  BY DEF Next
<1>g. \A c \in CaseId : Kept(c) \subseteq Kept(c)'
  BY <1>k, KeptGrows
<1>s. StreamInv' /\ ServedOK(r)'
  BY <1>k, InvStep DEF StreamInv
<1>d. deleted' = {}
  BY <1>k, KeptGrows
<1> USE DEF At, InCase, Past, Live
<1>1. CASE Receive(r)
  BY <1>0, <1>1 DEF Receive, SentOK, Req
<1>2. CASE Refuse(r) \/ BuildFails(r)
  <2>1. /\ req'[r].pc = "answered" /\ req'[r].answer = "error" /\ req'[r].asked = req[r].asked
        /\ req'[r].oneOff = req[r].oneOff /\ req'[r].gone = req[r].gone /\ req'[r].case = req[r].case
        /\ req[r].pc = "build"
    <3>1. Answer(r, "error") /\ req[r].pc = "build"
      BY <1>2 DEF Refuse, BuildFails
    <3> QED BY <1>0, <3>1 DEF Answer, Req
  <2> QED BY <2>1 DEF SentOK
<1>3. CASE Build(r)
  <2> DEFINE step == IF InCase(r) THEN "persist" ELSE "analyze"
             built == [f \in File |-> IF f \in {} THEN 0 ELSE req[r].files[f]]
  <2>1. req' = [req EXCEPT ![r] = [@ EXCEPT !.built = built, !.pc = step]] /\ UNCHANGED case
    BY <1>3 DEF Build, Careful
  <2>2. FilesIn(built) = FilesIn(req[r].files)
    BY DEF FilesIn
  <2> HIDE DEF built
  <2>3. /\ req'[r].pc = step /\ req'[r].built = built /\ req'[r].files = req[r].files
        /\ req'[r].asked = req[r].asked /\ req'[r].oneOff = req[r].oneOff
        /\ req'[r].gone = req[r].gone /\ req'[r].case = req[r].case /\ req'[r].error = req[r].error
        /\ req'[r].answer = req[r].answer /\ req[r].pc = "build"
    <3> HIDE DEF step
    <3> QED BY <1>0, <1>3, <2>1 DEF Req, Build
  <2>4. FilesIn(req'[r].files) = FilesIn(req'[r].built)
    BY <2>2, <2>3
  <2> QED BY <2>3, <2>4 DEF SentOK
<1>4. CASE Persist(r) \/ Create(r)
  <2>1. /\ req'[r].pc \in {"create", "append"} /\ req'[r].built = req[r].built
        /\ req'[r].files = req[r].files /\ req'[r].answer = req[r].answer
        /\ req'[r].asked = req[r].asked /\ req'[r].oneOff = req[r].oneOff
        /\ req'[r].gone = req[r].gone /\ req'[r].case = req[r].case /\ req'[r].error = req[r].error
        /\ req[r].pc \in {"persist", "create"}
    BY <1>0, <1>4 DEF Persist, Create, Goto, Req
  <2>2. req[r].answer # "complete"
    BY <1>0, <2>1 DEF ServedOK
  <2> QED BY <2>1, <2>2 DEF SentOK, FilesIn
<1>5. CASE CreateRefused(r) \/ AppendRefused(r) \/ AppendFails(r) \/ Append(r)
  <2>1. /\ req'[r].pc = (IF req[r].gone THEN "closed" ELSE "analyze") /\ req'[r].built = req[r].built
        /\ req'[r].files = req[r].files /\ req'[r].answer = req[r].answer
        /\ req'[r].asked = req[r].asked /\ req'[r].oneOff = req[r].oneOff
        /\ req'[r].gone = req[r].gone /\ req'[r].case = req[r].case
        /\ req[r].pc \in {"create", "append"}
    <3>1. PICK error \in BOOLEAN : Persisted(r, error)
      BY <1>5 DEF CreateRefused, AppendRefused, AppendFails, Append, Degrade
    <3> QED BY <1>0, <1>5, <3>1 DEF Persisted, Req, CreateRefused, AppendRefused, AppendFails, Append
  <2>2. req[r].answer # "complete"
    BY <1>0, <2>1 DEF ServedOK
  <2>3. (Past(r) /\ InCase(r) => FilesIn(req[r].built) \subseteq Kept(req[r].case))'
    BY <1>s, <1>d, <2>1, <2>2 DEF ServedOK, Safe, Deleted
  <2> QED BY <2>1, <2>2, <2>3 DEF SentOK, FilesIn
<1>6. CASE Analyze(r) \/ Report(r)
  <2>1. /\ req'[r].built = req[r].built /\ req'[r].files = req[r].files
        /\ req'[r].asked = req[r].asked /\ req'[r].oneOff = req[r].oneOff
        /\ req'[r].gone = req[r].gone /\ req'[r].case = req[r].case /\ req'[r].error = req[r].error
        /\ req'[r].pc \in {"report", "answered"} /\ req[r].pc \in {"analyze", "report"}
    <3>1. CASE Analyze(r)
      <4>1. PICK seen : req' = [req EXCEPT ![r] = [@ EXCEPT !.pc = "report", !.seen = seen]]
        BY <3>1 DEF Analyze
      <4> QED BY <1>0, <3>1, <4>1 DEF Analyze, Req
    <3>2. CASE Report(r)
      BY <1>0, <3>2 DEF Report, Answer, Req
    <3> QED BY <1>6, <3>1, <3>2
  <2> QED BY <1>0, <1>g, <2>1 DEF SentOK, FilesIn
<1>7. CASE AnalyzeFails(r)
  <2>1. /\ req'[r].pc = "answered" /\ req'[r].answer = "error" /\ req'[r].asked = req[r].asked
        /\ req'[r].oneOff = req[r].oneOff /\ req'[r].gone = req[r].gone /\ req'[r].case = req[r].case
        /\ req[r].pc = "analyze"
    BY <1>0, <1>7 DEF AnalyzeFails, Answer, Req
  <2> QED BY <2>1 DEF SentOK
<1> QED
  BY <1>1, <1>2, <1>3, <1>4, <1>5, <1>6, <1>7 DEF Serve

\* A client that posts, reads its answer or leaves.
LEMMA ClientSent ==
    ASSUME StreamInv, Careful, deleted = {}, NEW r \in Request, SentOK(r),
           \/ \E c \in CaseId \cup {NoCase}, upload \in Upload, oneOff \in BOOLEAN :
                (oneOff => c = NoCase) /\ Post(r, c, upload, oneOff)
           \/ Close(r) \/ Disconnect(r)
    PROVE  SentOK(r)'
<1>0. /\ req[r] \in Req /\ DOMAIN req = Request
      /\ req[r].case \in CaseId \cup {NoCase} /\ ServedOK(r)
  BY DEF StreamInv, TypeOK, Req
<1> USE DEF At, InCase, Past
<1>1. ASSUME NEW c \in CaseId \cup {NoCase}, NEW upload \in Upload, NEW oneOff \in BOOLEAN,
             oneOff => c = NoCase, Post(r, c, upload, oneOff)
      PROVE  SentOK(r)'
  <2>1. /\ req'[r].pc = "sent" /\ req'[r].asked = c /\ req'[r].oneOff = oneOff
        /\ req'[r].answer = "none" /\ ~req'[r].gone
    BY <1>0, <1>1 DEF Post, Unused
  <2> QED BY <1>1, <2>1 DEF SentOK
<1>2. CASE Close(r) \/ Disconnect(r)
  <2>1. /\ req'[r].built = req[r].built /\ req'[r].files = req[r].files
        /\ req'[r].asked = req[r].asked /\ req'[r].oneOff = req[r].oneOff
        /\ req'[r].case = req[r].case /\ req'[r].error = req[r].error
        /\ req'[r].answer = req[r].answer
        /\ \/ req'[r].pc = "closed" /\ req'[r].gone = req[r].gone
                /\ req[r].pc \in {"answered", "build", "analyze"}
           \/ req'[r].pc = req[r].pc /\ req[r].pc \in {"persist", "create", "append"}
    BY <1>0, <1>2 DEF Close, Disconnect, Goto, Req
  <2>2. UNCHANGED case
    BY <1>2 DEF Close, Disconnect
  <2> QED BY <1>0, <2>1, <2>2 DEF SentOK, ServedOK, Kept, FilesIn
<1> QED BY <1>1, <1>2

\* Everything that is known of the requests stays true, whoever acts.
LEMMA SentStep ==
    ASSUME StreamInv, Careful, deleted = {}, \A q \in Request : SentOK(q), [Next]_vars
    PROVE  \A q \in Request : SentOK(q)'
<1> SUFFICES ASSUME NEW q \in Request PROVE SentOK(q)'
  OBVIOUS
<1>1. CASE UNCHANGED req[q]
  BY <1>1, OthersSent
<1>2. CASE Serve(q)
  BY <1>2, ServeSent
<1>3. CASE \/ \E c \in CaseId \cup {NoCase}, upload \in Upload, oneOff \in BOOLEAN :
                (oneOff => c = NoCase) /\ Post(q, c, upload, oneOff)
           \/ Close(q) \/ Disconnect(q)
  BY <1>3, ClientSent
<1> QED
  <2>1. ASSUME NEW r \in Request \ {q}, Serve(r) \/ Close(r) \/ Disconnect(r)
                 \/ \E c \in CaseId \cup {NoCase}, upload \in Upload, oneOff \in BOOLEAN :
                      Post(r, c, upload, oneOff)
        PROVE  UNCHANGED req[q]
    BY <2>1 DEF StreamInv, TypeOK, Serve, Receive, Refuse, Build, BuildFails, Persist, Create,
         CreateRefused, Append, AppendRefused, AppendFails, Analyze, AnalyzeFails, Report,
         Close, Disconnect, Post, Goto, Answer, Degrade, Persisted
  <2> QED BY <1>1, <1>2, <1>3, <2>1 DEF Next, vars, Delete

\* A request sent before, of which its tab learns nothing new.
LEMMA AwaitedStays ==
    ASSUME HereInv, click' = click, NEW r \in Request,
           \A q \in Request : /\ Live(q)' => Live(q)
                              /\ req'[q].asked = req[q].asked /\ req'[q].oneOff = req[q].oneOff,
           Live(r)' => session'[click[r].tab].caseId = session[click[r].tab].caseId
    PROVE  AwaitedOK(r)'
BY DEF HereInv, AwaitedOK

\* While the server works, or an answer without a result is closed, the tab
\* stands still.
LEMMA HereServe ==
    ASSUME Careful, HereInv, [Next]_vars, NEW r \in Request,
           Serve(r) \/ Disconnect(r) \/ Close(r), UNCHANGED guiVars
    PROVE  (\A q \in Request : AwaitedOK(q)') /\ (\A t \in Tab : HereOK(t)')
<1>1. \A c \in CaseId : Kept(c) \subseteq Kept(c)'
  BY KeptGrows DEF HereInv
<1>2. ASSUME NEW t \in Tab PROVE HereOK(t)'
  <2>1. session[t].caseId \in CaseId \cup {NoCase}
    BY DEF HereInv, GuiTypes, SessionTypeOK, Session
  <2> QED BY <1>1, <2>1 DEF HereInv, HereOK, guiVars
<1>3. \A q \in Request : /\ Live(q)' => Live(q)
                         /\ req'[q].asked = req[q].asked /\ req'[q].oneOff = req[q].oneOff
  <2>1. CASE Serve(r)
    <3>1. \A q \in Request \ {r} : req'[q] = req[q]
      BY <2>1 DEF HereInv, StreamInv, TypeOK, Serve, Receive, Refuse, Build, BuildFails, Persist,
         Create, CreateRefused, Append, AppendRefused, AppendFails, Analyze, AnalyzeFails, Report,
         Goto, Answer, Degrade, Persisted
    <3> QED BY <2>1, <3>1, ServeSent DEF HereInv, Live
  <2>2. CASE Disconnect(r) \/ Close(r)
    BY <2>2 DEF HereInv, StreamInv, TypeOK, Req, Disconnect, Close, Goto, Live, At
  <2> QED BY <2>1, <2>2
<1>4. \A q \in Request : AwaitedOK(q)'
  BY <1>3, AwaitedStays DEF guiVars
<1> QED BY <1>2, <1>4

\* A click on Analyze: no other request of the tab is awaited.
LEMMA HereClick ==
    ASSUME Careful, HereInv, [Next]_vars, GuiTypes', NEW t \in Tab, NEW new \in SUBSET File,
           NEW oneOff \in BOOLEAN, Analyse(t, new, oneOff)
    PROVE  (\A q \in Request : AwaitedOK(q)') /\ (\A v \in Tab : HereOK(v)')
<1> DEFINE files == Picked(session[t].files, new)
           asked == IF oneOff THEN NoCase ELSE session[t].caseId
<1>0. session' = [session EXCEPT ![t].files = files] /\ ~Busy(t)
  BY DEF Analyse, MayAnalyse, Careful
<1>1. \A v \in Tab : session'[v].caseId = session[v].caseId /\ session'[v].ingested = session[v].ingested
  <2> HIDE DEF files
  <2> QED BY <1>0 DEF HereInv, GuiTypes, SessionTypeOK, Session
<1>2. UNCHANGED case
  BY DEF Analyse, Post, vars
<1>3. \A v \in Tab : HereOK(v)'
  BY <1>1, <1>2 DEF HereInv, HereOK, Kept, FilesIn
<1>4. CASE UNCHANGED <<vars, click>>
  <2>1. \A q \in Request : Live(q)' = Live(q)
    BY <1>4 DEF Live, vars
  <2>2. \A q \in Request : click[q].tab \in Tab
    BY DEF HereInv, GuiTypes, SessionTypeOK, Click
  <2>3. \A q \in Request : AwaitedOK(q)'
    BY <1>1, <1>4, <2>1, <2>2, AwaitedStays DEF vars
  <2> QED BY <1>3, <2>3
<1>5. ASSUME NEW r \in Request, NEW upload, Post(r, asked, upload, oneOff),
             click' = [click EXCEPT ![r] =
                         [tab |-> t, inv |-> session[t].inv, own |-> session[t].own]]
      PROVE  \A q \in Request : AwaitedOK(q)'
  <2> HIDE DEF asked
  <2>1. /\ req'[r].asked = asked /\ req'[r].oneOff = oneOff /\ click'[r].tab = t
        /\ \A q \in Request \ {r} : req'[q] = req[q] /\ click'[q] = click[q]
    BY <1>5 DEF Post, Unused, HereInv, GuiTypes, TypeOK, SessionTypeOK
  <2>2. \A q \in Request \ {r} : Live(q)' = Live(q)
    BY <2>1 DEF Live
  <2>3. \A q \in Request : Live(q) => click[q].tab # t
    BY <1>0 DEF Busy, Live
  <2>4. \A q \in Request : click[q].tab \in Tab
    BY DEF HereInv, GuiTypes, SessionTypeOK, Click
  <2>5. AwaitedOK(r)'
    <3>1. ~req'[r].oneOff => req'[r].asked = session'[t].caseId
      BY <1>1, <2>1 DEF asked
    <3> QED BY <2>1, <2>2, <2>3, <3>1 DEF AwaitedOK
  <2>6. ASSUME NEW q \in Request \ {r} PROVE AwaitedOK(q)'
    BY <1>1, <2>1, <2>2, <2>3, <2>4 DEF HereInv, AwaitedOK
  <2> QED BY <2>5, <2>6
<1> QED BY <1>3, <1>4, <1>5 DEF Analyse

\* The analyst turns to another session or another case: nothing is awaited.
LEMMA HereTurn ==
    ASSUME Careful, HereInv, NEW t \in Tab,
           ResetSession(t) \/ \E c \in CaseId : OpenCase(t, c)
    PROVE  (\A q \in Request : AwaitedOK(q)') /\ (\A v \in Tab : HereOK(v)')
<1>1. ~Busy(t) /\ UNCHANGED <<vars, click>>
  BY DEF ResetSession, OpenCase, Turns, MayTurn, Careful
<1>2. \A v \in Tab \ {t} : session'[v] = session[v]
  BY DEF ResetSession, OpenCase, HereInv, GuiTypes, SessionTypeOK
<1>3. HereOK(t)'
  <2>1. CASE ResetSession(t)
    <3>1. session'[t].caseId = NoCase /\ session'[t].ingested = {}
      BY <2>1 DEF ResetSession, Fresh, HereInv, GuiTypes, SessionTypeOK
    <3> QED BY <3>1 DEF HereOK
  <2>2. ASSUME NEW c \in CaseId, OpenCase(t, c) PROVE HereOK(t)'
    <3>1. /\ session'[t].caseId = c
          /\ session'[t].ingested = IF session[t].caseId = c THEN session[t].ingested ELSE {}
      <4>1. session[t] \in Session /\ DOMAIN session = Tab
        BY DEF HereInv, GuiTypes, SessionTypeOK
      <4> DEFINE ingested == IF session[t].caseId = c THEN session[t].ingested ELSE {}
      <4>2. session' = [session EXCEPT ![t] =
                [session[t] EXCEPT !.ingested = ingested, !.caseId = c, !.own = FALSE]]
        BY <2>2, <4>1 DEF OpenCase, Session
      <4> HIDE DEF ingested
      <4>3. session'[t].caseId = c /\ session'[t].ingested = ingested
        BY <4>1, <4>2 DEF Session
      <4> QED BY <4>3 DEF ingested
    <3>2. c # NoCase
      BY ValueTypes
    <3> QED BY <1>1, <3>1, <3>2 DEF HereInv, HereOK, Kept, FilesIn, vars
  <2> QED BY <2>1, <2>2
<1>4. ASSUME NEW v \in Tab \ {t} PROVE HereOK(v)'
  BY <1>1, <1>2 DEF HereInv, HereOK, Kept, FilesIn, vars
<1>5. \A q \in Request : Live(q)' = Live(q) /\ (Live(q) => click[q].tab # t) /\ click[q].tab \in Tab
  BY <1>1 DEF Live, Busy, vars, HereInv, GuiTypes, SessionTypeOK, Click
<1>6. \A q \in Request : AwaitedOK(q)'
  BY <1>1, <1>2, <1>5, AwaitedStays DEF vars
<1> QED BY <1>3, <1>4, <1>6

\* An answer is read: it is the one the tab waits for, and its case is the
\* session's, or the session had none and nothing ingested.
LEMMA HereRead ==
    ASSUME Careful, HereInv, NEW r \in Request, ReadResult(r)
    PROVE  (\A q \in Request : AwaitedOK(q)') /\ (\A v \in Tab : HereOK(v)')
<1>t. PICK t \in Tab : t = click[r].tab
  BY DEF HereInv, GuiTypes, SessionTypeOK, Click
<1> DEFINE s == session[t]
<1>0. /\ t = click[r].tab /\ s \in Session /\ req[r] \in Req /\ DOMAIN req = Request
      /\ SentOK(r) /\ AwaitedOK(r) /\ HereOK(t)
  BY <1>t DEF HereInv, GuiTypes, SessionTypeOK, TypeOK
<1>1. /\ req[r].pc = "answered" /\ req[r].answer = "complete" /\ ~req[r].gone /\ Live(r)
      /\ click' = click /\ UNCHANGED <<case, told, deleted>>
  BY <1>0 DEF ReadResult, IsComplete, At, Close, SentOK, Live
<1>2. /\ session'[t].caseId = Adopted(t, r) /\ session'[t].ingested = s.ingested \cup Landed(r)
      /\ \A v \in Tab \ {t} : session'[v] = session[v]
  BY <1>0 DEF ReadResult, HereInv, GuiTypes, SessionTypeOK, Session
<1>3. ~Live(r)' /\ \A q \in Request : (q # r => req'[q] = req[q])
                      /\ req'[q].asked = req[q].asked /\ req'[q].oneOff = req[q].oneOff
  BY <1>0 DEF ReadResult, Close, Goto, Live, HereInv, GuiTypes, TypeOK, Req
<1>4. HereOK(t)'
  <2>1. CASE req[r].case = NoCase
    <3>1. Adopted(t, r) = s.caseId /\ Landed(r) = {}
      BY <2>1 DEF Adopted, Landed, InCase
    <3> QED BY <1>0, <1>1, <1>2, <3>1 DEF HereOK, Kept, FilesIn
  <2>2. CASE req[r].case # NoCase
    <3>1. Adopted(t, r) = req[r].case
      BY <2>2 DEF Adopted
    <3>2. ~req[r].oneOff /\ req[r].asked = s.caseId
      BY <1>0, <1>1, <2>2 DEF SentOK, AwaitedOK
    <3>3. s.ingested \subseteq Kept(req[r].case)
      BY <1>0, <1>1, <3>2 DEF SentOK, HereOK
    <3>4. Landed(r) \subseteq Kept(req[r].case)
      BY <1>0, <1>1 DEF Landed, SentOK, Past
    <3>5. session'[t].caseId = req[r].case /\ session'[t].ingested \subseteq Kept(req[r].case)
      BY <1>2, <3>1, <3>3, <3>4
    <3> QED BY <1>1, <2>2, <3>5 DEF HereOK, Kept, FilesIn
  <2> QED BY <2>1, <2>2
<1>5. ASSUME NEW v \in Tab \ {t} PROVE HereOK(v)'
  BY <1>1, <1>2 DEF HereInv, HereOK, Kept, FilesIn
<1>6. \A q \in Request : (Live(q)' => Live(q)) /\ (Live(q)' => click[q].tab # t) /\ click[q].tab \in Tab
  BY <1>0, <1>1, <1>3 DEF Live, AwaitedOK, HereInv, GuiTypes, SessionTypeOK, Click
<1>7. \A q \in Request : AwaitedOK(q)'
  BY <1>1, <1>2, <1>3, <1>6, AwaitedStays
<1> QED BY <1>4, <1>5, <1>7

LEMMA HereStep ==
    ASSUME Careful, HereInv, [GuiNext]_allVars
    PROVE  HereInv'
<1>1. GuiTypes' /\ [Next]_vars
  BY GuiStep DEF HereInv
<1>2. StreamInv' /\ deleted' = {} /\ \A q \in Request : SentOK(q)'
  BY <1>1, InvStep, KeptGrows, SentStep DEF HereInv
<1>3. (\A q \in Request : AwaitedOK(q)') /\ (\A v \in Tab : HereOK(v)')
  <2>1. CASE UNCHANGED allVars
    BY <2>1 DEF allVars, guiVars, vars, HereInv, AwaitedOK, HereOK, Live, Kept, FilesIn
  <2>2. ASSUME NEW t \in Tab, Acts(t) PROVE (\A q \in Request : AwaitedOK(q)') /\ (\A v \in Tab : HereOK(v)')
    <3>1. ASSUME NEW c \in CaseId PROVE ~SwitchCase(t, c) /\ ~DeleteCase(t, c)
      BY DEF Careful, SwitchCase, DeleteCase, Delete
    <3>2. ~StartNewCase(t)
      BY DEF Careful, StartNewCase
    <3>3. ASSUME NEW new \in SUBSET File, NEW oneOff \in BOOLEAN, Analyse(t, new, oneOff)
          PROVE  (\A q \in Request : AwaitedOK(q)') /\ (\A v \in Tab : HereOK(v)')
      BY <1>1, <3>3, HereClick
    <3>4. ASSUME ResetSession(t) \/ \E c \in CaseId : OpenCase(t, c)
          PROVE  (\A q \in Request : AwaitedOK(q)') /\ (\A v \in Tab : HereOK(v)')
      BY <3>4, HereTurn
    <3> QED BY <2>2, <3>1, <3>2, <3>3, <3>4 DEF Acts
  <2>3. ASSUME NEW r \in Request, Works(r) PROVE (\A q \in Request : AwaitedOK(q)') /\ (\A v \in Tab : HereOK(v)')
    BY <1>1, <2>3, HereServe, HereRead DEF Works, NoResult
  <2> QED BY <2>1, <2>2, <2>3 DEF GuiNext
<1> QED BY <1>1, <1>2, <1>3 DEF HereInv

LEMMA HereInit == GuiInit => HereInv
<1> SUFFICES ASSUME GuiInit PROVE HereInv
  OBVIOUS
<1>1. GuiTypes /\ StreamInv /\ deleted = {}
  BY GuiInitTypes, InitInv DEF GuiInit, Init
<1>2. \A r \in Request : req[r] = Unused
  BY DEF GuiInit, Init
<1>3. \A r \in Request : SentOK(r) /\ AwaitedOK(r)
  BY <1>2 DEF SentOK, AwaitedOK, Unused, Live, Past
<1>4. \A t \in Tab : HereOK(t)
  BY DEF GuiInit, HereOK, Fresh
<1> QED BY <1>1, <1>3, <1>4 DEF HereInv

-----------------------------------------------------------------------------

\* For any number of tabs and any analyst: what a session holds, and who
\* sent which request, keep their types.
THEOREM SessionTyped == GuiSpec => []SessionTypeOK
<1>1. GuiTypes /\ [GuiNext]_allVars => GuiTypes'
  BY GuiStep
<1>2. GuiTypes => SessionTypeOK
  BY DEF GuiTypes
<1> QED BY GuiInitTypes, <1>1, <1>2, PTL DEF GuiSpec

\* The browser asks nothing of the server that AnalyzeStream does not allow
\* its clients: a session with its server is a behaviour of the server's
\* specification (index.html's requests against app.py's endpoints).
THEOREM GuiImplementsStream == GuiSpec => Spec
<1>1. GuiInit => Init
  BY DEF GuiInit
<1>2. GuiTypes /\ [GuiNext]_allVars => GuiTypes' /\ [Next]_vars
  BY GuiStep
<1> QED BY GuiInitTypes, <1>1, <1>2, PTL DEF GuiSpec, Spec

\* So in a browser, too, a complete answer covers what was sent for it
\* (_analyze_stream under index.html).
THEOREM SessionSeesOwn == GuiSpec => []SeesOwn
BY GuiImplementsStream, OwnUploadSeen

\* And no failure of a case costs a tab's files their records, unless
\* someone deleted the case (_analyze_stream under index.html).
THEOREM SessionLosesNothing == GuiSpec => []NoEvidenceLost
BY GuiImplementsStream, EvidenceKept

\* For any number of tabs, requests, files and cases, and with every failure
\* and lost connection: what a session of an analyst who waits will not send
\* again is in the case the session names (runAnalysis, openCase and
\* resetSession of index.html).  Careful leaves out the deeds after which it
\* is not so.
THEOREM IngestedIsHere == Careful => (GuiSpec => []IngestedHere)
<1> SUFFICES ASSUME Careful PROVE GuiSpec => []IngestedHere
  OBVIOUS
<1>1. HereInv /\ [GuiNext]_allVars => HereInv'
  BY HereStep
<1>2. HereInv => IngestedHere
  BY DEF HereInv, HereOK, IngestedHere
<1> QED BY HereInit, <1>1, <1>2, PTL DEF GuiSpec

-----------------------------------------------------------------------------
(* An analyst who waits, in one tab                                         *)

\* One tab, no click while an answer is awaited, no lost connection: at most
\* one request is at work, and the session is the one that sent it.
OneTab ==
    /\ \A t, u \in Tab : t = u
    /\ Does \cap {"overlap", "turn away"} = {}
    /\ Disconnects = FALSE

SentBy(r) ==
    LET s == session[click[r].tab] IN
    /\ ~req[r].gone
    /\ Live(r) => /\ click[r].inv = s.inv /\ click[r].own = s.own
                  /\ req[r].asked \in {NoCase, s.caseId}
    /\ \A q \in Request : Live(q) /\ Live(r) => q = r

WaitInv == GuiTypes /\ \A r \in Request : SentBy(r)

\* What serving a request does to the requests.
LEMMA ServeRequest ==
    ASSUME TypeOK, NEW r \in Request, ~req[r].gone, Serve(r)
    PROVE  /\ \A q \in Request \ {r} : req'[q] = req[q]
           /\ req[r].pc \notin {"unused", "answered", "closed"}
           /\ req'[r].pc \notin {"unused", "sent", "closed"}
           /\ req'[r].asked = req[r].asked /\ req'[r].oneOff = req[r].oneOff
           /\ req'[r].files = req[r].files /\ req'[r].gone = req[r].gone
           /\ Receive(r) \/ (req'[r].case = req[r].case /\ req[r].pc # "sent")
           /\ Build(r) \/ req'[r].built = req[r].built
<1>0. req[r] \in Req /\ DOMAIN req = Request
  BY DEF TypeOK
<1> USE DEF At
<1>1. CASE Receive(r)
  <2>1. PICK c \in CaseId \cup {NoCase} : req' = [req EXCEPT ![r] = [@ EXCEPT !.pc = "build", !.case = c]]
    BY <1>1 DEF Receive
  <2> QED BY <1>0, <1>1, <2>1 DEF Receive, Req
<1>2. CASE Refuse(r) \/ BuildFails(r) \/ AnalyzeFails(r) \/ Report(r)
  <2>1. PICK kind : Answer(r, kind)
    BY <1>2 DEF Refuse, BuildFails, AnalyzeFails, Report
  <2>2. req[r].pc \in {"build", "analyze", "report"}
    BY <1>2 DEF Refuse, BuildFails, AnalyzeFails, Report
  <2> QED BY <1>0, <2>1, <2>2 DEF Answer, Req
<1>3. CASE Build(r)
  <2>1. PICK built, step :
          /\ req' = [req EXCEPT ![r] = [@ EXCEPT !.built = built, !.pc = step]]
          /\ step \in {"persist", "analyze"} /\ req[r].pc = "build"
    BY <1>3 DEF Build
  <2> QED BY <1>0, <1>3, <2>1 DEF Req
<1>4. CASE Persist(r) \/ Create(r)
  <2>1. PICK step : Goto(r, step) /\ step \in {"create", "append"} /\ req[r].pc \in {"persist", "create"}
    BY <1>4 DEF Persist, Create
  <2> QED BY <1>0, <2>1 DEF Goto, Req
<1>5. CASE CreateRefused(r) \/ Append(r) \/ AppendRefused(r) \/ AppendFails(r)
  <2>1. PICK error \in BOOLEAN : Persisted(r, error)
    BY <1>5 DEF CreateRefused, Append, AppendRefused, AppendFails, Degrade
  <2>2. req[r].pc \in {"create", "append"}
    BY <1>5 DEF CreateRefused, Append, AppendRefused, AppendFails
  <2> QED BY <1>0, <2>1, <2>2 DEF Persisted, Req
<1>6. CASE Analyze(r)
  <2>1. PICK seen : req' = [req EXCEPT ![r] = [@ EXCEPT !.pc = "report", !.seen = seen]]
    BY <1>6 DEF Analyze
  <2> QED BY <1>0, <1>6, <2>1 DEF Analyze, Req
<1> QED BY <1>1, <1>2, <1>3, <1>4, <1>5, <1>6 DEF Serve

\* And what it does to the cases: a digest aside, only the case of the request
\* changes, when it is created and when it takes records.
LEMMA ServeCases ==
    ASSUME TypeOK, NEW r \in Request, Serve(r), NEW c \in CaseId
    PROVE  \/ /\ case'[c].exists = case[c].exists /\ case'[c].from = case[c].from
              /\ case'[c].copies = case[c].copies
           \/ c = req[r].case /\ Create(r) /\ case'[c] = Empty
           \/ c = req[r].case /\ Append(r) /\ case'[c] = StoredIn(case[c], r)
           \/ /\ c = req[r].case /\ AppendFails(r)
              /\ case'[c].exists = case[c].exists /\ case'[c].from = case[c].from
<1>0. case[c] \in Case /\ DOMAIN case = CaseId
  BY DEF TypeOK
<1>1. CASE Create(r)
  <2>1. case' = [case EXCEPT ![req[r].case] = Empty]
    BY <1>1 DEF Create
  <2> QED BY <1>0, <1>1, <2>1
<1>2. CASE Append(r)
  <2>1. case' = [case EXCEPT ![req[r].case] = StoredIn(case[req[r].case], r)]
    BY <1>0, <1>2 DEF Append
  <2> QED BY <1>0, <1>2, <2>1
<1>3. CASE AppendFails(r)
  <2>1. PICK copies : case' = [case EXCEPT ![req[r].case] = [case[req[r].case] EXCEPT !.copies = copies]]
    <3>1. PICK part \in SUBSET File :
            case' = [case EXCEPT ![req[r].case].copies =
                       With(@, [f \in File |-> IF f \in part THEN req[r].built[f] ELSE 0])]
      BY <1>3 DEF AppendFails
    <3> QED BY <3>1
  <2> QED BY <1>0, <1>3, <2>1 DEF Case
<1>4. CASE Report(r)
  <2>1. \/ UNCHANGED case
        \/ \E d : case' = [case EXCEPT ![req[r].case].digest = d]
    BY <1>4 DEF Report
  <2> QED BY <1>0, <2>1 DEF Case
<1>5. CASE \/ Receive(r) \/ Refuse(r) \/ Build(r) \/ BuildFails(r) \/ Persist(r) \/ CreateRefused(r)
           \/ AppendRefused(r) \/ Analyze(r) \/ AnalyzeFails(r)
  BY <1>5 DEF Receive, Refuse, Build, BuildFails, Persist, CreateRefused, AppendRefused, Analyze,
     AnalyzeFails
<1> QED BY <1>1, <1>2, <1>3, <1>4, <1>5 DEF Serve


\* Where the tab does not wait, nothing is at work.
LEMMA Idle ==
    ASSUME OneTab, GuiTypes, NEW t \in Tab, ~Busy(t)
    PROVE  \A r \in Request : ~Live(r)
BY DEF OneTab, GuiTypes, SessionTypeOK, Click, Busy, Live

\* A request of tab t goes out, of what its session now holds.
Sends(t, r, oneOff) ==
    /\ req[r].pc = "unused"
    /\ \A q \in Request \ {r} : req'[q] = req[q] /\ click'[q] = click[q]
    /\ req'[r] = [Unused EXCEPT
          !.pc = "sent", !.oneOff = oneOff,
          !.asked = IF oneOff THEN NoCase ELSE session[t].caseId,
          !.files = IF oneOff THEN session'[t].files
                    ELSE PendingFiles(session'[t].files, session[t].ingested)]
    /\ click'[r] = [tab |-> t, inv |-> session[t].inv, own |-> session[t].own]

\* A click on Analyze takes files into the session, and may send a request.
LEMMA ClickEffect ==
    ASSUME OneTab, GuiTypes, NEW t \in Tab, NEW new \in SUBSET File, NEW oneOff \in BOOLEAN,
           Analyse(t, new, oneOff)
    PROVE  /\ \A q \in Request : ~Live(q)
           /\ UNCHANGED case
           /\ session'[t] = [session[t] EXCEPT !.files = Picked(session[t].files, new)]
           /\ UNCHANGED <<req, click>> \/ \E r \in Request : Sends(t, r, oneOff)
<1> DEFINE files  == Picked(session[t].files, new)
           upload == IF oneOff THEN files ELSE PendingFiles(files, session[t].ingested)
           asked  == IF oneOff THEN NoCase ELSE session[t].caseId
<1>1. ~Busy(t) /\ session' = [session EXCEPT ![t].files = files]
  BY DEF Analyse, MayAnalyse, OneTab
<1>2. session'[t] = [session[t] EXCEPT !.files = files] /\ session'[t].files = files
  <2> HIDE DEF files
  <2> QED BY <1>1 DEF GuiTypes, SessionTypeOK, Session
<1>3. \A q \in Request : ~Live(q)
  BY <1>1, Idle
<1>4. CASE UNCHANGED <<vars, click>>
  BY <1>2, <1>3, <1>4 DEF vars
<1>5. ASSUME NEW r \in Request, Post(r, asked, upload, oneOff),
             click' = [click EXCEPT ![r] =
                         [tab |-> t, inv |-> session[t].inv, own |-> session[t].own]]
      PROVE  UNCHANGED case /\ Sends(t, r, oneOff)
  <2>1. req[r].pc = "unused" /\ UNCHANGED case
    BY <1>5 DEF Post, At
  <2>2. req' = [req EXCEPT ![r] = [Unused EXCEPT !.pc = "sent", !.asked = asked,
                                   !.files = upload, !.oneOff = oneOff]]
    BY <1>5 DEF Post
  <2>3. DOMAIN req = Request /\ DOMAIN click = Request
    BY DEF GuiTypes, TypeOK, SessionTypeOK
  <2>4. /\ \A q \in Request \ {r} : req'[q] = req[q] /\ click'[q] = click[q]
        /\ click'[r] = [tab |-> t, inv |-> session[t].inv, own |-> session[t].own]
    BY <1>5, <2>2, <2>3
  <2>5. req'[r] = [Unused EXCEPT !.pc = "sent", !.oneOff = oneOff, !.asked = asked, !.files = upload]
    <3> HIDE DEF asked, upload
    <3> QED BY <2>2, <2>3 DEF Unused
  <2> QED BY <1>2, <2>1, <2>4, <2>5 DEF Sends
<1>6. CASE \E r \in Request :
             /\ Post(r, asked, upload, oneOff)
             /\ click' = [click EXCEPT ![r] =
                  [tab |-> t, inv |-> session[t].inv, own |-> session[t].own]]
  BY <1>2, <1>3, <1>5, <1>6
<1>7. \/ UNCHANGED <<vars, click>>
      \/ \E r \in Request :
             /\ Post(r, asked, upload, oneOff)
             /\ click' = [click EXCEPT ![r] =
                  [tab |-> t, inv |-> session[t].inv, own |-> session[t].own]]
  BY DEF Analyse
<1> QED BY <1>4, <1>6, <1>7

\* The other deeds leave the requests alone.
LEMMA TurnEffect ==
    ASSUME OneTab, GuiTypes, NEW t \in Tab,
           \/ StartNewCase(t) \/ ResetSession(t)
           \/ \E c \in CaseId : OpenCase(t, c) \/ SwitchCase(t, c) \/ DeleteCase(t, c)
    PROVE  (\A q \in Request : ~Live(q)) /\ UNCHANGED <<req, click>>
<1>1. ~Busy(t) /\ UNCHANGED <<req, click>>
  BY DEF StartNewCase, ResetSession, OpenCase, SwitchCase, DeleteCase, Turns, MayTurn, OneTab, vars,
     Delete
<1> QED BY <1>1, Idle

\* An answer is read: nothing is at work any more.
LEMMA CloseEffect ==
    ASSUME OneTab, WaitInv, NEW r \in Request, ReadResult(r) \/ NoResult(r)
    PROVE  /\ req[r].pc = "answered" /\ Live(r) /\ \A q \in Request : ~Live(q)'
           /\ \A q \in Request \ {r} : req'[q] = req[q]
           /\ req'[r] = [req[r] EXCEPT !.pc = "closed"]
           /\ UNCHANGED <<case, click>>
<1>0. req[r] \in Req /\ DOMAIN req = Request
  BY DEF WaitInv, GuiTypes, TypeOK
<1>1. Close(r) /\ click' = click
  BY DEF ReadResult, NoResult, guiVars
<1>2. req[r].pc = "answered" /\ UNCHANGED case /\ req' = [req EXCEPT ![r].pc = "closed"]
  BY <1>1 DEF Close, At, Goto
<1>3. req'[r] = [req[r] EXCEPT !.pc = "closed"] /\ \A q \in Request \ {r} : req'[q] = req[q]
  BY <1>0, <1>2
<1>4. Live(r)
  BY <1>2 DEF Live, WaitInv, SentBy
<1>5. \A q \in Request \ {r} : ~Live(q)
  BY <1>4 DEF WaitInv, SentBy
<1>6. \A q \in Request : ~Live(q)'
  BY <1>0, <1>3, <1>5 DEF Live, Req
<1> QED BY <1>1, <1>2, <1>3, <1>4, <1>6

LEMMA WaitStep ==
    ASSUME OneTab, WaitInv, [GuiNext]_allVars
    PROVE  WaitInv'
<1>1. GuiTypes'
  BY GuiStep DEF WaitInv
<1>2. ASSUME UNCHANGED allVars PROVE \A q \in Request : SentBy(q)'
  BY <1>2 DEF allVars, guiVars, vars, WaitInv, SentBy, Live
<1>3. ASSUME NEW t \in Tab, Acts(t) PROVE \A q \in Request : SentBy(q)'
  <2>1. ASSUME NEW new \in SUBSET File, NEW oneOff \in BOOLEAN, Analyse(t, new, oneOff)
        PROVE  \A q \in Request : SentBy(q)'
    <3>0. session[t] \in Session
      BY DEF WaitInv, GuiTypes, SessionTypeOK
    <3>1. session'[t] = [session[t] EXCEPT !.files = Picked(session[t].files, new)]
          /\ \A q \in Request : ~Live(q)
      BY <2>1, ClickEffect DEF WaitInv
    <3>2. session'[t].inv = session[t].inv /\ session'[t].own = session[t].own
          /\ session'[t].caseId = session[t].caseId
      BY <3>0, <3>1 DEF Session
    <3>3. CASE UNCHANGED <<req, click>>
      BY <3>1, <3>3 DEF WaitInv, SentBy, Live
    <3>4. ASSUME NEW r \in Request, Sends(t, r, oneOff) PROVE \A q \in Request : SentBy(q)'
      <4>1. \A q \in Request \ {r} : ~Live(q)' /\ ~req'[q].gone
        BY <3>1, <3>4 DEF Sends, Live, WaitInv, SentBy
      <4>2. click'[r].tab = t /\ click'[r].inv = session[t].inv /\ click'[r].own = session[t].own
        BY <3>4 DEF Sends
      <4>3. ~req'[r].gone /\ req'[r].asked \in {NoCase, session[t].caseId}
        BY <3>4 DEF Sends, Unused
      <4> QED BY <3>2, <4>1, <4>2, <4>3 DEF SentBy
    <3> QED BY <2>1, <3>3, <3>4, ClickEffect DEF WaitInv
  <2>2. ASSUME \/ StartNewCase(t) \/ ResetSession(t)
               \/ \E c \in CaseId : OpenCase(t, c) \/ SwitchCase(t, c) \/ DeleteCase(t, c)
        PROVE  \A q \in Request : SentBy(q)'
    BY <2>2, TurnEffect DEF WaitInv, SentBy, Live
  <2> QED BY <1>3, <2>1, <2>2 DEF Acts
<1>4. ASSUME NEW r \in Request, Works(r) PROVE \A q \in Request : SentBy(q)'
  <2>1. CASE Serve(r) /\ UNCHANGED guiVars
    <3>1. /\ \A q \in Request \ {r} : req'[q] = req[q]
          /\ Live(r) /\ req'[r].asked = req[r].asked /\ ~req'[r].gone
      BY <2>1, ServeRequest DEF WaitInv, GuiTypes, SentBy, Live
    <3> QED BY <2>1, <3>1 DEF WaitInv, SentBy, Live, guiVars
  <2>2. CASE ReadResult(r) \/ NoResult(r)
    <3>1. /\ \A q \in Request : ~Live(q)'
          /\ \A q \in Request \ {r} : req'[q] = req[q]
          /\ req'[r] = [req[r] EXCEPT !.pc = "closed"]
      BY <2>2, CloseEffect
    <3>2. req'[r].gone = req[r].gone
      BY <3>1 DEF WaitInv, GuiTypes, TypeOK, Req
    <3> QED BY <3>1, <3>2 DEF WaitInv, SentBy
  <2> QED BY <1>4, <2>1, <2>2 DEF Works, Disconnect, OneTab
<1> QED BY <1>1, <1>2, <1>3, <1>4 DEF GuiNext, WaitInv

LEMMA WaitInit == GuiInit => WaitInv
<1> SUFFICES ASSUME GuiInit PROVE WaitInv
  OBVIOUS
<1>1. \A r \in Request : req[r] = Unused
  BY DEF GuiInit, Init
<1> QED BY <1>1, GuiInitTypes DEF WaitInv, SentBy, Live, Unused

-----------------------------------------------------------------------------
(* Investigations stay apart                                                *)

\* What case c holds of the cases minted for a session is investigation inv's.
Mine(c, inv) == \A q \in case[c].from : click[q].own => click[q].inv = inv

HoldsOK(c) ==
    /\ ~case[c].exists => case[c].from = {}
    /\ \A q \in case[c].from : req[q].pc # "unused"
    /\ \E inv \in 1..MaxInv : Mine(c, inv)

\* A request that has its case, and the session, add to what is theirs.
MintsOK(r) ==
    Live(r) /\ req[r].pc # "sent" /\ req[r].case # NoCase /\ click[r].own =>
        Mine(req[r].case, click[r].inv)
OwnsOK(t) ==
    session[t].own /\ session[t].caseId # NoCase => Mine(session[t].caseId, session[t].inv)

ApartOK ==
    /\ \A c \in CaseId : HoldsOK(c)
    /\ \A r \in Request : MintsOK(r)
    /\ \A t \in Tab : OwnsOK(t)
ApartInv == WaitInv /\ ApartOK

LEMMA ApartServe ==
    ASSUME OneTab, ApartInv, NEW r \in Request, Serve(r), UNCHANGED guiVars
    PROVE  ApartOK'
<1>0. /\ \A q \in Request \ {r} : req'[q] = req[q]
      /\ Live(r) /\ req[r].pc # "unused" /\ req'[r].pc # "unused"
      /\ Receive(r) \/ (req'[r].case = req[r].case /\ req[r].pc # "sent")
      /\ req[r].case \in CaseId \cup {NoCase}
  BY ServeRequest DEF ApartInv, WaitInv, GuiTypes, TypeOK, SentBy, Live, Req
<1>1. /\ session' = session /\ click' = click
      /\ \A t \in Tab : click[r].inv = session[t].inv /\ click[r].own = session[t].own
      /\ \A t \in Tab : req[r].asked \in {NoCase, session[t].caseId}
      /\ \A q \in Request \ {r} : ~Live(q)'
  <2>1. session' = session /\ click' = click
    BY DEF guiVars
  <2>2. \A t \in Tab : t = click[r].tab
    BY DEF ApartInv, WaitInv, GuiTypes, SessionTypeOK, Click, OneTab
  <2>3. SentBy(r)
    BY DEF ApartInv, WaitInv
  <2>4. \A q \in Request \ {r} : ~Live(q)
    BY <1>0 DEF ApartInv, WaitInv, SentBy
  <2>5. \A q \in Request \ {r} : ~Live(q)'
    BY <1>0, <2>4 DEF Live
  <2>6. \A t \in Tab : click[r].inv = session[t].inv /\ click[r].own = session[t].own
    BY <1>0, <2>2, <2>3 DEF SentBy
  <2>7. \A t \in Tab : req[r].asked \in {NoCase, session[t].caseId}
    BY <1>0, <2>2, <2>3 DEF SentBy
  <2> QED BY <2>1, <2>5, <2>6, <2>7
<1>2. ASSUME NEW c \in CaseId
      PROVE  \/ case'[c].from = case[c].from /\ case'[c].exists = case[c].exists
             \/ case'[c].from = {} /\ case'[c].exists
             \/ /\ c = req[r].case /\ Append(r) /\ case'[c].from = case[c].from \cup {r}
                /\ case'[c].exists
  <2>1. TypeOK
    BY DEF ApartInv, WaitInv, GuiTypes
  <2>2. Append(r) /\ c = req[r].case => case[c].exists
    BY DEF Append
  <2>3. StoredIn(case[c], r).from = case[c].from \cup {r} /\ StoredIn(case[c], r).exists = case[c].exists
    BY <2>1 DEF StoredIn, TypeOK, Case
  <2>4. Empty.from = {} /\ Empty.exists
    BY DEF Empty, Absent
  <2> QED BY <2>1, <2>2, <2>3, <2>4, ServeCases
<1>3. ASSUME NEW c \in CaseId, NEW inv, Mine(c, inv),
             c = req[r].case /\ Append(r) /\ click[r].own => click[r].inv = inv
      PROVE  Mine(c, inv)'
  <2>1. ASSUME NEW q \in case'[c].from, click[q].own PROVE click[q].inv = inv
    BY <1>2, <1>3, <2>1 DEF Mine
  <2> QED BY <1>1, <2>1 DEF Mine
<1>4. ASSUME NEW c \in CaseId, c = req[r].case, Append(r), click[r].own PROVE Mine(c, click[r].inv)
  <2>1. c # NoCase /\ req[r].pc = "append"
    BY <1>4, ValueTypes DEF Append, At
  <2> QED BY <1>0, <1>4, <2>1 DEF ApartInv, ApartOK, MintsOK
<1>5. ASSUME NEW c \in CaseId PROVE HoldsOK(c)'
  <2>1. HoldsOK(c) /\ (case[c].from \subseteq Request) /\ click[r].inv \in 1..MaxInv
    BY DEF ApartInv, ApartOK, WaitInv, GuiTypes, TypeOK, Case, SessionTypeOK, Click
  <2>2. (~case[c].exists => case[c].from = {})'
    BY <1>2, <2>1 DEF HoldsOK
  <2>3. \A q \in case'[c].from : req'[q].pc # "unused"
    BY <1>0, <1>2, <2>1 DEF HoldsOK
  <2>4. \E inv \in 1..MaxInv : Mine(c, inv)'
    <3>1. CASE c = req[r].case /\ Append(r) /\ click[r].own
      BY <1>3, <1>4, <2>1, <3>1
    <3>2. CASE ~(c = req[r].case /\ Append(r) /\ click[r].own)
      BY <1>3, <2>1, <3>2 DEF HoldsOK
    <3> QED BY <3>1, <3>2
  <2> QED BY <2>2, <2>3, <2>4 DEF HoldsOK
<1>6. ASSUME NEW q \in Request PROVE MintsOK(q)'
  <2>1. CASE q # r
    BY <1>1, <2>1 DEF MintsOK
  <2>2. ASSUME req'[r].case # NoCase, click[r].own PROVE Mine(req[r].case, click[r].inv)'
    <3>1. PICK t \in Tab : t = click[r].tab
      BY DEF ApartInv, WaitInv, GuiTypes, SessionTypeOK, Click
    <3>2. PICK inv : inv = click[r].inv
      OBVIOUS
    <3>3. CASE Receive(r)
      <4>1. PICK c \in CaseId \cup {NoCase} :
               /\ IF req[r].asked # NoCase THEN c = req[r].asked
                  ELSE IF req[r].oneOff THEN c = NoCase ELSE c \in CaseId /\ IsFirstFree(c)
               /\ req' = [req EXCEPT ![r] = [@ EXCEPT !.pc = "build", !.case = c]]
        BY <3>3 DEF Receive
      <4>2. req'[r].case = c /\ UNCHANGED case
        BY <3>3, <4>1 DEF Receive, ApartInv, WaitInv, GuiTypes, TypeOK, Req
      <4>3. Mine(c, inv)
        <5>1. CASE req[r].asked # NoCase
          <6>1. c = session[t].caseId /\ session[t].own /\ inv = session[t].inv /\ c # NoCase
            BY <1>1, <2>2, <3>2, <4>1, <5>1
          <6> QED BY <6>1 DEF ApartInv, ApartOK, OwnsOK
        <5>2. CASE req[r].asked = NoCase
          <6>1. c \in CaseId /\ ~case[c].exists
            BY <2>2, <4>1, <4>2, <5>2 DEF IsFirstFree
          <6>2. case[c].from = {}
            BY <6>1 DEF ApartInv, ApartOK, HoldsOK
          <6> QED BY <6>2 DEF Mine
        <5> QED BY <5>1, <5>2
      <4>4. Mine(c, inv)'
        BY <1>1, <4>2, <4>3 DEF Mine
      <4> QED BY <1>1, <3>2, <4>2, <4>4 DEF Mine
    <3>4. CASE ~Receive(r)
      <4>1. PICK c \in CaseId : c = req[r].case
        BY <1>0, <2>2, <3>4
      <4>2. Mine(c, inv)
        BY <1>0, <2>2, <3>2, <3>4, <4>1 DEF ApartInv, ApartOK, MintsOK
      <4>3. Mine(c, inv)'
        BY <1>3, <3>2, <4>2
      <4>4. req'[r].case = c
        BY <1>0, <3>4, <4>1
      <4> QED BY <1>1, <3>2, <4>3, <4>4 DEF Mine
    <3> QED BY <3>3, <3>4
  <2>3. MintsOK(r)'
    BY <1>1, <2>2 DEF MintsOK
  <2> QED BY <2>1, <2>3
<1>7. ASSUME NEW t \in Tab PROVE OwnsOK(t)'
  <2>1. ASSUME session[t].own, session[t].caseId # NoCase
        PROVE  Mine(session[t].caseId, session[t].inv)'
    <3>1. PICK inv : inv = session[t].inv
      OBVIOUS
    <3>2. PICK c \in CaseId : c = session[t].caseId
      BY <2>1 DEF ApartInv, WaitInv, GuiTypes, SessionTypeOK, Session
    <3>3. Mine(c, inv)
      BY <2>1, <3>1, <3>2 DEF ApartInv, ApartOK, OwnsOK
    <3>4. Append(r) /\ click[r].own => click[r].inv = inv
      BY <1>1, <3>1
    <3>5. Mine(c, inv)'
      BY <1>3, <3>3, <3>4
    <3> QED BY <1>1, <3>1, <3>2, <3>5 DEF Mine
  <2> QED BY <1>1, <2>1 DEF OwnsOK
<1> QED BY <1>5, <1>6, <1>7 DEF ApartOK

LEMMA ApartClick ==
    ASSUME OneTab, ApartInv, NEW t \in Tab, NEW new \in SUBSET File, NEW oneOff \in BOOLEAN,
           Analyse(t, new, oneOff)
    PROVE  ApartOK'
<1>1. /\ \A q \in Request : ~Live(q)
      /\ UNCHANGED case
      /\ session'[t] = [session[t] EXCEPT !.files = Picked(session[t].files, new)]
      /\ UNCHANGED <<req, click>> \/ \E r \in Request : Sends(t, r, oneOff)
  BY ClickEffect DEF ApartInv, WaitInv
<1>2. /\ session'[t].caseId = session[t].caseId /\ session'[t].own = session[t].own
      /\ session'[t].inv = session[t].inv
  <2>1. session[t] \in Session
    BY DEF ApartInv, WaitInv, GuiTypes, SessionTypeOK
  <2> QED BY <1>1, <2>1 DEF Session
<1>3. \A q \in Request : \/ req'[q] = req[q] /\ click'[q] = click[q]
                         \/ req[q].pc = "unused" /\ req'[q].pc = "sent"
  <2>1. ASSUME NEW r \in Request, Sends(t, r, oneOff), NEW q \in Request
        PROVE  \/ req'[q] = req[q] /\ click'[q] = click[q]
               \/ req[q].pc = "unused" /\ req'[q].pc = "sent"
    <3>1. CASE q # r
      BY <2>1, <3>1 DEF Sends
    <3>2. req[r].pc = "unused" /\ req'[r].pc = "sent"
      BY <2>1 DEF Sends, Unused
    <3> QED BY <3>1, <3>2
  <2> QED BY <1>1, <2>1
<1>4. \A c \in CaseId : \A q \in case[c].from : q \in Request /\ req'[q] = req[q] /\ click'[q] = click[q]
  BY <1>3 DEF ApartInv, ApartOK, HoldsOK, WaitInv, GuiTypes, TypeOK, Case
<1>5. \A c \in CaseId : \A inv : Mine(c, inv) => Mine(c, inv)'
  BY <1>1, <1>4 DEF Mine
<1>6. ASSUME NEW c \in CaseId PROVE HoldsOK(c)'
  BY <1>1, <1>4, <1>5 DEF ApartInv, ApartOK, HoldsOK
<1>7. ASSUME NEW q \in Request PROVE MintsOK(q)'
  <2>1. ~Live(q)' \/ req'[q].pc = "sent"
    BY <1>1, <1>3 DEF Live
  <2> QED BY <2>1 DEF MintsOK
<1>8. ASSUME NEW v \in Tab PROVE OwnsOK(v)'
  <2>1. v = t
    BY DEF OneTab
  <2>2. ASSUME session[t].own, session[t].caseId # NoCase
        PROVE  Mine(session[t].caseId, session[t].inv)'
    <3>0. PICK inv : inv = session[t].inv
      OBVIOUS
    <3>1. PICK c \in CaseId : c = session[t].caseId
      BY <2>2 DEF ApartInv, WaitInv, GuiTypes, SessionTypeOK, Session
    <3>2. Mine(c, inv)
      BY <2>2, <3>0, <3>1 DEF ApartInv, ApartOK, OwnsOK
    <3>3. Mine(c, inv)'
      BY <1>5, <3>2
    <3> QED BY <1>2, <3>0, <3>1, <3>3 DEF Mine
  <2> QED BY <1>2, <2>1, <2>2 DEF OwnsOK
<1> QED BY <1>6, <1>7, <1>8 DEF ApartOK

\* The analyst turns to something else, and nothing is at work.
LEMMA ApartTurn ==
    ASSUME OneTab, ApartInv, NEW t \in Tab,
           \/ StartNewCase(t) \/ ResetSession(t)
           \/ \E c \in CaseId : OpenCase(t, c) \/ SwitchCase(t, c) \/ DeleteCase(t, c)
    PROVE  ApartOK'
<1>1. (\A q \in Request : ~Live(q)) /\ UNCHANGED <<req, click>>
  BY TurnEffect DEF ApartInv, WaitInv
<1>2. ASSUME NEW c \in CaseId
      PROVE  \/ case'[c].from = case[c].from /\ case'[c].exists = case[c].exists
             \/ case'[c].from = {}
  <2>1. CASE UNCHANGED vars
    BY <2>1 DEF vars
  <2>2. ASSUME NEW d \in CaseId, Delete(d)
        PROVE  \/ case'[c].from = case[c].from /\ case'[c].exists = case[c].exists
               \/ case'[c].from = {}
    BY <2>2 DEF Delete, Absent, ApartInv, WaitInv, GuiTypes, TypeOK
  <2> QED BY <2>1, <2>2 DEF StartNewCase, ResetSession, OpenCase, SwitchCase, DeleteCase
<1>3. \A c \in CaseId : \A inv : Mine(c, inv) => Mine(c, inv)'
  BY <1>1, <1>2 DEF Mine
<1>4. ASSUME NEW c \in CaseId PROVE HoldsOK(c)'
  BY <1>1, <1>2, <1>3 DEF ApartInv, ApartOK, HoldsOK
<1>5. ASSUME NEW q \in Request PROVE MintsOK(q)'
  BY <1>1 DEF MintsOK, Live
<1>6. \/ session'[t].own = FALSE \/ session'[t].caseId = NoCase
      \/ session' = session
  <2>0. session[t] \in Session /\ DOMAIN session = Tab
    BY DEF ApartInv, WaitInv, GuiTypes, SessionTypeOK
  <2>1. CASE StartNewCase(t) \/ ResetSession(t)
    BY <2>0, <2>1 DEF StartNewCase, ResetSession, Fresh, Session
  <2>2. ASSUME NEW c \in CaseId, SwitchCase(t, c) PROVE session'[t].own = FALSE
    <3>1. session' = [session EXCEPT ![t] = [session[t] EXCEPT !.caseId = c, !.own = FALSE]]
      BY <2>0, <2>2 DEF SwitchCase
    <3> QED BY <2>0, <3>1 DEF Session
  <2>3. ASSUME NEW c \in CaseId, OpenCase(t, c) PROVE session'[t].own = FALSE
    <3>1. PICK ingested :
            session' = [session EXCEPT ![t] =
                          [session[t] EXCEPT !.ingested = ingested, !.caseId = c, !.own = FALSE]]
      <4> DEFINE ingested == IF session[t].caseId = c THEN session[t].ingested ELSE {}
      <4>1. session' = [session EXCEPT ![t] =
                          [session[t] EXCEPT !.ingested = ingested, !.caseId = c, !.own = FALSE]]
        BY <2>0, <2>3 DEF OpenCase, Session
      <4> QED BY <4>1
    <3> QED BY <2>0, <3>1 DEF Session
  <2>4. ASSUME NEW c \in CaseId, DeleteCase(t, c) PROVE session'[t].caseId = NoCase \/ session' = session
    BY <2>0, <2>4 DEF DeleteCase, Session
  <2> QED BY <2>1, <2>2, <2>3, <2>4
<1>7. ASSUME NEW v \in Tab PROVE OwnsOK(v)'
  <2>1. v = t
    BY DEF OneTab
  <2>2. ASSUME session' = session, session[t].own, session[t].caseId # NoCase
        PROVE  Mine(session[t].caseId, session[t].inv)'
    <3>1. PICK inv : inv = session[t].inv
      OBVIOUS
    <3>2. PICK c \in CaseId : c = session[t].caseId
      BY <2>2 DEF ApartInv, WaitInv, GuiTypes, SessionTypeOK, Session
    <3>3. Mine(c, inv)
      BY <2>2, <3>1, <3>2 DEF ApartInv, ApartOK, OwnsOK
    <3>4. Mine(c, inv)'
      BY <1>3, <3>3
    <3> QED BY <2>2, <3>1, <3>2, <3>4 DEF Mine
  <2> QED BY <1>6, <2>1, <2>2 DEF OwnsOK
<1> QED BY <1>4, <1>5, <1>7 DEF ApartOK

\* What reading an answer does to the session.
LEMMA ReadEffect ==
    ASSUME GuiTypes, NEW r \in Request, ReadResult(r), NEW t \in Tab, t = click[r].tab
    PROVE  /\ session'[t].caseId = Adopted(t, r)
           /\ session'[t].ingested = session[t].ingested \cup Landed(r)
           /\ session'[t].inv = session[t].inv /\ session'[t].own = session[t].own
           /\ session'[t].files = session[t].files
           /\ IsComplete(r)
<1>1. session[t] \in Session /\ DOMAIN session = Tab
  BY DEF GuiTypes, SessionTypeOK
<1>2. session' = [session EXCEPT ![t] = [session[t] EXCEPT
                     !.caseId = Adopted(t, r), !.ingested = session[t].ingested \cup Landed(r)]]
  BY <1>1 DEF ReadResult, Session
<1> QED BY <1>1, <1>2 DEF ReadResult, Session

LEMMA ApartRead ==
    ASSUME OneTab, ApartInv, NEW r \in Request, ReadResult(r) \/ NoResult(r)
    PROVE  ApartOK'
<1>1. /\ req[r].pc = "answered" /\ Live(r) /\ \A q \in Request : ~Live(q)'
      /\ \A q \in Request \ {r} : req'[q] = req[q]
      /\ req'[r] = [req[r] EXCEPT !.pc = "closed"]
      /\ UNCHANGED <<case, click>>
  BY CloseEffect DEF ApartInv
<1>2. \A c \in CaseId : \A inv : Mine(c, inv) => Mine(c, inv)'
  BY <1>1 DEF Mine
<1>3. req'[r].pc = "closed"
  BY <1>1 DEF ApartInv, WaitInv, GuiTypes, TypeOK, Req
<1>4. ASSUME NEW c \in CaseId PROVE HoldsOK(c)'
  <2>1. \A q \in case[c].from : q \in Request
    BY DEF ApartInv, WaitInv, GuiTypes, TypeOK, Case
  <2> QED BY <1>1, <1>2, <1>3, <2>1 DEF ApartInv, ApartOK, HoldsOK
<1>5. ASSUME NEW q \in Request PROVE MintsOK(q)'
  BY <1>1 DEF MintsOK
<1>6. ASSUME NEW t \in Tab PROVE OwnsOK(t)'
  <2>1. t = click[r].tab
    BY DEF OneTab, ApartInv, WaitInv, GuiTypes, SessionTypeOK, Click
  <2>2. PICK inv : inv = session[t].inv
    OBVIOUS
  <2>3. click[r].inv = inv /\ click[r].own = session[t].own
    BY <1>1, <2>1, <2>2 DEF ApartInv, WaitInv, SentBy
  <2>4. \/ session' = session
        \/ /\ session'[t].caseId = Adopted(t, r) /\ session'[t].inv = session[t].inv
           /\ session'[t].own = session[t].own
    BY <2>1, ReadEffect DEF ApartInv, WaitInv, NoResult, guiVars
  <2>5. ASSUME session'[t].own, session'[t].caseId # NoCase
        PROVE  Mine(session[t].caseId, session[t].inv)'
    <3>1. PICK c \in CaseId \cup {NoCase} : c = session'[t].caseId
      BY <2>4 DEF ApartInv, WaitInv, GuiTypes, TypeOK, SessionTypeOK, Session, Adopted, Req
    <3>2. Mine(c, inv)
      <4>1. CASE c = session[t].caseId
        BY <2>2, <2>4, <2>5, <3>1, <4>1 DEF ApartInv, ApartOK, OwnsOK
      <4>2. CASE c = req[r].case
        BY <1>1, <2>3, <2>4, <2>5, <3>1, <4>2 DEF ApartInv, ApartOK, MintsOK
      <4> QED BY <2>4, <3>1, <4>1, <4>2 DEF Adopted
    <3>3. Mine(c, inv)'
      BY <1>1, <3>2 DEF Mine
    <3> QED BY <2>2, <2>4, <3>1, <3>3 DEF Mine
  <2> QED BY <2>5 DEF OwnsOK
<1> QED BY <1>4, <1>5, <1>6 DEF ApartOK

LEMMA ApartStep ==
    ASSUME OneTab, ApartInv, [GuiNext]_allVars
    PROVE  ApartInv'
<1>1. WaitInv'
  BY WaitStep DEF ApartInv
<1>2. ASSUME UNCHANGED allVars PROVE ApartOK'
  BY <1>2 DEF allVars, guiVars, vars, ApartInv, ApartOK, HoldsOK, MintsOK, OwnsOK, Mine, Live
<1>3. ASSUME NEW t \in Tab, Acts(t) PROVE ApartOK'
  <2>1. ASSUME NEW new \in SUBSET File, NEW oneOff \in BOOLEAN, Analyse(t, new, oneOff) PROVE ApartOK'
    BY <2>1, ApartClick
  <2>2. ASSUME \/ StartNewCase(t) \/ ResetSession(t)
               \/ \E c \in CaseId : OpenCase(t, c) \/ SwitchCase(t, c) \/ DeleteCase(t, c)
        PROVE  ApartOK'
    BY <2>2, ApartTurn
  <2> QED BY <1>3, <2>1, <2>2 DEF Acts
<1>4. ASSUME NEW r \in Request, Works(r) PROVE ApartOK'
  BY <1>4, ApartServe, ApartRead DEF Works, Disconnect, OneTab
<1> QED BY <1>1, <1>2, <1>3, <1>4 DEF GuiNext, ApartInv

LEMMA ApartInit == GuiInit => ApartInv
<1> SUFFICES ASSUME GuiInit PROVE ApartInv
  OBVIOUS
<1>1. \A r \in Request : req[r] = Unused
  BY DEF GuiInit, Init
<1>2. \A c \in CaseId : case[c].from = {}
  BY DEF GuiInit, Init, Empty, Absent
<1>3. \A c \in CaseId : HoldsOK(c)
  BY <1>2, SessionAssumption DEF HoldsOK, Mine
<1>4. \A r \in Request : MintsOK(r)
  BY <1>1 DEF MintsOK, Live, Unused
<1>5. \A t \in Tab : OwnsOK(t)
  BY DEF GuiInit, OwnsOK, Fresh
<1> QED BY <1>3, <1>4, <1>5, WaitInit DEF ApartInv, ApartOK

\* For an analyst who waits for answers in one tab, whatever else he does and
\* whatever fails: a case minted for a session holds the uploads of one
\* investigation (the id is minted when the request comes in, app.py's
\* _mint_case_id, and adopted when the answer is read, index.html).
THEOREM InvestigationsApart == OneTab => (GuiSpec => []Apart)
<1> SUFFICES ASSUME OneTab PROVE GuiSpec => []Apart
  OBVIOUS
<1>1. ApartInv /\ [GuiNext]_allVars => ApartInv'
  BY ApartStep
<1>2. ApartInv => Apart
  <2>1. ASSUME ApartInv, NEW c \in CaseId, NEW q \in case[c].from, NEW r \in case[c].from,
               click[q].own, click[r].own
        PROVE  click[q].tab = click[r].tab /\ click[q].inv = click[r].inv
    <3>1. q \in Request /\ r \in Request
      BY <2>1 DEF ApartInv, WaitInv, GuiTypes, TypeOK, Case
    <3>2. click[q].tab = click[r].tab
      BY <2>1, <3>1 DEF OneTab, ApartInv, WaitInv, GuiTypes, SessionTypeOK, Click
    <3> QED BY <2>1, <3>2 DEF ApartInv, ApartOK, HoldsOK, Mine
  <2> QED BY <2>1 DEF Apart
<1> QED BY ApartInit, <1>1, <1>2, PTL DEF GuiSpec

-----------------------------------------------------------------------------
(* A file is offered once per case                                          *)

\* Nor does he pick a file again or meet a failure of a case.
Sparing ==
    /\ OneTab
    /\ "repick" \notin Does
    /\ Faults = FALSE

\* r's records of f are in its case, and its tab will hear so.
Stored(r, f) ==
    /\ Live(r) /\ InCase(r) /\ req[r].pc \in {"analyze", "report", "answered"}
    /\ req[r].answer # "error" /\ f \in FilesIn(req[r].built)

OfferOK(r) ==
    /\ req[r].pc # "unused" /\ req[r].oneOff => req[r].asked = NoCase
    /\ req[r].pc \notin {"unused", "sent"} /\ req[r].oneOff => req[r].case = NoCase
    /\ \A f \in File : req[r].built[f] \in {0, req[r].files[f]}
    /\ Live(r) /\ ~req[r].oneOff => \A f \in FilesIn(req[r].files) :
          req[r].files[f] = 1 /\ f \notin session[click[r].tab].ingested
    /\ Live(r) /\ InCase(r) /\ req[r].pc \in {"analyze", "report"} => case[req[r].case].exists

\* What c got since a session last forgot is known, or will be.
KnownOK(t, c) ==
    \A f \in File : case[c].copies[f] <= held[c][f] \/ f \in session[t].ingested \/ \E r \in Request : Stored(r, f)

OnceOK ==
    /\ \A r \in Request : OfferOK(r)
    /\ \A t \in Tab, f \in File : session[t].files[f] <= 1
    /\ OncePerCase
    /\ \A t \in Tab, c \in CaseId : KnownOK(t, c)
OnceInv == WaitInv /\ StreamInv /\ OnceOK

\* What serving a request does to what is known of it.
LEMMA OfferServe ==
    ASSUME Sparing, OnceInv, NEW r \in Request, Serve(r), UNCHANGED guiVars
    PROVE  /\ OfferOK(r)'
           /\ \A f : Stored(r, f) => Stored(r, f)'
           /\ Append(r) => \A f \in FilesIn(req[r].built) : Stored(r, f)'
<1>0. /\ req[r] \in Req /\ DOMAIN req = Request /\ ~req[r].gone /\ OfferOK(r) /\ Live(r)
      /\ req[r].pc \notin {"unused", "answered", "closed"}
      /\ req'[r].pc \notin {"unused", "sent", "closed"}
      /\ req'[r].asked = req[r].asked /\ req'[r].oneOff = req[r].oneOff
      /\ req'[r].files = req[r].files /\ req'[r].gone = req[r].gone
      /\ Receive(r) \/ (req'[r].case = req[r].case /\ req[r].pc # "sent")
      /\ Build(r) \/ req'[r].built = req[r].built
  BY ServeRequest DEF OnceInv, OnceOK, WaitInv, GuiTypes, TypeOK, SentBy, Live
<1>1. session' = session /\ click' = click
  BY DEF guiVars
<1>2. Live(r)'
  BY <1>0 DEF Live
<1>3. (req[r].pc \notin {"unused", "sent"} /\ req[r].oneOff => req[r].case = NoCase)'
  <2>1. CASE Receive(r)
    <3>1. PICK c \in CaseId \cup {NoCase} :
             /\ IF req[r].asked # NoCase THEN c = req[r].asked
                ELSE IF req[r].oneOff THEN c = NoCase ELSE c \in CaseId /\ IsFirstFree(c)
             /\ req' = [req EXCEPT ![r] = [@ EXCEPT !.pc = "build", !.case = c]]
      BY <2>1 DEF Receive
    <3>2. req'[r].case = c
      BY <1>0, <3>1 DEF Req
    <3> QED BY <1>0, <3>1, <3>2 DEF OfferOK
  <2> QED BY <1>0, <2>1 DEF OfferOK
<1>4. \A f \in File : req'[r].built[f] \in {0, req'[r].files[f]}
  <2>1. CASE Build(r)
    <3>1. PICK lost \in SUBSET (FilesIn(req[r].files) \cap Unreadable) :
             req' = [req EXCEPT ![r] = [@ EXCEPT
                    !.built = [f \in File |-> IF f \in lost THEN 0 ELSE req[r].files[f]],
                    !.pc = IF InCase(r) THEN "persist" ELSE "analyze"]]
      BY <2>1 DEF Build
    <3>2. req'[r].built = [f \in File |-> IF f \in lost THEN 0 ELSE req[r].files[f]]
      BY <1>0, <3>1 DEF Req
    <3> QED BY <1>0, <3>2
  <2> QED BY <1>0, <2>1 DEF OfferOK
<1>a. req[r].answer = "none" /\ (req[r].pc \in {"persist", "create", "append"} => InCase(r))
  BY <1>0 DEF OnceInv, StreamInv, ServedOK, Req
<1>5. /\ InCase(r)' /\ req'[r].pc \in {"analyze", "report"} => case'[req'[r].case].exists
      /\ \A f : Stored(r, f) => Stored(r, f)'
      /\ Append(r) => InCase(r)' /\ req'[r].pc = "analyze" /\ req'[r].answer # "error"
  <2> USE DEF At
  <2>1. CASE Receive(r)
    <3>1. PICK c : req' = [req EXCEPT ![r] = [@ EXCEPT !.pc = "build", !.case = c]]
      BY <2>1 DEF Receive
    <3> QED BY <1>0, <2>1, <3>1 DEF Receive, Req, OfferOK, Stored, Append
  <2>2. CASE Refuse(r) \/ BuildFails(r) \/ AnalyzeFails(r)
    <3>1. Answer(r, "error") /\ req[r].pc = "build"
      BY <1>0, <2>2 DEF Refuse, BuildFails, AnalyzeFails, Sparing, OfferOK
    <3> QED BY <1>0, <3>1 DEF Answer, Req, Stored, Append
  <2>3. CASE Build(r)
    <3>1. PICK built, step :
            /\ req' = [req EXCEPT ![r] = [@ EXCEPT !.built = built, !.pc = step]]
            /\ step = (IF InCase(r) THEN "persist" ELSE "analyze") /\ req[r].pc = "build"
      BY <2>3 DEF Build
    <3>2. req'[r].pc = step /\ req'[r].answer = req[r].answer /\ InCase(r)' = InCase(r)
      BY <1>0, <3>1 DEF Req, InCase
    <3> QED BY <1>0, <1>a, <3>1, <3>2 DEF OfferOK, Stored, Append
  <2>4. CASE Persist(r) \/ Create(r)
    <3>1. PICK step : Goto(r, step) /\ step \in {"create", "append"} /\ req[r].pc \in {"persist", "create"}
      BY <2>4 DEF Persist, Create
    <3>2. req'[r].pc = step /\ req'[r].answer = req[r].answer
      BY <1>0, <3>1 DEF Goto, Req
    <3> QED BY <1>0, <1>a, <3>1, <3>2 DEF OfferOK, Stored, Append
  <2>5. CASE CreateRefused(r) \/ AppendRefused(r) \/ AppendFails(r)
    <3>1. Persisted(r, TRUE) /\ req[r].pc \in {"create", "append"}
      BY <2>5 DEF CreateRefused, AppendRefused, AppendFails, Degrade
    <3>2. req'[r].error = TRUE /\ req'[r].answer = req[r].answer
      BY <1>0, <3>1 DEF Persisted, Req
    <3>3. ~Append(r)
      <4>1. CASE AppendRefused(r)
        BY <4>1 DEF AppendRefused, Append
      <4>2. CASE CreateRefused(r)
        BY <4>2 DEF CreateRefused, Append
      <4> QED BY <2>5, <4>1, <4>2 DEF AppendFails, Sparing
    <3> QED BY <1>0, <3>1, <3>2, <3>3 DEF OfferOK, Stored, InCase
  <2>6. CASE Append(r)
    <3>1. /\ Persisted(r, FALSE) /\ req[r].pc = "append"
          /\ case[req[r].case].exists
          /\ case' = [case EXCEPT ![req[r].case] = StoredIn(@, r)]
      BY <2>6 DEF Append
    <3>2. req'[r].pc = "analyze" /\ req'[r].answer = req[r].answer /\ req'[r].error = FALSE
          /\ req'[r].case = req[r].case
      BY <1>0, <3>1 DEF Persisted, Req
    <3>3. req[r].case \in CaseId /\ req[r].case # NoCase
      BY <1>0, <1>a, <3>1 DEF Req, InCase
    <3>4. case'[req[r].case].exists
      BY <3>1, <3>3 DEF StoredIn, OnceInv, WaitInv, GuiTypes, TypeOK, Case
    <3> QED BY <1>0, <1>a, <3>1, <3>2, <3>3, <3>4 DEF OfferOK, Stored, InCase
  <2>7. CASE Analyze(r)
    <3>1. PICK seen : req' = [req EXCEPT ![r] = [@ EXCEPT !.pc = "report", !.seen = seen]]
      BY <2>7 DEF Analyze
    <3>2. req[r].pc = "analyze" /\ (InCase(r) => case[req[r].case].exists) /\ case' = case
      BY <2>7 DEF Analyze
    <3>3. req'[r].pc = "report" /\ req'[r].answer = req[r].answer /\ req'[r].error = req[r].error
          /\ req'[r].case = req[r].case /\ req'[r].built = req[r].built
      BY <1>0, <3>1 DEF Req
    <3>4. InCase(r)' = InCase(r)
      BY <3>3 DEF InCase
    <3> QED BY <1>0, <1>2, <1>a, <3>2, <3>3, <3>4 DEF OfferOK, Stored, Append
  <2>8. CASE Report(r)
    <3>1. Answer(r, "complete") /\ req[r].pc = "report"
      BY <2>8 DEF Report
    <3>2. req'[r].pc = "answered" /\ req'[r].answer = "complete" /\ req'[r].error = req[r].error
          /\ req'[r].case = req[r].case /\ req'[r].built = req[r].built
      BY <1>0, <3>1 DEF Answer, Req
    <3>3. InCase(r)' = InCase(r)
      BY <3>2 DEF InCase
    <3> QED BY <1>0, <1>2, <1>a, <3>1, <3>2, <3>3 DEF Stored, Append
  <2> QED BY <2>1, <2>2, <2>3, <2>4, <2>5, <2>6, <2>7, <2>8 DEF Serve
<1>6. OfferOK(r)'
  <2>1. \A f \in FilesIn(req[r].files) : ~req[r].oneOff =>
          req[r].files[f] = 1 /\ f \notin session[click[r].tab].ingested
    BY <1>0 DEF OfferOK
  <2>2. FilesIn(req'[r].files) = FilesIn(req[r].files)
    BY <1>0
  <2> QED BY <1>0, <1>1, <1>2, <1>3, <1>4, <1>5, <2>1, <2>2 DEF OfferOK
<1>7. Append(r) => req'[r].built = req[r].built
  BY <1>0 DEF Append, Build, At
<1> QED BY <1>2, <1>5, <1>6, <1>7 DEF Stored

\* And to the cases: a file that is stored was in none of them.
LEMMA OnceServe ==
    ASSUME Sparing, OnceInv, NEW r \in Request, Serve(r), UNCHANGED guiVars
    PROVE  OnceOK'
<1>0. /\ req[r] \in Req /\ case \in [CaseId -> Case] /\ OfferOK(r) /\ Live(r)
      /\ \A q \in Request \ {r} : req'[q] = req[q] /\ ~Live(q) /\ ~Live(q)'
      /\ Receive(r) \/ req'[r].case = req[r].case
      /\ session' = session /\ click' = click /\ held' = held /\ held \in [CaseId -> [File -> Nat]]
  BY ServeRequest DEF OnceInv, OnceOK, WaitInv, GuiTypes, TypeOK, SessionTypeOK, SentBy, Live, guiVars
<1>1. /\ OfferOK(r)'
      /\ \A f : Stored(r, f) => Stored(r, f)'
      /\ Append(r) => \A f \in FilesIn(req[r].built) : Stored(r, f)'
  BY OfferServe
<1>2. ASSUME NEW q \in Request \ {r} PROVE OfferOK(q)'
  BY <1>0 DEF OnceInv, OnceOK, OfferOK
<1>3. \A q \in Request, f \in File : Stored(q, f) => q = r
  BY <1>0 DEF Stored
<1>4. ASSUME NEW c \in CaseId
      PROVE  \/ case'[c].copies = case[c].copies
             \/ case'[c].copies = Nothing
             \/ c = req[r].case /\ Append(r) /\ case'[c].copies = With(case[c].copies, req[r].built)
  <2>1. StoredIn(case[c], r).copies = With(case[c].copies, req[r].built)
    BY <1>0 DEF StoredIn, Case
  <2>2. Empty.copies = Nothing
    BY DEF Empty, Absent
  <2> QED BY <2>1, <2>2, ServeCases DEF Sparing, AppendFails, OnceInv, StreamInv
<1>5. ASSUME NEW c \in CaseId, NEW t \in Tab, NEW f \in File, c = req[r].case, Append(r),
             req[r].built[f] > 0
      PROVE  req[r].built[f] = 1 /\ case[c].copies[f] <= held[c][f]
  <2>1. c # NoCase /\ req[r].pc = "append" /\ t = click[r].tab
    BY <1>5, ValueTypes DEF Append, At, Sparing, OneTab, OnceInv, WaitInv, GuiTypes, SessionTypeOK, Click
  <2>2. ~req[r].oneOff
    BY <1>0, <1>5, <2>1 DEF OfferOK
  <2>3. req[r].files \in [File -> Nat] /\ req[r].built \in [File -> Nat]
    BY <1>0, ValueTypes DEF Req
  <2>4. req[r].built[f] = req[r].files[f] /\ f \in FilesIn(req[r].files)
    BY <1>0, <1>5, <2>3 DEF OfferOK, FilesIn
  <2>5. req[r].files[f] = 1 /\ f \notin session[t].ingested
    BY <1>0, <2>1, <2>2, <2>4 DEF OfferOK
  <2>6. ~Stored(r, f)
    BY <2>1 DEF Stored
  <2>7. case[c].copies[f] <= held[c][f]
    BY <1>3, <2>5, <2>6 DEF OnceInv, OnceOK, KnownOK
  <2> QED BY <2>4, <2>5, <2>7
<1>6. PICK t \in Tab : t = click[r].tab
  BY DEF OnceInv, WaitInv, GuiTypes, SessionTypeOK, Click
<1>7. ASSUME NEW c \in CaseId, NEW f \in File PROVE case'[c].copies[f] <= held'[c][f] + 1
  <2>1. /\ case[c].copies \in [File -> Nat] /\ req[r].built \in [File -> Nat]
        /\ case[c].copies[f] <= held[c][f] + 1 /\ held[c][f] \in Nat /\ held' = held
    BY <1>0, ValueTypes DEF Case, Req, OnceInv, OnceOK, OncePerCase
  <2>2. CASE c = req[r].case /\ Append(r) /\ case'[c].copies = With(case[c].copies, req[r].built)
    <3>1. case'[c].copies[f] = case[c].copies[f] + req[r].built[f]
      BY <2>2 DEF With
    <3> QED BY <1>5, <2>1, <2>2, <3>1
  <2> QED BY <1>4, <2>1, <2>2 DEF Nothing
<1>8. ASSUME NEW v \in Tab, NEW c \in CaseId PROVE KnownOK(v, c)'
  <2>1. ASSUME NEW f \in File, ~(case'[c].copies[f] <= held'[c][f])
        PROVE  f \in session'[v].ingested \/ \E q \in Request : Stored(q, f)'
    <3>0. /\ case[c].copies \in [File -> Nat] /\ req[r].built \in [File -> Nat]
          /\ held[c][f] \in Nat /\ held' = held
      BY <1>0, ValueTypes DEF Case, Req
    <3>1. CASE ~(case[c].copies[f] <= held[c][f])
      BY <1>0, <1>1, <1>3, <3>1 DEF OnceInv, OnceOK, KnownOK
    <3>2. CASE case[c].copies[f] <= held[c][f]
      <4>1. Nothing[f] = 0
        BY DEF Nothing
      <4>2. case'[c].copies # case[c].copies /\ case'[c].copies # Nothing
        BY <2>1, <3>0, <3>2, <4>1
      <4>3. Append(r) /\ case'[c].copies = With(case[c].copies, req[r].built)
        BY <1>4, <4>2
      <4>4. With(case[c].copies, req[r].built)[f] = case[c].copies[f] + req[r].built[f]
        BY DEF With
      <4>5. Append(r) /\ case'[c].copies[f] = case[c].copies[f] + req[r].built[f]
        BY <4>3, <4>4
      <4>6. f \in FilesIn(req[r].built)
        BY <2>1, <3>0, <3>2, <4>5 DEF FilesIn
      <4> QED BY <1>1, <4>5, <4>6
    <3> QED BY <3>1, <3>2
  <2> QED BY <2>1 DEF KnownOK
<1>9. \A q \in Request : OfferOK(q)'
  BY <1>1, <1>2
<1> QED BY <1>0, <1>7, <1>8, <1>9 DEF OnceInv, OnceOK, OncePerCase

\* A click on Analyze offers files no case has, once each.
LEMMA OnceClick ==
    ASSUME Sparing, OnceInv, NEW t \in Tab, NEW new \in SUBSET File, NEW oneOff \in BOOLEAN,
           Analyse(t, new, oneOff)
    PROVE  OnceOK'
<1>1. /\ \A q \in Request : ~Live(q)
      /\ UNCHANGED <<case, held>>
      /\ session'[t] = [session[t] EXCEPT !.files = Picked(session[t].files, new)]
      /\ UNCHANGED <<req, click>> \/ \E r \in Request : Sends(t, r, oneOff)
  BY ClickEffect DEF OnceInv, WaitInv, Sparing, Analyse
<1>2. session[t] \in Session /\ \A v \in Tab : v = t
  BY DEF OnceInv, WaitInv, GuiTypes, SessionTypeOK, Sparing, OneTab
<1>3. session'[t].ingested = session[t].ingested /\ session'[t].files = Picked(session[t].files, new)
  BY <1>1, <1>2 DEF Session
<1>4. ASSUME NEW f \in File PROVE session'[t].files[f] \in Nat /\ session'[t].files[f] <= 1
  <2>1. session[t].files[f] \in Nat /\ session[t].files[f] <= 1
    BY <1>2, ValueTypes DEF Session, OnceInv, OnceOK
  <2>2. new \cap FilesIn(session[t].files) = {}
    BY DEF Analyse, Sparing
  <2>3. f \in new => session[t].files[f] = 0
    BY <2>1, <2>2 DEF FilesIn
  <2> QED BY <1>3, <2>1, <2>3 DEF Picked
<1>5. ASSUME NEW v \in Tab, NEW c \in CaseId PROVE KnownOK(v, c)'
  BY <1>1, <1>2, <1>3 DEF OnceInv, OnceOK, KnownOK, Stored
<1>6. ASSUME NEW q \in Request, req'[q] = req[q], click'[q] = click[q] PROVE OfferOK(q)'
  BY <1>1, <1>6 DEF OnceInv, OnceOK, OfferOK, Live
<1>7. ASSUME NEW r \in Request, Sends(t, r, oneOff) PROVE OfferOK(r)'
  <2>1. /\ req'[r].pc = "sent" /\ req'[r].oneOff = oneOff /\ req'[r].built = Nothing
        /\ req'[r].asked = (IF oneOff THEN NoCase ELSE session[t].caseId)
        /\ req'[r].files = IF oneOff THEN session'[t].files
                           ELSE PendingFiles(session'[t].files, session[t].ingested)
        /\ click'[r].tab = t
    BY <1>7 DEF Sends, Unused
  <2>2. ASSUME ~oneOff, NEW f \in FilesIn(req'[r].files)
        PROVE  req'[r].files[f] = 1 /\ f \notin session'[t].ingested
    <3>1. f \in File /\ req'[r].files[f] > 0
      BY <2>2 DEF FilesIn
    <3>2. req'[r].files[f] = IF f \in session[t].ingested THEN 0 ELSE session'[t].files[f]
      BY <2>1, <2>2, <3>1 DEF PendingFiles
    <3> QED BY <1>3, <1>4, <3>1, <3>2
  <2> QED BY <2>1, <2>2 DEF OfferOK, Nothing
<1>8. \A q \in Request : OfferOK(q)'
  <2>1. CASE UNCHANGED <<req, click>>
    BY <1>6, <2>1
  <2>2. ASSUME NEW r \in Request, Sends(t, r, oneOff) PROVE \A q \in Request : OfferOK(q)'
    <3>1. \A q \in Request \ {r} : req'[q] = req[q] /\ click'[q] = click[q]
      BY <2>2 DEF Sends
    <3> QED BY <1>6, <1>7, <2>2, <3>1
  <2> QED BY <1>1, <2>1, <2>2
<1> QED BY <1>1, <1>2, <1>4, <1>5, <1>8 DEF OnceInv, OnceOK, OncePerCase

\* Turning to another case forgets no file, or is taken down as doing so.
LEMMA OnceTurn ==
    ASSUME Sparing, OnceInv, NEW t \in Tab,
           \/ StartNewCase(t) \/ ResetSession(t)
           \/ \E c \in CaseId : OpenCase(t, c) \/ SwitchCase(t, c) \/ DeleteCase(t, c)
    PROVE  OnceOK'
<1>1. (\A q \in Request : ~Live(q)) /\ UNCHANGED <<req, click>>
  BY TurnEffect DEF OnceInv, WaitInv, Sparing
<1>2. session[t] \in Session /\ DOMAIN session = Tab /\ \A v \in Tab : v = t
  BY DEF OnceInv, WaitInv, GuiTypes, SessionTypeOK, Sparing, OneTab
<1>3. ASSUME NEW c \in CaseId
      PROVE  \/ case'[c].copies = case[c].copies /\ held'[c] = held[c] /\ session'[t].ingested = session[t].ingested
             \/ \A f \in File : case'[c].copies[f] = held'[c][f]
  <2>t. /\ case[c] \in Case /\ held \in [CaseId -> [File -> Nat]]
        /\ \A d \in CaseId : DOMAIN held = CaseId /\ DOMAIN case = CaseId
    BY DEF OnceInv, StreamInv, TypeOK, WaitInv, GuiTypes, SessionTypeOK
  <2>1. CASE StartNewCase(t)
    BY <1>2, <2>1 DEF StartNewCase, Session, vars
  <2>2. ASSUME NEW d \in CaseId, SwitchCase(t, d)
        PROVE  case' = case /\ held' = held /\ session'[t].ingested = session[t].ingested
    <3>1. session' = [session EXCEPT ![t] = [session[t] EXCEPT !.caseId = d, !.own = FALSE]]
      BY <1>2, <2>2 DEF SwitchCase
    <3> QED BY <1>2, <2>2, <3>1 DEF SwitchCase, Session, vars
  <2>3. ASSUME Forget, UNCHANGED vars PROVE \A f \in File : case'[c].copies[f] = held'[c][f]
    BY <2>3 DEF Forget, vars
  <2>4. ASSUME NEW d \in CaseId, OpenCase(t, d), session[t].caseId = d
        PROVE  case' = case /\ held' = held /\ session'[t].ingested = session[t].ingested
    BY <1>2, <2>4 DEF OpenCase, Session, vars
  <2>5. ASSUME NEW d \in CaseId, DeleteCase(t, d), c # d
        PROVE  case'[c] = case[c] /\ held'[c] = held[c] /\ session'[t].ingested = session[t].ingested
    <3>1. case' = [case EXCEPT ![d] = Absent] /\ held' = [held EXCEPT ![d] = Nothing]
      BY <2>5 DEF DeleteCase, Delete
    <3>2. session'[t].ingested = session[t].ingested
      BY <1>2, <2>5 DEF DeleteCase, Session
    <3> QED BY <2>5, <2>t, <3>1, <3>2
  <2>6. ASSUME DeleteCase(t, c) PROVE \A f \in File : case'[c].copies[f] = held'[c][f]
    <3>1. case' = [case EXCEPT ![c] = Absent] /\ held' = [held EXCEPT ![c] = Nothing]
      BY <2>6 DEF DeleteCase, Delete
    <3>2. case'[c].copies = Nothing /\ held'[c] = Nothing
      BY <2>t, <3>1 DEF Absent
    <3> QED BY <3>2
  <2>7. CASE ResetSession(t)
    BY <2>3, <2>7 DEF ResetSession
  <2>8. ASSUME NEW d \in CaseId, OpenCase(t, d) \/ SwitchCase(t, d) \/ DeleteCase(t, d)
        PROVE  \/ case'[c].copies = case[c].copies /\ held'[c] = held[c] /\ session'[t].ingested = session[t].ingested
               \/ \A f \in File : case'[c].copies[f] = held'[c][f]
    <3>1. CASE OpenCase(t, d)
      <4>1. CASE session[t].caseId = d
        BY <2>4, <3>1, <4>1
      <4>2. CASE session[t].caseId # d
        BY <2>3, <3>1, <4>2 DEF OpenCase
      <4> QED BY <4>1, <4>2
    <3>2. CASE SwitchCase(t, d)
      BY <2>2, <3>2
    <3>3. CASE DeleteCase(t, d)
      BY <2>5, <2>6, <3>3
    <3> QED BY <2>8, <3>1, <3>2, <3>3
  <2> QED BY <2>1, <2>7, <2>8
<1>4. session'[t].files = session[t].files \/ session'[t].files = Nothing
  <2>1. CASE StartNewCase(t)
    BY <1>2, <2>1 DEF StartNewCase, Session
  <2>2. ASSUME NEW c \in CaseId, SwitchCase(t, c) PROVE session'[t].files = session[t].files
    <3>1. session' = [session EXCEPT ![t] = [session[t] EXCEPT !.caseId = c, !.own = FALSE]]
      BY <1>2, <2>2 DEF SwitchCase
    <3> QED BY <1>2, <3>1 DEF Session
  <2>3. ASSUME NEW c \in CaseId, DeleteCase(t, c) PROVE session'[t].files = session[t].files
    BY <1>2, <2>3 DEF DeleteCase, Session
  <2>4. ASSUME NEW c \in CaseId, OpenCase(t, c) PROVE session'[t].files = session[t].files
    BY <1>2, <2>4 DEF OpenCase, Session
  <2>5. CASE ResetSession(t)
    BY <1>2, <2>5 DEF ResetSession, Fresh
  <2> QED BY <2>1, <2>2, <2>3, <2>4, <2>5
<1>5. ASSUME NEW q \in Request PROVE OfferOK(q)'
  BY <1>1 DEF OnceInv, OnceOK, OfferOK, Live
<1>t. held' \in [CaseId -> [File -> Nat]]
  BY OtherDeeds DEF OnceInv, WaitInv, SessionTypeOK
<1>6. ASSUME NEW c \in CaseId, NEW v \in Tab PROVE KnownOK(v, c)'
  <2>1. ASSUME NEW f \in File PROVE case'[c].copies[f] <= held'[c][f] \/ f \in session'[t].ingested
    <3>1. case[c].copies[f] <= held[c][f] \/ f \in session[t].ingested
      BY <1>1 DEF OnceInv, OnceOK, KnownOK, Stored
    <3>2. held'[c][f] \in Nat
      BY <1>t
    <3> QED BY <1>3, <3>1, <3>2
  <2> QED BY <1>2, <2>1 DEF KnownOK
<1>7. ASSUME NEW c \in CaseId, NEW f \in File PROVE case'[c].copies[f] <= held'[c][f] + 1
  <2>1. case[c].copies[f] <= held[c][f] + 1
    BY DEF OnceInv, OnceOK, OncePerCase
  <2>2. held'[c][f] \in Nat
    BY <1>t
  <2> QED BY <1>3, <2>1, <2>2
<1> QED BY <1>2, <1>4, <1>5, <1>6, <1>7 DEF OnceInv, OnceOK, OncePerCase, Nothing

\* An answer that is read says which files are stored.
LEMMA OnceRead ==
    ASSUME Sparing, OnceInv, NEW r \in Request, ReadResult(r) \/ NoResult(r)
    PROVE  OnceOK'
<1>1. /\ req[r].pc = "answered" /\ Live(r) /\ \A q \in Request : ~Live(q)'
      /\ \A q \in Request \ {r} : req'[q] = req[q]
      /\ req'[r] = [req[r] EXCEPT !.pc = "closed"]
      /\ UNCHANGED <<case, click, held>>
  BY CloseEffect DEF OnceInv, Sparing, ReadResult, NoResult, guiVars
<1>2. req[r] \in Req
  BY DEF OnceInv, StreamInv, TypeOK
<1>3. \A t \in Tab : t = click[r].tab
  BY DEF Sparing, OneTab, OnceInv, WaitInv, GuiTypes, SessionTypeOK, Click
<1>4. ASSUME NEW t \in Tab
      PROVE  /\ session'[t].files = session[t].files
             /\ session[t].ingested \subseteq session'[t].ingested
             /\ \A f \in File : Stored(r, f) => f \in session'[t].ingested
  <2>1. CASE ReadResult(r)
    <3>1. /\ session'[t].ingested = session[t].ingested \cup Landed(r)
          /\ session'[t].files = session[t].files
      BY <1>3, <2>1, ReadEffect DEF OnceInv, WaitInv
    <3>2. ASSUME NEW f \in File, Stored(r, f) PROVE f \in Landed(r)
      <4>1. InCase(r) /\ req[r].built[f] > 0
        BY <3>2 DEF Stored, FilesIn
      <4>2. req[r].built[f] \in {0, req[r].files[f]}
        BY DEF OnceInv, OnceOK, OfferOK
      <4> QED BY <4>1, <4>2 DEF Landed, FilesIn
    <3> QED BY <3>1, <3>2
  <2>2. CASE NoResult(r)
    BY <2>2 DEF NoResult, Stored, Sparing, OneTab, guiVars
  <2> QED BY <2>1, <2>2
<1>5. ASSUME NEW q \in Request PROVE OfferOK(q)'
  <2>1. CASE q # r
    BY <1>1, <2>1 DEF OnceInv, OnceOK, OfferOK
  <2>2. /\ req'[r].pc = "closed" /\ req'[r].oneOff = req[r].oneOff /\ req'[r].asked = req[r].asked
        /\ req'[r].case = req[r].case /\ req'[r].built = req[r].built /\ req'[r].files = req[r].files
    BY <1>1, <1>2 DEF Req
  <2>3. OfferOK(r)'
    BY <1>1, <2>2 DEF OnceInv, OnceOK, OfferOK
  <2> QED BY <2>1, <2>3
<1>6. \A q \in Request, f \in File : Stored(q, f) => q = r
  BY <1>1 DEF OnceInv, WaitInv, SentBy, Stored
<1>7. ASSUME NEW t \in Tab, NEW c \in CaseId PROVE KnownOK(t, c)'
  <2>1. ASSUME NEW f \in File, ~(case[c].copies[f] <= held[c][f]) PROVE f \in session'[t].ingested
    <3>1. f \in session[t].ingested \/ \E q \in Request : Stored(q, f)
      BY <2>1 DEF OnceInv, OnceOK, KnownOK
    <3> QED BY <1>4, <1>6, <3>1
  <2> QED BY <1>1, <2>1 DEF KnownOK
<1> QED BY <1>1, <1>4, <1>5, <1>7 DEF OnceInv, OnceOK, OncePerCase

LEMMA OnceStep ==
    ASSUME Sparing, OnceInv, [GuiNext]_allVars
    PROVE  OnceInv'
<1>1. WaitInv' /\ StreamInv'
  BY WaitStep, GuiStep, InvStep DEF OnceInv, WaitInv, Sparing
<1>2. ASSUME UNCHANGED allVars PROVE OnceOK'
  BY <1>2 DEF allVars, guiVars, vars, OnceInv, OnceOK, OncePerCase, OfferOK, KnownOK, Stored, InCase, Live, FilesIn
<1>3. ASSUME NEW t \in Tab, Acts(t) PROVE OnceOK'
  <2>1. ASSUME NEW new \in SUBSET File, NEW oneOff \in BOOLEAN, Analyse(t, new, oneOff) PROVE OnceOK'
    BY <2>1, OnceClick
  <2>2. ASSUME \/ StartNewCase(t) \/ ResetSession(t)
               \/ \E c \in CaseId : OpenCase(t, c) \/ SwitchCase(t, c) \/ DeleteCase(t, c)
        PROVE  OnceOK'
    BY <2>2, OnceTurn
  <2> QED BY <1>3, <2>1, <2>2 DEF Acts
<1>4. ASSUME NEW r \in Request, Works(r) PROVE OnceOK'
  BY <1>4, OnceServe, OnceRead DEF Works, Disconnect, OneTab, Sparing
<1> QED BY <1>1, <1>2, <1>3, <1>4 DEF GuiNext, OnceInv

LEMMA OnceInit == GuiInit => OnceInv
<1> SUFFICES ASSUME GuiInit PROVE OnceInv
  OBVIOUS
<1>1. WaitInv /\ StreamInv
  BY WaitInit, InitInv DEF GuiInit
<1>2. \A r \in Request : req[r] = Unused
  BY DEF GuiInit, Init
<1>3. \A c \in CaseId : case[c].copies = Nothing
  BY DEF GuiInit, Init, Empty, Absent
<1>4. \A r \in Request : OfferOK(r)
  BY <1>2 DEF OfferOK, Live, Unused, Nothing
<1>5. \A t \in Tab, f \in File : session[t].files[f] <= 1
  BY DEF GuiInit, Fresh, Nothing
<1>6. \A c \in CaseId, f \in File : case[c].copies[f] = 0 /\ held[c][f] = 0
  BY <1>3 DEF GuiInit, Nothing
<1>7. \A t \in Tab, c \in CaseId : KnownOK(t, c)
  BY <1>6 DEF KnownOK
<1> QED BY <1>1, <1>4, <1>5, <1>6, <1>7 DEF OnceInv, OnceOK, OncePerCase

\* For an analyst who waits in one tab and takes each file once, while the
\* cases' files can be read and written: whichever cases he starts, continues,
\* opens and deletes, no case stores a file a second time before the session
\* forgets what it has ingested (pendingFiles of lib.js, and the ingested set of
\* index.html, which follows what the server says it persisted).
THEOREM FilesOnce == Sparing => (GuiSpec => []OncePerCase)
<1> SUFFICES ASSUME Sparing PROVE GuiSpec => []OncePerCase
  OBVIOUS
<1>1. OnceInv /\ [GuiNext]_allVars => OnceInv'
  BY OnceStep
<1>2. OnceInv => OncePerCase
  BY DEF OnceInv, OnceOK
<1> QED BY OnceInit, <1>1, <1>2, PTL DEF GuiSpec

=============================================================================
