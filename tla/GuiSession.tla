------------------------------ MODULE GuiSession ------------------------------
(***************************************************************************)
(* The browser's side of the analysis requests (gui/static/index.html): a  *)
(* tab's session accumulates the files the analyst picks, remembers the    *)
(* case they go into and which of them that case has ingested, and sends   *)
(* the rest with every Analyze click.  Each source view has an Analyze     *)
(* button of its own, so several requests of a tab may be in flight, and   *)
(* an answer is applied to whatever the session is by then.                *)
(***************************************************************************)
EXTENDS AnalyzeStream

CONSTANTS
    Tab,        \* browser tabs
    Does,       \* what the analyst does besides picking files and analyzing
    MaxInv      \* bound: investigations a tab turns to, one after another

Deed == {"one-off", "repick", "new case", "new session", "open", "switch",
         "delete", "overlap", "turn away"}

ASSUME SessionAssumption == Does \subseteq Deed /\ MaxInv \in Nat \ {0}

VARIABLES
    session,    \* the session object of each tab
    click,      \* history: the tab and investigation behind each request
    held        \* history: how often each case held each file when a session
                \* last forgot what it had ingested

guiVars == <<session, click, held>>
allVars == <<vars, guiVars>>

\* files: how often each was picked; ingested: the keys of those that the
\* case caseId is taken to hold; inv: history, the investigation the analyst
\* is at; own: history, whether the case is the session's to mint (the
\* analyst has chosen none).
Session == [files : Upload, ingested : SUBSET File, caseId : CaseId \cup {NoCase},
            inv : 1..MaxInv, own : BOOLEAN]

\* Mutant: an id that is no case's stands for none.
FreshWithId ==
    [files |-> Nothing, ingested |-> {}, caseId |-> MaxCases + 1, inv |-> 1, own |-> TRUE]

Fresh == [files |-> Nothing, ingested |-> {}, caseId |-> NoCase, inv |-> 1, own |-> TRUE]

Click == [tab : Tab, inv : 1..MaxInv, own : BOOLEAN]

SessionTypeOK ==
    /\ session \in [Tab -> Session]
    /\ click \in [Request -> Click]
    /\ held \in [CaseId -> [File -> Nat]]

\* The tab waits for an answer.
Busy(t) ==
    \E r \in Request : click[r].tab = t /\ ~req[r].gone /\ req[r].pc \notin {"unused", "closed"}

\* A patient analyst touches nothing while the tab waits; nothing in the
\* page makes the others wait.
MayAnalyse(t) == "overlap" \in Does \/ ~Busy(t)
MayTurn(t)    == "turn away" \in Does \/ ~Busy(t)

-----------------------------------------------------------------------------
(* The analyst                                                              *)

\* Mutant: every file the session holds, ingested or not.
AllFiles(files, ingested) == files

\* lib.js pendingFiles: the files whose key is not ingested, every pick of
\* them.
PendingFiles(files, ingested) == [f \in File |-> IF f \in ingested THEN 0 ELSE files[f]]

Picked(files, new) == [f \in File |-> IF f \in new THEN files[f] + 1 ELSE files[f]]

\* An Analyze button: the files picked join the session's, and what is
\* pending is sent, or all of them for a one-off look.
Analyse(t, new, oneOff) ==
    LET files == Picked(session[t].files, new)
        upload == IF oneOff THEN files ELSE PendingFiles(files, session[t].ingested)
        asked == IF oneOff THEN NoCase ELSE session[t].caseId
    IN  /\ MayAnalyse(t)
        /\ "repick" \notin Does => new \cap FilesIn(session[t].files) = {}
        /\ oneOff => "one-off" \in Does
        /\ files \in Upload /\ FilesIn(files) # {}
        /\ session' = [session EXCEPT ![t].files = files]
        /\ UNCHANGED held
        /\ IF FilesIn(upload) = {} THEN UNCHANGED <<vars, click>>
           ELSE \E r \in Request :
                  /\ Post(r, asked, upload, oneOff)
                  /\ click' = [click EXCEPT ![r] =
                       [tab |-> t, inv |-> session[t].inv, own |-> session[t].own]]

\* The analyst turns to another investigation.
Turns(t) == MayTurn(t) /\ session[t].inv < MaxInv

\* "start a new case": forgets the case's id.
StartNewCase(t) ==
    /\ "new case" \in Does /\ Turns(t) /\ session[t].caseId # NoCase
    /\ session' = [session EXCEPT ![t] = [session[t] EXCEPT
                      !.caseId = NoCase,
                      !.inv = @ + 1,
                      !.own = TRUE]]
    /\ UNCHANGED <<vars, click, held>>

\* The session forgets what it ingested: held keeps what the cases hold now.
Forget == held' = [c \in CaseId |-> case[c].copies]

\* resetSession, or loading the page again.
ResetSession(t) ==
    /\ "new session" \in Does /\ Turns(t)
    /\ session' = [session EXCEPT ![t] = [Fresh EXCEPT !.inv = session[t].inv + 1]]
    /\ Forget
    /\ UNCHANGED <<vars, click>>

\* openCase: a case of the list, and what this session ingested is unknown
\* unless it was the current one.
OpenCase(t, c) ==
    /\ "open" \in Does /\ MayTurn(t) /\ case[c].exists
    /\ session' = [session EXCEPT ![t] = [session[t] EXCEPT
                      !.ingested = IF session[t].caseId = c THEN @ ELSE {},
                      !.caseId = c,
                      !.own = FALSE]]
    /\ IF session[t].caseId = c THEN UNCHANGED held ELSE Forget
    /\ UNCHANGED <<vars, click>>

\* "continue this case".
SwitchCase(t, c) ==
    /\ "switch" \in Does /\ MayTurn(t) /\ case[c].exists
    /\ session' = [session EXCEPT ![t] = [@ EXCEPT !.caseId = c, !.own = FALSE]]
    /\ UNCHANGED <<vars, click, held>>

\* deleteCase: the case bar stops naming it.
DeleteCase(t, c) ==
    /\ "delete" \in Does /\ MayTurn(t) /\ Delete(c)
    /\ IF session[t].caseId = c
       THEN /\ session[t].inv < MaxInv
            /\ session' = [session EXCEPT ![t] = [session[t] EXCEPT
                              !.caseId = NoCase,
                              !.inv = @ + 1,
                              !.own = TRUE]]
       ELSE UNCHANGED session
    /\ held' = [held EXCEPT ![c] = Nothing]
    /\ UNCHANGED click

-----------------------------------------------------------------------------
(* runAnalysis, when its answer is in                                       *)

\* The case the session accumulates into from now on.
Adopted(t, r) == IF req[r].case = NoCase THEN session[t].caseId ELSE req[r].case

\* Mutant: files sent count as ingested whatever became of them.
AllSent(r) == FilesIn(req[r].files)

\* The files sent are ingested if they were persisted.
Landed(r) == IF InCase(r) THEN FilesIn(req[r].files) ELSE {}

IsComplete(r) == At(r, "answered") /\ req[r].answer = "complete"

ReadResult(r) ==
    LET t == click[r].tab IN
    /\ IsComplete(r)
    /\ Close(r)
    /\ session' = [session EXCEPT ![t] = [session[t] EXCEPT
                      !.caseId = Adopted(t, r),
                      !.ingested = @ \cup Landed(r)]]
    /\ UNCHANGED <<click, held>>

\* An error, or the connection broke: there is no result.
NoResult(r) ==
    /\ Close(r) /\ (req[r].answer = "error" \/ Disconnects)
    /\ UNCHANGED guiVars

-----------------------------------------------------------------------------

GuiInit ==
    /\ Init
    /\ session = [t \in Tab |-> Fresh]
    /\ click \in [Request -> {[tab |-> t, inv |-> 1, own |-> TRUE] : t \in Tab}]
    /\ held = [c \in CaseId |-> Nothing]

Acts(t) ==
    \/ \E new \in SUBSET File, oneOff \in BOOLEAN : Analyse(t, new, oneOff)
    \/ StartNewCase(t) \/ ResetSession(t)
    \/ \E c \in CaseId : OpenCase(t, c) \/ SwitchCase(t, c) \/ DeleteCase(t, c)

Works(r) ==
    \/ (Serve(r) \/ Disconnect(r)) /\ UNCHANGED guiVars
    \/ ReadResult(r) \/ NoResult(r)

GuiNext == (\E t \in Tab : Acts(t)) \/ (\E r \in Request : Works(r))

GuiSpec == GuiInit /\ [][GuiNext]_allVars

-----------------------------------------------------------------------------
(* Properties                                                               *)

\* "A file is offered once per case", for as long as the session remembers what
\* it ingested: whatever is analyzed when, none of a case's files is stored a
\* second time before the analyst opens another case than the current one or
\* resets the session, and once more at the most after each time he does
\* (pendingFiles, the ingested set and its upkeep in runAnalysis, openCase and
\* the case bar).  Of an analyst who waits for each answer in one tab and picks
\* a file once in a session.
OncePerCase == \A c \in CaseId, f \in File : case[c].copies[f] <= held[c][f] + 1

\* The session's ingested files are in the case it accumulates into, so
\* that skipping them skips no evidence (runAnalysis, openCase,
\* "start a new case", "continue this case").
IngestedHere ==
    \A t \in Tab : session[t].caseId # NoCase => session[t].ingested \subseteq Kept(session[t].caseId)

\* Two investigations merge in one case only where an analyst chose the
\* case: a case holds what at most one investigation uploaded into a case
\* of its own (_mint_case_id and the id the browser sends back).
Apart ==
    \A c \in CaseId : \A q, r \in case[c].from :
        click[q].own /\ click[r].own =>
            click[q].tab = click[r].tab /\ click[q].inv = click[r].inv

=============================================================================
