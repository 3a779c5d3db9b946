---------------------------- MODULE AnalyzeStream ----------------------------
(***************************************************************************)
(* POST /api/analyze of the GUI server (analysis/gui/app.py): the handler  *)
(* names or mints a case and saves the upload, and the streamed generator  *)
(* builds the records, persists them into the case, analyzes the case and  *)
(* reports what changed since the last look at it.  Build, persist and     *)
(* analyze run in executor threads while the event loop serves other       *)
(* requests, so the steps of several requests interleave at every await.   *)
(*                                                                         *)
(* A call on the case store is one step here; what can happen inside one   *)
(* is the subject of CaseStore.  An upload is a bag of files, a file the   *)
(* records it parses to; equal bags have equal content signatures.         *)
(***************************************************************************)
EXTENDS Naturals

CONSTANTS
    MaxRequests,    \* bound: requests
    File,           \* files an analyst uploads
    Unreadable,     \* those whose parsing may yield nothing
    MaxCases,       \* case-<today>-01 .. : ids that can be minted
    OldCases,       \* cases there are already
    MaxPicks,       \* bound: times a file is in one upload
    Faults,         \* may the case's files fail to be read or written
    Disconnects,    \* may a client leave before its answer
    Deletes         \* may a case be deleted

Request == 1..MaxRequests
CaseId  == 1..MaxCases
NoCase  == 0

ASSUME BoundAssumption ==
    MaxRequests \in Nat /\ MaxCases \in Nat /\ MaxPicks \in Nat
ASSUME CaseAssumption ==
    OldCases \subseteq CaseId /\ Unreadable \subseteq File
ASSUME SwitchAssumption ==
    Faults \in BOOLEAN /\ Disconnects \in BOOLEAN /\ Deletes \in BOOLEAN

VARIABLES
    req,    \* the requests
    case,   \* the cases on disk
    told,   \* history: files some answer's delta has named as new, per case
    deleted \* history: cases some client has deleted

vars == <<req, case, told, deleted>>

Upload  == [File -> 0..MaxPicks]
Nothing == [f \in File |-> 0]
FilesIn(upload) == {f \in File : upload[f] > 0}

\* exists: is there a case.json; copies: how often each file's records are
\* stored; sources: the uploads whose signature is recorded; from: history,
\* the requests whose records are in; digest: the files the last reported
\* analysis saw ({}: none yet).
Case == [exists : BOOLEAN, copies : [File -> Nat], sources : SUBSET Upload,
         from : SUBSET Request, digest : SUBSET File]
Absent == [exists |-> FALSE, copies |-> Nothing, sources |-> {}, from |-> {}, digest |-> {}]
Empty  == [Absent EXCEPT !.exists = TRUE]

PC == {"unused", "sent", "build", "persist", "create", "append", "analyze",
       "report", "answered", "closed"}

\* asked, oneOff: the form fields case and no_case; case: the case in use;
\* error: case_error; seen: the files the analysis covers; gone: the client
\* has left while an executor thread was at work.
Req == [pc : PC, asked : CaseId \cup {NoCase}, oneOff : BOOLEAN, files : Upload,
        case : CaseId \cup {NoCase}, built : Upload, error : BOOLEAN,
        seen : SUBSET File, gone : BOOLEAN, answer : {"none", "complete", "error"}]
Unused == [pc |-> "unused", asked |-> NoCase, oneOff |-> FALSE, files |-> Nothing,
           case |-> NoCase, built |-> Nothing, error |-> FALSE, seen |-> {},
           gone |-> FALSE, answer |-> "none"]

TypeOK ==
    /\ req \in [Request -> Req]
    /\ case \in [CaseId -> Case]
    /\ told \in [CaseId -> SUBSET File]
    /\ deleted \in SUBSET CaseId

At(r, step) == req[r].pc = step

Goto(r, step) == req' = [req EXCEPT ![r].pc = step]

Answer(r, kind) == req' = [req EXCEPT ![r] = [@ EXCEPT !.pc = "answered", !.answer = kind]]

InCase(r) == req[r].case # NoCase /\ ~req[r].error

Kept(c) == FilesIn(case[c].copies)

-----------------------------------------------------------------------------
(* The request and its handler                                              *)

\* Requests are numbered as they are sent.
Post(r, c, upload, oneOff) ==
    /\ At(r, "unused") /\ \A q \in 1..(r - 1) : ~At(q, "unused")
    /\ FilesIn(upload) # {}
    /\ req' = [req EXCEPT ![r] = [Unused EXCEPT !.pc = "sent", !.asked = c,
                                  !.files = upload, !.oneOff = oneOff]]
    /\ UNCHANGED <<case, told, deleted>>

\* Mutant: one case for the whole day.
IsOneADay(c) == c = 1

\* _mint_case_id: the first number no case on disk has.
IsFirstFree(c) == ~case[c].exists /\ \A d \in 1..(c - 1) : case[d].exists

Receive(r) ==
    /\ At(r, "sent")
    /\ \E c \in CaseId \cup {NoCase} :
         /\ IF req[r].asked # NoCase THEN c = req[r].asked
            ELSE IF req[r].oneOff THEN c = NoCase ELSE c \in CaseId /\ IsFirstFree(c)
         /\ req' = [req EXCEPT ![r] = [@ EXCEPT !.pc = "build", !.case = c]]
    /\ UNCHANGED <<case, told, deleted>>

\* No file of the upload could be saved: status 400.
Refuse(r) ==
    /\ At(r, "build") /\ FilesIn(req[r].files) \subseteq Unreadable
    /\ Answer(r, "error")
    /\ UNCHANGED <<case, told, deleted>>

-----------------------------------------------------------------------------
(* _analyze_stream                                                          *)

\* build_records: a file that cannot be read costs its own records only.
Build(r) ==
    /\ At(r, "build")
    /\ \E lost \in SUBSET (FilesIn(req[r].files) \cap Unreadable) :
         req' = [req EXCEPT ![r] = [@ EXCEPT
                    !.built = [f \in File |-> IF f \in lost THEN 0 ELSE req[r].files[f]],
                    !.pc = IF InCase(r) THEN "persist" ELSE "analyze"]]
    /\ UNCHANGED <<case, told, deleted>>

BuildFails(r) ==
    /\ Faults /\ At(r, "build")
    /\ Answer(r, "error")
    /\ UNCHANGED <<case, told, deleted>>

\* _persist: exists, then create, then append, in one executor thread.
Persist(r) ==
    /\ At(r, "persist")
    /\ Goto(r, IF case[req[r].case].exists THEN "append" ELSE "create")
    /\ UNCHANGED <<case, told, deleted>>

\* Mutant: a persist that was refused is tried again.
PersistAgain(r, error) ==
    req' = [req EXCEPT ![r].pc = IF error THEN "persist" ELSE "analyze"]

\* The generator goes on after _persist, unless its client has left.
Persisted(r, error) ==
    req' = [req EXCEPT ![r] = [@ EXCEPT
               !.error = error,
               !.pc = IF req[r].gone THEN "closed" ELSE "analyze"]]

\* Mutant: a refused or failed persist ends the request.
DegradeToError(r) == Answer(r, "error")

\* A persistence failure degrades to the analysis of this upload alone.
Degrade(r) == Persisted(r, TRUE)

Create(r) ==
    /\ At(r, "create") /\ ~case[req[r].case].exists
    /\ case' = [case EXCEPT ![req[r].case] = Empty]
    /\ Goto(r, "append")
    /\ UNCHANGED <<told, deleted>>

CreateRefused(r) ==
    /\ At(r, "create") /\ (Faults \/ case[req[r].case].exists)
    /\ Degrade(r)
    /\ UNCHANGED <<case, told, deleted>>

Repeated(r) ==
    FilesIn(req[r].built) # {} /\ req[r].built \in case[req[r].case].sources

\* Mutant: counts down.
Without(copies, upload) == [f \in File |-> copies[f] - upload[f]]

With(copies, upload) == [f \in File |-> copies[f] + upload[f]]

\* Mutant: the signature is recorded, the records are not stored.
StoredNothing(c, r) ==
    [c EXCEPT !.sources = @ \cup {req[r].built}, !.from = @ \cup {r}]

\* case c after it took request r's records.
StoredIn(c, r) ==
    [c EXCEPT !.copies = With(@, req[r].built), !.sources = @ \cup {req[r].built},
              !.from = @ \cup {r}]

Append(r) ==
    /\ At(r, "append") /\ case[req[r].case].exists /\ ~Repeated(r)
    /\ case' = [case EXCEPT ![req[r].case] = StoredIn(@, r)]
    /\ Persisted(r, FALSE)
    /\ UNCHANGED <<told, deleted>>

AppendRefused(r) ==
    /\ At(r, "append") /\ (~case[req[r].case].exists \/ Repeated(r))
    /\ Degrade(r)
    /\ UNCHANGED <<case, told, deleted>>

\* Records of some of the files are in, the signature is not.
AppendFails(r) ==
    /\ Faults /\ At(r, "append") /\ case[req[r].case].exists /\ ~Repeated(r)
    /\ \E part \in SUBSET File :
         case' = [case EXCEPT ![req[r].case].copies =
                    With(@, [f \in File |-> IF f \in part THEN req[r].built[f] ELSE 0])]
    /\ Degrade(r)
    /\ UNCHANGED <<told, deleted>>

\* analyze_case, or analyze where there is no case or a case_error.
Analyze(r) ==
    /\ At(r, "analyze")
    /\ InCase(r) => case[req[r].case].exists
    /\ req' = [req EXCEPT ![r] = [@ EXCEPT
                  !.pc = "report",
                  !.seen = IF InCase(r) THEN Kept(req[r].case) ELSE FilesIn(req[r].built)]]
    /\ UNCHANGED <<case, told, deleted>>

\* The case is gone, or its file cannot be opened.
AnalyzeFails(r) ==
    /\ At(r, "analyze") /\ InCase(r) /\ (Faults \/ ~case[req[r].case].exists)
    /\ Answer(r, "error")
    /\ UNCHANGED <<case, told, deleted>>

\* Mutant: the delta is computed against the digest just saved.
SavedBefore(r) == req[r].seen

\* load_analysis_digest: nothing, where the case cannot be read.
Prior(r) == case[req[r].case].digest

\* baseline.delta and save_analysis_digest; a digest that cannot be saved is
\* not an error.  No await separates them.
Report(r) ==
    /\ At(r, "report")
    /\ Answer(r, "complete")
    /\ IF InCase(r)
       THEN LET c == req[r].case IN
            /\ told' = [told EXCEPT ![c] = @ \cup (req[r].seen \ Prior(r))]
            /\ \/ case' = [case EXCEPT ![c].digest = IF case[c].exists THEN req[r].seen ELSE {}]
               \/ Faults /\ UNCHANGED case
       ELSE UNCHANGED <<case, told>>
    /\ UNCHANGED deleted

-----------------------------------------------------------------------------
(* The client reads the answer, or leaves: the generator is cancelled at    *)
(* its await; a thread that is persisting goes on to its end.               *)

Close(r) ==
    /\ At(r, "answered")
    /\ Goto(r, "closed")
    /\ UNCHANGED <<case, told, deleted>>

Disconnect(r) ==
    /\ Disconnects
    /\ \/ req[r].pc \in {"build", "analyze"} /\ Goto(r, "closed")
       \/ /\ req[r].pc \in {"persist", "create", "append"} /\ ~req[r].gone
          /\ req' = [req EXCEPT ![r].gone = TRUE]
    /\ UNCHANGED <<case, told, deleted>>

\* DELETE /api/cases/{case_id}, served by a thread of its own.
Delete(c) ==
    /\ Deletes /\ case[c].exists
    /\ case' = [case EXCEPT ![c] = Absent]
    /\ told' = [told EXCEPT ![c] = {}]
    /\ deleted' = deleted \cup {c}
    /\ UNCHANGED req

-----------------------------------------------------------------------------

Init ==
    /\ req = [r \in Request |-> Unused]
    /\ case = [c \in CaseId |-> IF c \in OldCases THEN Empty ELSE Absent]
    /\ told = [c \in CaseId |-> {}]
    /\ deleted = {}

Serve(r) ==
    \/ Receive(r) \/ Refuse(r) \/ Build(r) \/ BuildFails(r)
    \/ Persist(r) \/ Create(r) \/ CreateRefused(r)
    \/ Append(r) \/ AppendRefused(r) \/ AppendFails(r)
    \/ Analyze(r) \/ AnalyzeFails(r) \/ Report(r)

Next ==
    \/ \E r \in Request :
         \/ \E c \in CaseId \cup {NoCase}, upload \in Upload, oneOff \in BOOLEAN :
              (oneOff => c = NoCase) /\ Post(r, c, upload, oneOff)
         \/ Serve(r) \/ Close(r) \/ Disconnect(r)
    \/ \E c \in CaseId : Delete(c)

Spec == Init /\ [][Next]_vars

\* The event loop and the executor's threads keep running, and what they
\* run returns.
FairSpec == Spec /\ \A r \in Request : WF_vars(Serve(r))

-----------------------------------------------------------------------------
(* Properties                                                               *)

\* A complete answer covers the upload it answers: the case's analysis
\* includes it, unless somebody deleted the case, and where the case could
\* not take it, the analysis is of the upload itself and says so (case_error)
\* -- _analyze_stream persists before it analyzes and picks analyze_case or
\* analyze by the outcome.
SeesOwn ==
    \A r \in Request : req[r].answer = "complete" =>
        IF InCase(r) THEN req[r].case \in deleted \/ FilesIn(req[r].built) \subseteq req[r].seen
                     ELSE req[r].seen = FilesIn(req[r].built)

\* A request whose records were built loses them to no failure of the case:
\* it ends in an error only when the case holds them, or was deleted
\* (_analyze_stream: a persistence failure degrades to the in-memory analysis).
NoEvidenceLost ==
    \A r \in Request : req[r].answer = "error" /\ FilesIn(req[r].built) # {} =>
        /\ req[r].case # NoCase
        /\ req[r].case \in deleted \/ FilesIn(req[r].built) \subseteq Kept(req[r].case)

\* What the next delta will take for known, some delta has named as new
\* (load_analysis_digest, delta, save_analysis_digest of every request).
AllTold == \A c \in CaseId : case[c].digest \subseteq told[c]

\* Every request is answered, whatever fails, unless its client leaves.
Answered ==
    \A r \in Request : At(r, "sent") ~> (At(r, "answered") \/ At(r, "closed"))

=============================================================================
