----------------------------- MODULE BuildProofs -----------------------------
(***************************************************************************)
(* What build_records keeps of its promises for every request, every       *)
(* number of processors and every number of other runners.                 *)
(***************************************************************************)
EXTENDS BuildProperties, TLAPS, FiniteSetTheorems, SequenceTheorems

-----------------------------------------------------------------------------
(* The links by themselves.  LinkSettles is not inductive: that a link which was
   taken away comes back needs a runner known to be about to make it (Owed),
   and that no stale link survives needs to know where a runner can be while
   there is one (Stale, Own).                                              *)

\* A missing link is about to be made, or nobody has got far enough to care.
Owed ==
    link = "missing" =>
        \/ \E r \in Runner : step[r] = "symlink_to"
        \/ \A r \in Runner : step[r] \in {"idle", "is_symlink", "exists"}

\* While the link is stale nobody has come through.
Stale ==
    link = "stale" => \A r \in Runner : step[r] \in {"idle", "is_symlink", "readlink", "unlink"}

\* A directory of the analyst's own is passed by.
Own ==
    link = "own" => \A r \in Runner : step[r] \in {"idle", "is_symlink", "exists", "linked"}

LinkInv == LinkTypeOK /\ Owed /\ Stale /\ Own

\* The links start in a state of the invariant: no runner is on its way.
LEMMA LinkInitInv == LinkInit => LinkInv
BY DEF LinkInit, LinkInv, LinkTypeOK, LinkState, Step, Owed, Stale, Own

\* A step of _ensure_rule_links by one runner keeps the invariant.
LEMMA LinkStepInv ==
    ASSUME LinkInv, NEW r \in Runner, EnterLinks(r) \/ EnsureLinks(r) \/ LeaveLinks(r)
    PROVE  LinkInv'
<1> USE DEF LinkInv, LinkTypeOK, LinkState, Step, Owed, Stale, Own, Advance
<1>1. CASE EnterLinks(r)
  BY <1>1 DEF EnterLinks
<1>2. CASE IsSymlink(r)
  BY <1>2 DEF IsSymlink
<1>3. CASE Exists(r)
  BY <1>3 DEF Exists
<1>4. CASE Readlink(r)
  BY <1>4 DEF Readlink
<1>5. CASE Unlink(r)
  BY <1>5 DEF Unlink
<1>6. CASE SymlinkTo(r)
  BY <1>6 DEF SymlinkTo
<1>7. CASE LeaveLinks(r)
  BY <1>7 DEF LeaveLinks
<1>8. QED
  BY <1>1, <1>2, <1>3, <1>4, <1>5, <1>6, <1>7 DEF EnsureLinks

LEMMA LinkInvariant == LinkSpec => []LinkInv
<1>1. LinkInv /\ [LinkNext]_linkVars => LinkInv'
  <2>1. CASE LinkNext
    BY <2>1, LinkStepInv DEF LinkNext
  <2>2. CASE UNCHANGED linkVars
    BY <2>2 DEF linkVars, LinkInv, LinkTypeOK, Owed, Stale, Own
  <2>3. QED
    BY <2>1, <2>2
<1>2. QED
  BY LinkInitInv, <1>1, PTL DEF LinkSpec

\* Once a runner has come through _ensure_rule_links and none is on its way,
\* the link is right or the analyst's own: for any number of runners, whatever
\* their races.
THEOREM LinksSettle == LinkSpec => []LinkSettles
<1>1. LinkInv => LinkSettles
  BY DEF LinkInv, LinkTypeOK, LinkState, Owed, Stale, LinkSettles
<1>2. QED
  BY <1>1, LinkInvariant, PTL

-----------------------------------------------------------------------------
(* A request                                                                *)

\* A request does not change while it is served.
LEMMA SameRequest ==
    ASSUME job' = job
    PROVE  /\ Files' = Files /\ Evtx' = Evtx /\ Listed' = Listed /\ ZeekInstalled' = ZeekInstalled
           /\ StagesWell' = StagesWell
<1>1. Files' = Files /\ Listed' = Listed /\ ZeekInstalled' = ZeekInstalled
  BY DEF Files, Listed, ZeekInstalled
<1>2. Evtx' = Evtx
  BY <1>1 DEF Evtx
<1>3. \A n : StagedName(n)' = StagedName(n)
  BY <1>1, <1>2 DEF StagedName
<1>4. StagesWell' = StagesWell
  BY <1>2, <1>3 DEF StagesWell
<1>5. QED
  BY <1>1, <1>2, <1>4

\* What the assumption says of the request being served.
LEMMA RequestFacts ==
    ASSUME job \in DOMAIN Request
    PROVE  /\ Len(Files) \in Nat /\ DOMAIN Files = 1..Len(Files)
           /\ Listed \in BOOLEAN /\ ZeekInstalled \in BOOLEAN
           /\ Evtx \subseteq DOMAIN Files
           /\ \A i \in DOMAIN Files : Files[i].kind \in Kind
           /\ \A i \in Evtx : /\ i \in Runner /\ i # Batch /\ i \notin Peers
                             /\ Files[i].kind = "evtx"
                             /\ Files[i].fate \in {"good", "corrupt", "fatal"}
BY BuildAssumption DEF Files, Evtx, Listed, ZeekInstalled

-----------------------------------------------------------------------------
(* The links                                                                *)

\* Every step of a request, and of another one, is a step of one runner in
\* _ensure_rule_links or leaves the links alone.
THEOREM FollowsRuleLinks == Spec => LinkSpec
<1>1. Init => LinkInit /\ job \in DOMAIN Request
  BY DEF Init
<1>2. job \in DOMAIN Request /\ [Next]_vars => (job \in DOMAIN Request)' /\ [LinkNext]_linkVars
  <2> SUFFICES ASSUME job \in DOMAIN Request, [Next]_vars
               PROVE  job' = job /\ [LinkNext]_linkVars
    OBVIOUS
  <2> USE DEF linkVars, buildVars
  <2>1. CASE Main
    <3>1. Batch \in Runner
      BY BuildAssumption
    <3>2. CASE Stage
      BY <3>1, <3>2 DEF Stage, LinkNext
    <3>3. CASE Links(Batch)
      BY <3>1, <3>3 DEF Links, LinkNext
    <3>4. CASE RunBatch
      BY <3>1, <3>4 DEF RunBatch, LinkNext
    <3>5. CASE \E i \in Evtx : Collect(i)
      BY <3>5 DEF Collect
    <3>6. CASE PoolEnds \/ Skips \/ Adapter \/ Pcap \/ ZeekMissing \/ Finish
      BY <3>6 DEF PoolEnds, Skips, Adapter, Pcap, ZeekMissing, Finish
    <3>7. QED
      BY <2>1, <3>2, <3>3, <3>4, <3>5, <3>6 DEF Main
  <2>2. ASSUME NEW i \in Evtx, Task(i) PROVE job' = job /\ LinkNext
    <3>1. i \in Runner
      BY RequestFacts
    <3>2. CASE Start(i)
      BY <3>1, <3>2 DEF Start, LinkNext
    <3>3. CASE Links(i)
      BY <3>1, <3>3 DEF Links, LinkNext
    <3>4. CASE ProcessEvtx(i)
      BY <3>1, <3>4 DEF ProcessEvtx, LinkNext
    <3>5. QED
      BY <2>2, <3>2, <3>3, <3>4 DEF Task
  <2>3. ASSUME NEW p \in Peers, Peer(p) PROVE job' = job /\ LinkNext
    BY <2>3, BuildAssumption DEF Peer, LinkNext
  <2>4. CASE UNCHANGED vars
    BY <2>4 DEF vars
  <2>5. QED
    BY <2>1, <2>2, <2>3, <2>4 DEF Next
<1>3. QED
  BY <1>1, <1>2, PTL DEF Spec, LinkSpec

\* ... and so the links settle whatever requests run beside each other.
THEOREM BuildLinksSettle == Spec => []LinkSettles
BY FollowsRuleLinks, LinksSettle, PTL

-----------------------------------------------------------------------------
(* The invariant.  Neither "once" nor "no false alarm" is inductive: both   *)
(* need to know which files can contribute nothing more (Settled), and that *)
(* nothing is lost needs, of each step on the way, where what a file came   *)
(* to is kept until it is reported (Kept and Handled).                      *)

PCs    == {"stage", "batch", "pool", "drain", "skips", "rest", "done", "raised"}
States == {"pending", "running", "ran", "raised", "collected"}

TypeInv ==
    /\ job \in DOMAIN Request
    /\ pc \in PCs
    /\ next \in 1..Len(Files) + 1
    /\ \A i \in Evtx : i < next
    /\ pc \notin {"rest", "done", "raised"} => \A i \in DOMAIN Files : i < next => i \in Evtx
    /\ made \in [(DOMAIN Files) \X Tool -> Nat]
    /\ worker \in [Evtx -> States]
    /\ noZeek \in BOOLEAN
    /\ unread \subseteq Evtx

\* Before the pool nothing has come of any file.
Fresh ==
    /\ pc \in {"stage", "batch"} =>
          /\ errors = {} /\ skipped = {} /\ unread = {}
          /\ \A c \in DOMAIN made : made[c] = 0
          /\ \A i \in Evtx : worker[i] = "pending"
    /\ pc = "batch" => StagesWell

\* A file that can contribute nothing more.
Settled(i) ==
    \/ i \in Evtx /\ \/ Files[i].fate = "corrupt"
                     \/ pc \in {"pool", "drain"} /\ worker[i] = "collected"
                     \/ pc \in {"skips", "rest", "done", "raised"}
    \/ i \notin Evtx /\ i < next

Single ==
    \A c \in DOMAIN made :
        /\ made[c] <= 1
        /\ made[c] > 0 => Settled(c[1]) /\ (c[1] \in Evtx => Files[c[1]].fate = "good")

\* An error names a file that settled without its tool.
Alarm(e, i) ==
    /\ Files[i].name = e.name /\ e.what \in {Files[i].kind, "zeek"}
    /\ ~Came(i, IF e.what = "zeek" THEN "zeek" ELSE ToolOf(e.what))
    /\ Settled(i)

Alarms == \A e \in errors : e.name # None => \E i \in DOMAIN Files : Alarm(e, i)

SkippedFiles == \A n \in skipped : \E i \in Evtx : Files[i].name = n /\ Files[i].fate = "corrupt"

\* What became of an EVTX file, while the errors are collected.
Kept(i) ==
    Came(i, "hayabusa") \/ Told("evtx", Files[i].name) \/ i \in unread \/ Files[i].name \in skipped

\* What became of a file in the end.
Handled(i) == Came(i, ToolOf(Files[i].kind)) \/ Told(Files[i].kind, Files[i].name) \/ i \in unread

ZeekHandled(i) ==
    Files[i].kind = "pcap" /\ Came(i, "tshark") =>
        Came(i, "zeek") \/ Told("zeek", Files[i].name) \/ Told("no zeek", None) \/ noZeek

Nothing ==
    /\ pc \in {"pool", "drain"} => \A i \in Evtx :
          worker[i] = "ran" => Files[i].fate = "good" \/ i \in unread \/ Files[i].name \in skipped
    /\ Listed =>
          /\ pc # "drain"
          /\ pc = "pool" => \A i \in Evtx : worker[i] = "collected" => Kept(i)
          /\ pc = "skips" => \A i \in Evtx : Kept(i)
          /\ pc \in {"rest", "done"} => \A i \in DOMAIN Files : i < next => Handled(i) /\ ZeekHandled(i)
    /\ pc = "done" => next > Len(Files) /\ ~noZeek

BuildInv == TypeInv /\ Fresh /\ Single /\ Alarms /\ SkippedFiles /\ Nothing

-----------------------------------------------------------------------------
LEMMA LinksInv == ASSUME BuildInv, UNCHANGED buildVars PROVE BuildInv'
<1>1. /\ Files' = Files /\ Evtx' = Evtx /\ Listed' = Listed /\ StagesWell' = StagesWell
  BY SameRequest DEF buildVars
<1> USE <1>1 DEF BuildInv, buildVars
<1>2. TypeInv'
  BY DEF TypeInv
<1>3. Fresh'
  BY DEF Fresh
<1>4. \A i : Settled(i)' = Settled(i)
  BY DEF Settled
<1>5. \A i, t : Came(i, t)' = Came(i, t)
  BY DEF Came
<1>6. \A w, n : Told(w, n)' = Told(w, n)
  BY DEF Told
<1>7. Single'
  BY <1>4 DEF Single
<1>8. Alarms'
  BY <1>4, <1>5 DEF Alarms, Alarm
<1>9. SkippedFiles'
  BY DEF SkippedFiles
<1>10. Nothing'
  BY <1>5, <1>6 DEF Nothing, Kept, Handled, ZeekHandled
<1>11. QED
  BY <1>2, <1>3, <1>7, <1>8, <1>9, <1>10

LEMMA FinishInv == ASSUME BuildInv, Finish PROVE BuildInv'
<1>1. /\ Files' = Files /\ Evtx' = Evtx /\ Listed' = Listed
  BY SameRequest DEF Finish
<1> USE <1>1 DEF BuildInv, Finish
<1>2. TypeInv'
  BY DEF TypeInv, PCs
<1>3. \A i : Settled(i)' = Settled(i)
  BY DEF Settled
<1>4. \A i, t : Came(i, t)' = Came(i, t)
  BY DEF Came
<1>5. \A w, n : Told(w, n)' = Told(w, n)
  BY DEF Told
<1>6. Fresh' /\ Single' /\ SkippedFiles'
  BY <1>3 DEF Fresh, Single, SkippedFiles
<1>7. Alarms'
  BY <1>3, <1>4 DEF Alarms, Alarm
<1>8. Nothing'
  BY <1>4, <1>5 DEF Nothing, Kept, Handled, ZeekHandled
<1>9. QED
  BY <1>2, <1>6, <1>7, <1>8

LEMMA PoolEndsInv == ASSUME BuildInv, PoolEnds PROVE BuildInv'
<1>1. /\ Files' = Files /\ Evtx' = Evtx /\ Listed' = Listed
  BY SameRequest DEF PoolEnds
<1> USE <1>1 DEF BuildInv, PoolEnds
<1>2. TypeInv'
  BY DEF TypeInv, PCs
<1>3. \A i : Settled(i) => Settled(i)'
  BY DEF Settled
<1>4. \A i, t : Came(i, t)' = Came(i, t)
  BY DEF Came
<1>5. \A w, n : Told(w, n)' = Told(w, n)
  BY DEF Told
<1>6. Fresh' /\ Single' /\ SkippedFiles'
  BY <1>3 DEF Fresh, Single, SkippedFiles
<1>7. Alarms'
  BY <1>3, <1>4 DEF Alarms, Alarm
<1>8. Nothing'
  BY <1>4, <1>5 DEF Nothing, Kept
<1>9. QED
  BY <1>2, <1>6, <1>7, <1>8

LEMMA ZeekMissingInv == ASSUME BuildInv, ZeekMissing PROVE BuildInv'
<1>1. /\ Files' = Files /\ Evtx' = Evtx /\ Listed' = Listed
  BY SameRequest DEF ZeekMissing
<1> USE <1>1 DEF BuildInv, ZeekMissing
<1>2. TypeInv'
  BY DEF TypeInv
<1>3. \A i : Settled(i)' = Settled(i)
  BY DEF Settled
<1>4. \A i, t : Came(i, t)' = Came(i, t)
  BY DEF Came
<1>5. /\ \A w, n : Told(w, n) => Told(w, n)'
      /\ Listed => Told("no zeek", None)'
      /\ \A e \in errors' : e \in errors \/ e = Error("no zeek", None)
  BY DEF Told, Report
<1>6. Fresh' /\ Single' /\ SkippedFiles'
  BY <1>3 DEF Fresh, Single, SkippedFiles
<1>7. Alarms'
  <2>1. Error("no zeek", None).name = None
    BY DEF Error
  <2>2. \A e \in errors' : e.name # None => e \in errors
    BY <1>5, <2>1
  <2>3. QED
    BY <2>2, <1>3, <1>4 DEF Alarms, Alarm
<1>8. Nothing'
  BY <1>4, <1>5 DEF Nothing, Handled, ZeekHandled
<1>9. QED
  BY <1>2, <1>6, <1>7, <1>8

\* What Hayabusa read comes of files it could read.
LEMMA NotOfCorrupt ==
    ASSUME TypeInv, Single, NEW i \in Evtx, Files[i].fate # "good"
    PROVE  ~Came(i, "hayabusa")
<1>1. <<i, "hayabusa">> \in DOMAIN made
  BY RequestFacts DEF TypeInv, Tool
<1>2. QED
  BY <1>1 DEF Single, Came

LEMMA SkipsInv == ASSUME BuildInv, Skips PROVE BuildInv'
<1>1. /\ Files' = Files /\ Evtx' = Evtx /\ Listed' = Listed
  BY SameRequest DEF Skips
<1> USE <1>1 DEF BuildInv, Skips, ReportOrRaise
<1>2. TypeInv'
  BY DEF TypeInv, PCs
<1>3. \A i : Settled(i) => Settled(i)'
  BY DEF Settled
<1>4. \A i, t : Came(i, t)' = Came(i, t)
  BY DEF Came
<1>5. /\ \A w, n : Told(w, n) => Told(w, n)'
      /\ Listed => \A n \in skipped : Told("evtx", n)'
      /\ \A e \in errors' : e \in errors \/ \E n \in skipped : e = Error("evtx", n)
  BY DEF Told, Report
<1>6. Fresh' /\ Single' /\ SkippedFiles'
  BY <1>3 DEF Fresh, Single, SkippedFiles
<1>7. Alarms'
  <2> SUFFICES ASSUME NEW e \in errors', e.name # None PROVE \E i \in DOMAIN Files : Alarm(e, i)'
    BY DEF Alarms
  <2>1. CASE e \in errors
    BY <2>1, <1>3, <1>4 DEF Alarms, Alarm
  <2>2. ASSUME NEW n \in skipped, e = Error("evtx", n) PROVE \E i \in DOMAIN Files : Alarm(e, i)'
    <3>1. PICK i \in Evtx : Files[i].name = n /\ Files[i].fate = "corrupt"
      BY DEF SkippedFiles
    <3>2. i \in DOMAIN Files /\ Files[i].kind = "evtx" /\ ~Came(i, "hayabusa")
      BY <3>1, NotOfCorrupt, RequestFacts DEF TypeInv
    <3>3. Settled(i)'
      BY <3>1 DEF Settled
    <3>4. Alarm(e, i)'
      BY <2>2, <3>1, <3>2, <3>3, <1>4 DEF Alarm, Error, ToolOf
    <3>5. QED
      BY <3>2, <3>4
  <2>3. QED
    BY <1>5, <2>1, <2>2
<1>8. Nothing'
  <2>1. \A i \in Evtx : Files[i].kind = "evtx" /\ ToolOf("evtx") = "hayabusa"
    BY RequestFacts DEF TypeInv, ToolOf
  <2>2. \A i \in Evtx : Kept(i) /\ Listed => Handled(i)' /\ ZeekHandled(i)'
    BY <2>1, <1>4, <1>5 DEF Kept, Handled, ZeekHandled
  <2>3. QED
    BY <2>2 DEF Nothing, TypeInv
<1>9. QED
  BY <1>2, <1>6, <1>7, <1>8

LEMMA StageInv == ASSUME BuildInv, Stage PROVE BuildInv'
<1>1. /\ Files' = Files /\ Evtx' = Evtx /\ Listed' = Listed /\ StagesWell' = StagesWell
  BY SameRequest DEF Stage
<1> USE <1>1 DEF BuildInv, Stage, BatchFails
<1>2. TypeInv'
  BY DEF TypeInv, PCs
<1>3. \A i : Settled(i) => Settled(i)'
  BY DEF Settled
<1>4. \A i, t : Came(i, t)' = Came(i, t)
  BY DEF Came
<1>5. \A e \in errors' : e.name = None
  <2>1. \A e \in errors' : e = Error("batch", None)
    BY DEF Fresh, Report
  <2>2. Error("batch", None).name = None
    BY DEF Error
  <2>3. QED
    BY <2>1, <2>2
<1>6. Fresh' /\ Single' /\ Alarms' /\ SkippedFiles'
  BY <1>3, <1>5 DEF Fresh, Single, Alarms, SkippedFiles
<1>7. Nothing'
  BY DEF Nothing, Fresh
<1>8. QED
  BY <1>2, <1>6, <1>7

LEMMA StartInv == ASSUME BuildInv, NEW i \in Evtx, Start(i) PROVE BuildInv'
<1>1. /\ Files' = Files /\ Evtx' = Evtx /\ Listed' = Listed
  BY SameRequest DEF Start
<1> USE <1>1 DEF BuildInv, Start
<1>2. worker[i] = "pending"
  BY DEF InPool
<1>3. TypeInv'
  BY DEF TypeInv, PCs, States
<1>4. \A j : Settled(j) => Settled(j)'
  BY <1>2 DEF Settled, TypeInv
<1>5. \A j, t : Came(j, t)' = Came(j, t)
  BY DEF Came
<1>6. \A w, n : Told(w, n)' = Told(w, n)
  BY DEF Told
<1>7. Fresh' /\ Single' /\ SkippedFiles'
  BY <1>4 DEF Fresh, Single, SkippedFiles
<1>8. Alarms'
  BY <1>4, <1>5 DEF Alarms, Alarm
<1>9. Nothing'
  BY <1>2, <1>5, <1>6 DEF Nothing, Kept, TypeInv
<1>10. QED
  BY <1>3, <1>7, <1>8, <1>9

LEMMA ProcessInv == ASSUME BuildInv, NEW i \in Evtx, ProcessEvtx(i) PROVE BuildInv'
<1>1. /\ Files' = Files /\ Evtx' = Evtx /\ Listed' = Listed
  BY SameRequest DEF ProcessEvtx
<1> USE <1>1 DEF BuildInv, ProcessEvtx
<1>2. worker[i] = "running"
  BY DEF InPool
<1>3. pc \notin {"stage", "batch"}
  BY <1>2 DEF Fresh
<1>4. /\ skipped \subseteq skipped' /\ unread \subseteq unread' /\ unread' \subseteq Evtx
      /\ \A n \in skipped' : n \in skipped \/ (n = Files[i].name /\ Files[i].fate = "corrupt")
      /\ worker' = [worker EXCEPT ![i] = "ran"] /\ Files[i].fate # "good" =>
            i \in unread' \/ Files[i].name \in skipped'
  <2>1. CASE step[i] = "failed" \/ Fatal(i)
    BY <2>1, <1>2 DEF TypeInv
  <2>2. CASE ~(step[i] = "failed" \/ Fatal(i))
    BY <2>2, RequestFacts DEF TypeInv, FailedFiles, Fatal
  <2>3. QED
    BY <2>1, <2>2
<1>5. TypeInv'
  BY <1>4 DEF TypeInv, PCs, States
<1>6. \A j : Settled(j) => Settled(j)'
  BY <1>2 DEF Settled, TypeInv
<1>7. \A j, t : Came(j, t)' = Came(j, t)
  BY DEF Came
<1>8. \A w, n : Told(w, n)' = Told(w, n)
  BY DEF Told
<1>9. Fresh' /\ Single'
  BY <1>3, <1>6 DEF Fresh, Single
<1>10. SkippedFiles'
  BY <1>4 DEF SkippedFiles
<1>11. Alarms'
  BY <1>6, <1>7 DEF Alarms, Alarm
<1>12. Nothing'
  <2>1. \A j \in Evtx : worker'[j] = "collected" => worker[j] = "collected"
    BY DEF TypeInv
  <2>2. \A j \in Evtx : worker'[j] = "ran" => worker[j] = "ran" \/ (j = i /\ worker' = [worker EXCEPT ![i] = "ran"])
    BY DEF TypeInv
  <2>3. \A j : (Kept(j) => Kept(j)') /\ (Handled(j) => Handled(j)') /\ ZeekHandled(j)' = ZeekHandled(j)
    BY <1>4, <1>7, <1>8 DEF Kept, Handled, ZeekHandled
  <2>4. QED
    BY <2>1, <2>2, <2>3, <1>4 DEF Nothing
<1>13. QED
  BY <1>5, <1>9, <1>10, <1>11, <1>12

\* What Add makes of the counts.
LEMMA AddFacts ==
    ASSUME TypeInv, NEW S, NEW tools, Add(S, tools)
    PROVE  /\ made' \in [(DOMAIN Files) \X Tool -> Nat]
           /\ \A i \in DOMAIN Files, t \in Tool :
                /\ i \in S /\ t \in tools => made'[<<i, t>>] = made[<<i, t>>] + 1
                /\ ~(i \in S /\ t \in tools) => made'[<<i, t>>] = made[<<i, t>>]
                /\ Came(i, t) => Came(i, t)'
                /\ i \in S /\ t \in tools => Came(i, t)'
                /\ Came(i, t)' => Came(i, t) \/ (i \in S /\ t \in tools)
<1>1. DOMAIN made = (DOMAIN Files) \X Tool
  BY DEF TypeInv
<1>2. \A c \in (DOMAIN Files) \X Tool : made[c] \in Nat
  BY DEF TypeInv
<1>3. made' = [c \in (DOMAIN Files) \X Tool |-> IF c[1] \in S /\ c[2] \in tools THEN made[c] + 1 ELSE made[c]]
  BY <1>1 DEF Add
<1>4. \A c \in (DOMAIN Files) \X Tool : (IF c[1] \in S /\ c[2] \in tools THEN made[c] + 1 ELSE made[c]) \in Nat
  BY <1>2
<1>5. \A i \in DOMAIN Files, t \in Tool :
         /\ <<i, t>> \in (DOMAIN Files) \X Tool
         /\ made'[<<i, t>>] = IF i \in S /\ t \in tools THEN made[<<i, t>>] + 1 ELSE made[<<i, t>>]
  BY <1>3
<1>6. QED
  BY <1>2, <1>3, <1>4, <1>5 DEF Came

\* Nothing has come of a file that is not settled.
LEMMA Unsettled ==
    ASSUME TypeInv, Single, NEW i \in DOMAIN Files, ~Settled(i), NEW t \in Tool
    PROVE  made[<<i, t>>] = 0 /\ ~Came(i, t)
<1>1. <<i, t>> \in DOMAIN made /\ made[<<i, t>>] \in Nat
  BY DEF TypeInv
<1>2. ~(made[<<i, t>>] > 0)
  BY <1>1 DEF Single
<1>3. QED
  BY <1>1, <1>2 DEF Came

\* A file whose tools have read it stays alone with what it came to.
LEMMA SingleStep ==
    ASSUME TypeInv, Single, NEW S \in SUBSET DOMAIN Files, NEW tools, Add(S, tools), Files' = Files, Evtx' = Evtx,
           \A i \in S : ~Settled(i) /\ Settled(i)' /\ (i \in Evtx => Files[i].fate = "good"),
           \A i \in DOMAIN Files : Settled(i) => Settled(i)'
    PROVE  Single'
<1>1. ASSUME NEW i \in DOMAIN Files, NEW t \in Tool
      PROVE  /\ made'[<<i, t>>] <= 1
             /\ made'[<<i, t>>] > 0 => Settled(i)' /\ (i \in Evtx => Files[i].fate = "good")
  <2>1. made[<<i, t>>] \in Nat /\ <<i, t>> \in DOMAIN made
    BY DEF TypeInv
  <2>2. CASE i \in S /\ t \in tools
    BY <2>1, <2>2, Unsettled, AddFacts
  <2>3. CASE ~(i \in S /\ t \in tools)
    BY <2>1, <2>3, AddFacts DEF Single
  <2>4. QED
    BY <2>2, <2>3
<1>2. DOMAIN made' = (DOMAIN Files) \X Tool
  BY AddFacts
<1>3. QED
  BY <1>1, <1>2 DEF Single

\* The tool of an alarm is a tool.
LEMMA ToolOfAlarm ==
    ASSUME job \in DOMAIN Request, NEW i \in DOMAIN Files
    PROVE  /\ ToolOf(Files[i].kind) \in Tool
           /\ "evtx" = Files[i].kind => ToolOf(Files[i].kind) = "hayabusa"
           /\ "pcap" = Files[i].kind => ToolOf(Files[i].kind) = "tshark"
           /\ Files[i].kind \in Adapted => ToolOf(Files[i].kind) = Files[i].kind
BY RequestFacts DEF ToolOf, Tool, Kind, Adapted

\* Alarms stay true while the tools read files that had not settled.
LEMMA AlarmStep ==
    ASSUME TypeInv, NEW S, NEW tools, Add(S, tools), Files' = Files,
           \A i \in S : ~Settled(i), \A i \in DOMAIN Files : Settled(i) => Settled(i)',
           NEW e, NEW i \in DOMAIN Files, Alarm(e, i)
    PROVE  Alarm(e, i)'
<1>1. i \notin S /\ Settled(i)'
  BY DEF Alarm
<1>2. (IF e.what = "zeek" THEN "zeek" ELSE ToolOf(e.what)) \in Tool
  BY ToolOfAlarm DEF Alarm, Tool, TypeInv
<1>3. QED
  BY <1>1, <1>2, AddFacts DEF Alarm

LEMMA CollectInv == ASSUME BuildInv, NEW i \in Evtx, Collect(i) PROVE BuildInv'
<1>1. /\ Files' = Files /\ Evtx' = Evtx /\ Listed' = Listed
  BY SameRequest DEF Collect
<1> USE <1>1 DEF BuildInv, Collect
<1>2. /\ i \in DOMAIN Files /\ Files[i].kind = "evtx" /\ ToolOf("evtx") = "hayabusa" /\ "hayabusa" \in Tool
      /\ \A j \in Evtx : j \in DOMAIN Files
  BY RequestFacts DEF TypeInv, ToolOf, Tool
<1>3. /\ \A j : Settled(j) => Settled(j)'
      /\ Settled(i)'
      /\ Files[i].fate # "corrupt" => ~Settled(i)
  BY DEF Settled, TypeInv
<1>4. SkippedFiles'
  BY DEF SkippedFiles
<1>5. /\ \A j \in Evtx : worker'[j] = "ran" => worker[j] = "ran"
      /\ \A j \in Evtx : worker'[j] = "collected" => worker[j] = "collected" \/ j = i
      /\ worker' \in [Evtx -> States]
  BY DEF TypeInv, States
<1>6. CASE worker[i] = "ran"
  <2> USE <1>6
  <2>1. Add(Good({i}), {"hayabusa"}) /\ UNCHANGED <<errors, pc>>
    OBVIOUS
  <2>2. Good({i}) \subseteq DOMAIN Files /\ \A j \in Good({i}) : j = i /\ Files[j].fate = "good"
    BY <1>2 DEF Good
  <2>3. TypeInv' /\ Fresh'
    BY <2>1, <1>5, AddFacts DEF TypeInv, Fresh
  <2>4. Single'
    BY <2>1, <2>2, <1>3, SingleStep
  <2>5. Alarms'
    BY <2>1, <2>2, <1>3, AlarmStep DEF Alarms
  <2>6. /\ \A w, n : Told(w, n) => Told(w, n)'
        /\ \A j \in Evtx : Came(j, "hayabusa") => Came(j, "hayabusa")'
        /\ Files[i].fate = "good" => Came(i, "hayabusa")'
    <3>1. \A w, n : Told(w, n) => Told(w, n)'
      BY <2>1 DEF Told
    <3>2. Files[i].fate = "good" => i \in Good({i})
      BY DEF Good
    <3>3. \A j \in DOMAIN Files, t \in Tool :
            /\ Came(j, t) => Came(j, t)'
            /\ j \in Good({i}) /\ t \in {"hayabusa"} => Came(j, t)'
      BY <2>1, AddFacts
    <3>4. \A j \in Evtx : Came(j, "hayabusa") => Came(j, "hayabusa")'
      BY <3>3, <1>2
    <3>5. Files[i].fate = "good" => Came(i, "hayabusa")'
      BY <3>2, <3>3, <1>2
    <3>6. QED
      BY <3>1, <3>4, <3>5
  <2>7. /\ \A j \in Evtx : Kept(j) => Kept(j)'
        /\ Kept(i)'
    BY <2>6 DEF Kept, Nothing
  <2>8. Nothing'
    BY <2>1, <2>7, <1>5 DEF Nothing
  <2>9. QED
    BY <2>3, <2>4, <2>5, <2>8, <1>4
<1>7. CASE worker[i] = "raised"
  <2> USE <1>7
  <2>1. Report({Error("evtx", Files[i].name)}) /\ pc' = (IF Listed THEN "pool" ELSE "drain") /\ UNCHANGED made
    OBVIOUS
  <2>2. TypeInv' /\ Fresh'
    BY <2>1, <1>5 DEF TypeInv, Fresh, PCs
  <2>3. Single'
    BY <2>1, <1>3 DEF Single
  <2>4. \A j, t : Came(j, t)' = Came(j, t)
    BY <2>1 DEF Came
  <2>5. /\ \A w, n : Told(w, n) => Told(w, n)'
        /\ Listed => Told("evtx", Files[i].name)'
        /\ \A e \in errors' : e \in errors \/ e = Error("evtx", Files[i].name)
    BY <2>1 DEF Told, Report
  <2>6. ~Came(i, "hayabusa")
    BY <1>2, <1>3, NotOfCorrupt, Unsettled
  <2>7. Alarm(Error("evtx", Files[i].name), i)'
    BY <1>2, <1>3, <2>4, <2>6 DEF Alarm, Error
  <2>8. \A e, j : Alarm(e, j) => Alarm(e, j)'
    BY <2>4, <1>3 DEF Alarm
  <2>9. Alarms'
    BY <2>5, <2>7, <2>8, <1>2 DEF Alarms
  <2>10. /\ \A j \in Evtx : Kept(j) => Kept(j)'
         /\ Listed => Kept(i)'
    BY <2>4, <2>5 DEF Kept
  <2>11. Nothing'
    BY <2>1, <2>10, <1>5 DEF Nothing
  <2>12. QED
    BY <2>2, <2>3, <2>9, <2>11, <1>4
<1>8. QED
  BY <1>6, <1>7

\* A staged file gets its name back.
LEMMA OriginalNames ==
    ASSUME StagesWell, NEW i \in Evtx
    PROVE  Original(StagedName(i)) = Files[i].name
<1>1. \A j \in Evtx : StagedName(j) = StagedName(i) => j = i
  BY DEF StagesWell
<1>2. QED
  BY <1>1 DEF Original

LEMMA RunBatchInv == ASSUME BuildInv, RunBatch PROVE BuildInv'
<1>1. /\ Files' = Files /\ Evtx' = Evtx /\ Listed' = Listed /\ StagesWell' = StagesWell
  BY SameRequest DEF RunBatch
<1> USE <1>1 DEF BuildInv, RunBatch
<1>2. /\ errors = {} /\ skipped = {} /\ unread = {}
      /\ \A j \in Evtx : worker[j] = "pending"
      /\ StagesWell
  BY DEF Fresh
<1>3. Evtx \subseteq DOMAIN Files /\ "hayabusa" \in Tool
  BY RequestFacts DEF TypeInv, Tool
<1>4. CASE BatchFails
  <2> USE <1>4 DEF BatchFails
  <2>1. TypeInv'
    BY DEF TypeInv, PCs
  <2>2. \A i : Settled(i) => Settled(i)'
    BY DEF Settled
  <2>3. \A e \in errors' : e.name = None
    <3>1. \A e \in errors' : e = Error("batch", None)
      BY <1>2 DEF Report
    <3>2. Error("batch", None).name = None
      BY DEF Error
    <3>3. QED
      BY <3>1, <3>2
  <2>4. Fresh' /\ Single' /\ Alarms' /\ SkippedFiles'
    BY <2>2, <2>3, <1>2 DEF Fresh, Single, Alarms, SkippedFiles
  <2>5. Nothing'
    BY <1>2 DEF Nothing
  <2>6. QED
    BY <2>1, <2>4, <2>5
<1>5. CASE ~BatchFails
  <2>1. /\ Add(Good(Evtx), {"hayabusa"})
        /\ FailedFiles(Evtx, LAMBDA i : Original(StagedName(i)))
        /\ pc' = "skips" /\ UNCHANGED <<errors, next, worker, noZeek>>
        /\ \A i \in Evtx : ~Fatal(i)
    BY <1>5
  <2>2. /\ \A n \in skipped' : \E i \in Evtx : n = Original(StagedName(i)) /\ Files[i].fate = "corrupt"
        /\ unread' \subseteq Evtx
        /\ \A i \in Evtx : Files[i].fate = "corrupt" => Original(StagedName(i)) \in skipped' \/ i \in unread'
    BY <2>1, <1>2 DEF FailedFiles
  <2>3. TypeInv'
    BY <2>1, <2>2, AddFacts DEF TypeInv, PCs
  <2>4. /\ \A i : Settled(i) => Settled(i)'
        /\ \A i \in Evtx : Settled(i)'
        /\ \A i \in Good(Evtx) : i \in Evtx /\ Files[i].fate = "good" /\ ~Settled(i)
    BY <2>1 DEF Settled, Good, TypeInv
  <2>5. Single'
    BY <2>1, <2>4, <1>3, SingleStep
  <2>6. SkippedFiles'
    BY <2>2, <1>2, OriginalNames DEF SkippedFiles
  <2>7. \A i \in Evtx : Kept(i)'
    <3> TAKE i \in Evtx
    <3>1. CASE Files[i].fate = "good"
      <4>1. i \in Good(Evtx)
        BY <3>1 DEF Good
      <4>2. Came(i, "hayabusa")'
        <5>1. i \in DOMAIN Files /\ Add(Good(Evtx), {"hayabusa"})
          BY <2>1, <1>3
        <5>2. QED
          BY <4>1, <5>1, <1>3, AddFacts
      <4>3. QED
        BY <4>2 DEF Kept
    <3>2. CASE Files[i].fate = "corrupt"
      BY <3>2, <2>2, <1>2, OriginalNames DEF Kept
    <3>3. QED
      BY <3>1, <3>2, <2>1, RequestFacts DEF Fatal, TypeInv
  <2>8. Fresh' /\ Alarms' /\ Nothing'
    BY <2>1, <2>7, <1>2 DEF Fresh, Alarms, Nothing
  <2>9. QED
    BY <2>3, <2>5, <2>6, <2>8
<1>6. QED
  BY <1>4, <1>5

LEMMA AdapterInv == ASSUME BuildInv, Adapter PROVE BuildInv'
<1>1. /\ Files' = Files /\ Evtx' = Evtx /\ Listed' = Listed
  BY SameRequest DEF Adapter
<1> USE <1>1 DEF BuildInv
<1>n. PICK n : n = next
  OBVIOUS
<1>k. PICK kind : kind = Files[n].kind
  OBVIOUS
<1>m. PICK name : name = Files[n].name
  OBVIOUS
<1> DEFINE lost == <<job, n>> \in Lost
<1>2. n = next /\ kind = Files[n].kind /\ name = Files[n].name
  BY <1>n, <1>k, <1>m
<1> HIDE DEF lost
<1>3. /\ pc = "rest" /\ next' = n + 1
      /\ n \in DOMAIN Files /\ kind \in Adapted /\ n \notin Evtx
      /\ UNCHANGED <<job, skipped, worker, noZeek, unread>>
      /\ ReportOrRaise(IF lost THEN {Error(kind, name)} ELSE {}, "rest")
      /\ IF lost THEN UNCHANGED made ELSE Add({n}, {kind})
  <2>1. n \in DOMAIN Files /\ n \notin Evtx
    BY <1>2, RequestFacts DEF Adapter, At, TypeInv
  <2>2. QED
    BY <1>2, <2>1 DEF Adapter, At, lost
<1>a. /\ lost => UNCHANGED made
      /\ ~lost => Add({n}, {kind})
  BY <1>3
<1>4. /\ kind \in Tool /\ ToolOf(kind) = kind /\ kind # "pcap" /\ kind # "zeek"
      /\ n \in Nat /\ Len(Files) \in Nat /\ DOMAIN Files = 1..Len(Files)
  BY <1>2, <1>3, RequestFacts DEF TypeInv, Tool, Adapted, ToolOf
<1>5. /\ pc' \in {"rest", "raised"}
      /\ pc' = "raised" => ~Listed
      /\ \A w, m : Told(w, m) => Told(w, m)'
      /\ lost /\ Listed => Told(kind, name)'
      /\ \A e \in errors' : e \in errors \/ (lost /\ e = Error(kind, name))
  <2>1. CASE lost
    BY <2>1, <1>3 DEF ReportOrRaise, Report, Told
  <2>2. CASE ~lost
    BY <2>2, <1>3 DEF ReportOrRaise, Report, Told
  <2>3. QED
    BY <2>1, <2>2
<1>6. \A i \in DOMAIN Files : i < n + 1 => i < n \/ i = n
  BY <1>4
<1>7. \A i \in DOMAIN Files : Settled(i) => Settled(i)'
  <2> SUFFICES ASSUME NEW i \in DOMAIN Files, Settled(i) PROVE Settled(i)'
    OBVIOUS
  <2>1. CASE i \in Evtx
    BY <2>1, <1>3, <1>5 DEF Settled
  <2>2. CASE i \notin Evtx
    BY <2>2, <1>2, <1>3, <1>4 DEF Settled
  <2>3. QED
    BY <2>1, <2>2
<1>8. Settled(n)' /\ ~Settled(n)
  BY <1>2, <1>3, <1>4 DEF Settled
<1>9. TypeInv' /\ Fresh'
  <2>1. \A i \in Evtx : i < next'
    BY <1>2, <1>3, <1>4, RequestFacts DEF TypeInv
  <2>2. next' \in 1..Len(Files) + 1
    BY <1>2, <1>3, <1>4
  <2>3. made' \in [(DOMAIN Files) \X Tool -> Nat]
    BY <1>3, AddFacts DEF TypeInv
  <2>4. QED
    BY <1>3, <1>5, <2>1, <2>2, <2>3 DEF TypeInv, Fresh, PCs
<1>10. Single'
  <2>1. CASE lost
    BY <2>1, <1>3, <1>7 DEF Single, TypeInv
  <2>2. CASE ~lost
    BY <2>2, <1>3, <1>7, <1>8, SingleStep
  <2>3. QED
    BY <2>1, <2>2
<1>11. SkippedFiles'
  BY <1>3 DEF SkippedFiles
<1>12. Alarms'
  <2>1. ASSUME NEW e, NEW i \in DOMAIN Files, Alarm(e, i) PROVE Alarm(e, i)'
    <3>1. CASE lost
      BY <3>1, <2>1, <1>3, <1>7 DEF Alarm, Came
    <3>2. CASE ~lost
      BY <3>2, <2>1, <1>3, <1>7, <1>8, AlarmStep
    <3>3. QED
      BY <3>1, <3>2
  <2>2. lost => Alarm(Error(kind, name), n)'
    <3>1. lost => ~Came(n, kind)'
      BY <1>3, <1>4, <1>8, Unsettled DEF Came
    <3>2. QED
      BY <1>2, <1>4, <1>8, <3>1 DEF Alarm, Error
  <2>3. QED
    BY <1>3, <1>5, <2>1, <2>2 DEF Alarms
<1>13. Nothing'
  <2>0. ~lost => \A i \in DOMAIN Files, t \in Tool :
          /\ Came(i, t) => Came(i, t)'
          /\ i \in {n} /\ t \in {kind} => Came(i, t)'
          /\ Came(i, t)' => Came(i, t) \/ (i \in {n} /\ t \in {kind})
    <3> SUFFICES ASSUME Add({n}, {kind}), NEW i \in DOMAIN Files, NEW t \in Tool
                 PROVE  /\ Came(i, t) => Came(i, t)'
                        /\ i \in {n} /\ t \in {kind} => Came(i, t)'
                        /\ Came(i, t)' => Came(i, t) \/ (i \in {n} /\ t \in {kind})
      BY <1>a
    <3>1. QED
      BY AddFacts
  <2>1. \A i \in DOMAIN Files, t \in Tool : (Came(i, t) => Came(i, t)') /\ (i # n => (Came(i, t)' => Came(i, t)))
    <3>1. CASE lost
      BY <3>1, <1>3 DEF Came
    <3>2. CASE ~lost
      BY <3>2, <2>0
    <3>3. QED
      BY <3>1, <3>2
  <2>2. ~lost => Came(n, kind)'
    BY <1>3, <1>4, <2>0
  <2>3. Listed => Handled(n)' /\ ZeekHandled(n)'
    BY <1>2, <1>3, <1>4, <1>5, <2>2 DEF Handled, ZeekHandled
  <2>4. ASSUME NEW i \in DOMAIN Files, i # n, Handled(i), ZeekHandled(i) PROVE Handled(i)' /\ ZeekHandled(i)'
    <3>1. "tshark" \in Tool /\ "zeek" \in Tool /\ ToolOf(Files[i].kind) \in Tool
      BY ToolOfAlarm DEF Tool, TypeInv
    <3>2. QED
      BY <2>1, <2>4, <3>1, <1>3, <1>5 DEF Handled, ZeekHandled
  <2>5. Listed => \A i \in DOMAIN Files : i < next' => Handled(i)' /\ ZeekHandled(i)'
    BY <1>2, <1>3, <1>6, <2>3, <2>4 DEF Nothing
  <2>6. QED
    BY <1>3, <1>5, <2>5 DEF Nothing
<1>14. QED
  BY <1>9, <1>10, <1>11, <1>12, <1>13

LEMMA PcapInv == ASSUME BuildInv, Pcap PROVE BuildInv'
<1>1. /\ Files' = Files /\ Evtx' = Evtx /\ Listed' = Listed
  BY SameRequest DEF Pcap
<1> USE <1>1 DEF BuildInv
<1>n. PICK n : n = next
  OBVIOUS
<1>m. PICK name : name = Files[n].name
  OBVIOUS
<1>t. PICK tools : tools = {"tshark"} \cup (IF Zeeks(Files[n]) THEN {"zeek"} ELSE {})
  OBVIOUS
<1>2. /\ pc = "rest" /\ next = n /\ next' = n + 1
      /\ n \in DOMAIN Files /\ n \notin Evtx /\ Files[n].kind = "pcap" /\ Files[n].name = name
      /\ UNCHANGED <<job, skipped, worker, unread>>
      /\ n \in Nat /\ Len(Files) \in Nat /\ DOMAIN Files = 1..Len(Files)
      /\ {"tshark", "zeek"} \subseteq Tool /\ ToolOf("pcap") = "tshark"
  BY <1>n, <1>m, RequestFacts DEF Pcap, At, TypeInv, Tool, ToolOf
<1>3. \/ /\ ReportOrRaise({Error("pcap", name)}, "rest")
         /\ UNCHANGED <<made, noZeek>>
      \/ /\ Add({n}, tools) /\ pc' = "rest" /\ noZeek' = (noZeek \/ ~ZeekInstalled)
         /\ Report(IF ZeekInstalled /\ ~Zeeks(Files[n]) THEN {Error("zeek", name)} ELSE {})
  BY <1>2, <1>m, <1>t DEF Pcap
<1>4. \A i \in DOMAIN Files : i < n + 1 => i < n \/ i = n
  BY <1>2
<1>5. pc' \in {"rest", "raised"} /\ (pc' = "raised" => ~Listed)
  BY <1>2, <1>3 DEF ReportOrRaise
<1>6. \A w, m : Told(w, m) => Told(w, m)'
  BY <1>3 DEF ReportOrRaise, Report, Told
<1>7. \A i \in DOMAIN Files : Settled(i) => Settled(i)'
  BY <1>2, <1>5 DEF Settled
<1>8. Settled(n)' /\ ~Settled(n)
  BY <1>2 DEF Settled
<1>9. TypeInv' /\ Fresh'
  <2>1. \A i \in Evtx : i < next'
    BY <1>2, RequestFacts DEF TypeInv
  <2>2. next' \in 1..Len(Files) + 1
    BY <1>2
  <2>3. made' \in [(DOMAIN Files) \X Tool -> Nat]
    BY <1>3, AddFacts DEF TypeInv
  <2>4. noZeek' \in BOOLEAN
    BY <1>3, RequestFacts DEF TypeInv
  <2>5. QED
    BY <1>2, <1>5, <2>1, <2>2, <2>3, <2>4 DEF TypeInv, Fresh, PCs
<1>10. SkippedFiles'
  BY <1>2 DEF SkippedFiles
<1>11. noZeek => noZeek'
  BY <1>3
<1>12. ASSUME NEW i \in DOMAIN Files, i # n, Handled(i), ZeekHandled(i),
              \A t \in Tool : (Came(i, t) => Came(i, t)') /\ (Came(i, t)' => Came(i, t))
       PROVE  Handled(i)' /\ ZeekHandled(i)'
  <2>1. ToolOf(Files[i].kind) \in Tool
    BY ToolOfAlarm DEF TypeInv
  <2>2. QED
    BY <1>12, <2>1, <1>2, <1>6, <1>11 DEF Handled, ZeekHandled
<1>13. CASE /\ ReportOrRaise({Error("pcap", name)}, "rest")
            /\ UNCHANGED <<made, noZeek>>
  <2>1. \A i, t : Came(i, t)' = Came(i, t)
    BY <1>13 DEF Came
  <2>2. ~Came(n, "tshark")
    BY <1>2, <1>8, Unsettled
  <2>3. /\ Listed => Told("pcap", name)'
        /\ \A e \in errors' : e \in errors \/ e = Error("pcap", name)
    BY <1>13 DEF ReportOrRaise, Report, Told
  <2>4. Single'
    BY <1>13, <1>2, <1>7 DEF Single, TypeInv
  <2>5. Alarm(Error("pcap", name), n)'
    BY <1>2, <1>8, <2>1, <2>2 DEF Alarm, Error
  <2>6. Alarms'
    BY <1>2, <1>7, <2>1, <2>3, <2>5 DEF Alarms, Alarm
  <2>7. Listed => Handled(n)' /\ ZeekHandled(n)'
    BY <1>2, <2>1, <2>2, <2>3 DEF Handled, ZeekHandled
  <2>8. Listed => \A i \in DOMAIN Files : i < next' => Handled(i)' /\ ZeekHandled(i)'
    BY <1>2, <1>4, <1>12, <2>1, <2>7 DEF Nothing
  <2>9. Nothing'
    BY <1>2, <1>5, <2>8 DEF Nothing
  <2>10. QED
    BY <1>9, <1>10, <2>4, <2>6, <2>9
<1>14. CASE /\ Add({n}, tools) /\ pc' = "rest" /\ noZeek' = (noZeek \/ ~ZeekInstalled)
            /\ Report(IF ZeekInstalled /\ ~Zeeks(Files[n]) THEN {Error("zeek", name)} ELSE {})
  <2>1. \A i \in DOMAIN Files, t \in Tool :
          /\ Came(i, t) => Came(i, t)'
          /\ i \in {n} /\ t \in tools => Came(i, t)'
          /\ Came(i, t)' => Came(i, t) \/ (i \in {n} /\ t \in tools)
    <3> SUFFICES ASSUME NEW i \in DOMAIN Files, NEW t \in Tool
                 PROVE  /\ Came(i, t) => Came(i, t)'
                        /\ i \in {n} /\ t \in tools => Came(i, t)'
                        /\ Came(i, t)' => Came(i, t) \/ (i \in {n} /\ t \in tools)
      OBVIOUS
    <3>1. QED
      BY <1>14, AddFacts
  <2>2. "tshark" \in tools /\ ("zeek" \in tools <=> Zeeks(Files[n]))
    BY <1>t
  <2>3. /\ Listed /\ ZeekInstalled /\ ~Zeeks(Files[n]) => Told("zeek", name)'
        /\ \A e \in errors' : e \in errors \/ (e = Error("zeek", name) /\ ~Zeeks(Files[n]))
    BY <1>14 DEF Report, Told
  <2>4. Single'
    BY <1>14, <1>2, <1>7, <1>8, SingleStep
  <2>5. ASSUME NEW e, NEW i \in DOMAIN Files, Alarm(e, i) PROVE Alarm(e, i)'
    BY <2>5, <1>14, <1>7, <1>8, AlarmStep
  <2>6. ~Zeeks(Files[n]) => Alarm(Error("zeek", name), n)'
    <3>1. ~Zeeks(Files[n]) => ~Came(n, "zeek")'
      BY <1>2, <1>8, <2>1, <2>2, Unsettled
    <3>2. QED
      BY <1>2, <1>8, <3>1 DEF Alarm, Error
  <2>7. Alarms'
    BY <1>2, <2>3, <2>5, <2>6 DEF Alarms
  <2>8. Listed => Handled(n)' /\ ZeekHandled(n)'
    <3>1. Came(n, "tshark")'
      BY <1>2, <2>1, <2>2
    <3>2. Zeeks(Files[n]) => Came(n, "zeek")'
      BY <1>2, <2>1, <2>2
    <3>3. ~ZeekInstalled => noZeek'
      BY <1>14
    <3>4. QED
      BY <1>2, <2>3, <3>1, <3>2, <3>3 DEF Handled, ZeekHandled
  <2>9. Listed => \A i \in DOMAIN Files : i < next' => Handled(i)' /\ ZeekHandled(i)'
    BY <1>2, <1>4, <1>12, <2>1, <2>8 DEF Nothing
  <2>10. Nothing'
    BY <1>2, <1>14, <2>9 DEF Nothing
  <2>11. QED
    BY <1>9, <1>10, <2>4, <2>7, <2>10
<1>15. QED
  BY <1>3, <1>13, <1>14

-----------------------------------------------------------------------------

LEMMA InitInv == Init => BuildInv
<1> SUFFICES ASSUME Init PROVE BuildInv
  OBVIOUS
<1> USE DEF Init
<1>1. job \in DOMAIN Request /\ next \in 1..Len(Files) + 1 /\ Evtx = 1..next - 1
  OBVIOUS
<1>2. Len(Files) \in Nat /\ DOMAIN Files = 1..Len(Files) /\ next \in Nat /\ next >= 1
  BY <1>1, RequestFacts
<1>3. pc \in {"rest", "pool", "stage"} /\ (pc = "rest" => Cardinality(Evtx) = 0)
  OBVIOUS
<1>4. pc = "rest" => next = 1
  <2>1. next > 1 => Cardinality(1..next - 1) = (next - 1) - 1 + 1
    <3> SUFFICES ASSUME next > 1 PROVE Cardinality(1..next - 1) = (next - 1) - 1 + 1
      OBVIOUS
    <3> DEFINE m == next - 1
    <3>1. m \in Int /\ m >= 1
      BY <1>2
    <3> HIDE DEF m
    <3>2. Cardinality(1..m) = m - 1 + 1
      <4>1. 1 \in Int
        OBVIOUS
      <4>2. Cardinality(1..m) = IF 1 > m THEN 0 ELSE m - 1 + 1
        BY <3>1, <4>1, FS_Interval, Zenon
      <4>3. QED
        BY <3>1, <4>2
    <3>3. QED
      BY <3>2 DEF m
  <2>2. QED
    BY <2>1, <1>1, <1>2, <1>3
<1>5. TypeInv
  <2>1. made \in [(DOMAIN Files) \X Tool -> Nat] /\ worker \in [Evtx -> States]
    BY DEF States
  <2>2. /\ \A i \in Evtx : i < next
        /\ \A i \in DOMAIN Files : i < next => i \in Evtx
    BY <1>1, <1>2
  <2>3. QED
    BY <1>1, <1>3, <2>1, <2>2 DEF TypeInv, PCs
<1>6. Fresh /\ Single /\ Alarms /\ SkippedFiles
  BY <1>3 DEF Fresh, Single, Alarms, SkippedFiles
<1>7. Nothing
  BY <1>1, <1>2, <1>3, <1>4 DEF Nothing
<1>8. QED
  BY <1>5, <1>6, <1>7 DEF BuildInv

LEMMA NextInv == BuildInv /\ [Next]_vars => BuildInv'
<1> SUFFICES ASSUME BuildInv, [Next]_vars PROVE BuildInv'
  OBVIOUS
<1>1. CASE Main
  BY <1>1, StageInv, LinksInv, RunBatchInv, CollectInv, PoolEndsInv, SkipsInv, AdapterInv, PcapInv, ZeekMissingInv,
     FinishInv DEF Main, Links
<1>2. ASSUME NEW i \in Evtx, Task(i) PROVE BuildInv'
  BY <1>2, StartInv, LinksInv, ProcessInv DEF Task, Links
<1>3. ASSUME NEW p \in Peers, Peer(p) PROVE BuildInv'
  BY <1>3, LinksInv DEF Peer
<1>4. CASE UNCHANGED vars
  BY <1>4, LinksInv DEF vars
<1>5. QED
  BY <1>1, <1>2, <1>3, <1>4 DEF Next

\* The invariant holds of every request.
LEMMA Invariant == Spec => []BuildInv
BY InitInv, NextInv, PTL DEF Spec

\* Every variable of a request has its type, and an error names a file of the
\* request or none: no staged name is ever reported.
THEOREM BuildTyped == Spec => []BuildTypeOK
<1>1. BuildInv /\ LinkInv => BuildTypeOK
  <2> SUFFICES ASSUME BuildInv, LinkInv PROVE BuildTypeOK
    OBVIOUS
  <2>1. \A e \in errors : e.name = None \/ \E i \in DOMAIN Files : e.name = Files[i].name
    BY DEF BuildInv, Alarms, Alarm
  <2>2. skipped \subseteq {Files[i].name : i \in Evtx}
    BY DEF BuildInv, SkippedFiles
  <2>3. QED
    BY <2>1, <2>2 DEF BuildInv, TypeInv, PCs, States, LinkInv, BuildTypeOK
<1>2. QED
  BY <1>1, Invariant, FollowsRuleLinks, LinkInvariant, PTL

\* Every file contributes at most once by each tool, whatever batch and pool
\* made of it between them (RunBatch keeps nothing of a batch that failed).
THEOREM ContributesOnce == Spec => []OnceOnly
<1>1. BuildInv => OnceOnly
  BY DEF BuildInv, Single, OnceOnly
<1>2. QED
  BY <1>1, Invariant, PTL

\* Every error that names a file names one the analyst gave, which that tool
\* contributed nothing of (the names a batch is staged under are undone).
THEOREM AlarmsAreTrue == Spec => []NoFalseAlarm
<1>1. BuildInv => NoFalseAlarm
  BY DEF BuildInv, Alarms, Alarm, NoFalseAlarm
<1>2. QED
  BY <1>1, Invariant, PTL

-----------------------------------------------------------------------------
(* Loops                                                                    *)

\* Every set of naturals has a least.
LEMMA LeastNat ==
    ASSUME NEW S \in SUBSET Nat, S # {}
    PROVE  \E n \in S : \A m \in S : n <= m
<1> DEFINE F == {0..n : n \in S}
           R == StrictSubsetOrdering(Nat)
           D == FiniteSubsetsOf(Nat)
<1>1. F \subseteq D
  <2> SUFFICES ASSUME NEW T \in F PROVE T \in D
    OBVIOUS
  <2>1. PICK n \in S : T = 0..n
    OBVIOUS
  <2>2. IsFiniteSet(0..n)
    BY FS_Interval
  <2>3. 0..n \subseteq Nat
    OBVIOUS
  <2> QED
    BY <2>1, <2>2, <2>3 DEF FiniteSubsetsOf
<1>2. F # {}
  OBVIOUS
<1>3. IsWellFoundedOn(R, D)
  BY FS_StrictSubsetOrderingWellFounded
<1>4. PICK T \in F : \A U \in F : <<U, T>> \notin R
  <2> HIDE DEF F, R, D
  <2> QED
    BY <1>1, <1>2, <1>3, WFMin
<1>5. PICK n \in S : T = 0..n
  OBVIOUS
<1>6. ASSUME NEW m \in S, ~(n <= m) PROVE FALSE
  <2>1. <<0..m, 0..n>> \notin R
    BY <1>4, <1>5
  <2>2. 0..m \subseteq 0..n /\ n \in 0..n /\ n \notin 0..m
    BY <1>6
  <2>3. 0..m \in SUBSET Nat /\ 0..n \in SUBSET Nat
    OBVIOUS
  <2> QED
    BY <2>1, <2>2, <2>3 DEF StrictSubsetOrdering
<1> QED
  BY <1>6

\* f holds the values of a loop that computes each from the one before.
Loop(f, A, base, N, move) ==
    /\ f \in [0..N -> A]
    /\ f[0] = base /\ \A n \in 1..N : f[n] = move[<<f[n - 1], n>>]

\* A loop of finitely many steps has its values.
LEMMA LoopExists ==
    ASSUME NEW A, NEW base \in A, NEW N \in Nat, NEW move \in [A \X (1..N) -> A]
    PROVE  \E f : Loop(f, A, base, N, move)
<1> DEFINE Runs(m, f) == f[0] = base /\ \A n \in 1..m : f[n] = move[<<f[n - 1], n>>]
           Stuck == {m \in 0..N : ~\E f \in [0..m -> A] : Runs(m, f)}
<1>1. SUFFICES ASSUME Stuck # {} PROVE FALSE
  <2>1. N \in 0..N /\ (N \notin Stuck => \E f \in [0..N -> A] : Runs(N, f))
    OBVIOUS
  <2>2. QED
    BY <1>1, <2>1 DEF Loop
<1>2. PICK m \in Stuck : \A n \in Stuck : m <= n
  <2>1. Stuck \in SUBSET Nat
    OBVIOUS
  <2> HIDE DEF Stuck
  <2>2. QED
    BY <1>1, <2>1, LeastNat
<1>3. m # 0
  <2>1. [n \in 0..0 |-> base] \in [0..0 -> A] /\ Runs(0, [n \in 0..0 |-> base])
    OBVIOUS
  <2>2. QED
    BY <2>1
<1>4. m \in 1..N /\ m - 1 \in 0..N /\ m - 1 \notin Stuck
  BY <1>2, <1>3
<1>5. PICK f \in [0..(m - 1) -> A] : Runs(m - 1, f)
  BY <1>4
<1> DEFINE g == [n \in 0..m |-> IF n < m THEN f[n] ELSE move[<<f[m - 1], m>>]]
<1>6. g \in [0..m -> A]
  <2>1. f[m - 1] \in A /\ <<f[m - 1], m>> \in A \X (1..N)
    BY <1>4
  <2>2. move[<<f[m - 1], m>>] \in A
    BY <2>1
  <2>3. \A n \in 0..m : n < m => f[n] \in A
    BY <1>4
  <2>4. QED
    BY <2>2, <2>3
<1>7. Runs(m, g)
  <2>1. g[0] = base
    BY <1>4, <1>5
  <2>2. ASSUME NEW n \in 1..m PROVE g[n] = move[<<g[n - 1], n>>]
    <3>1. n - 1 \in 0..m /\ n \in 0..m /\ g[n - 1] = f[n - 1]
      BY <1>4
    <3>2. CASE n < m
      <4>1. n \in 1..(m - 1)
        BY <1>4, <3>2
      <4>2. f[n] = move[<<f[n - 1], n>>]
        BY <1>5, <4>1
      <4>3. QED
        BY <3>1, <3>2, <4>2
    <3>3. CASE n = m
      BY <3>1, <3>3
    <3>4. QED
      BY <1>4, <3>2, <3>3
  <2>3. QED
    BY <2>1, <2>2
<1>8. QED
  BY <1>2, <1>6, <1>7

-----------------------------------------------------------------------------
(* A .reg export                                                            *)

\* What ExportAssumption says of its lines.
Export(lines) ==
    /\ Len(lines) \in Nat /\ DOMAIN lines = 1..Len(lines)
    /\ \A i \in DOMAIN lines :
         /\ "kind" \in DOMAIN lines[i] /\ lines[i].n # None
         /\ \A j \in DOMAIN lines : lines[i].n = lines[j].n => i = j
         /\ lines[i].kind = "key" => lines[i].key # None /\ lines[i].key.name # None

\* Of the lines up to the i-th that open or delete a key, the last.
Above(lines, i, j) == j \in KeysTo(lines, i) /\ \A k \in KeysTo(lines, i) : k <= j

\* A value line under a key.
Owns(lines, i, j) ==
    /\ Begins(lines, i) /\ lines[i].kind \in {"value", "deleted value"}
    /\ Above(lines, i, j) /\ lines[j].kind = "key"

\* A record of the i-th line: of a value under the key above it, or of a
\* deletion.
RecordOf(lines, i, r) ==
    /\ r.of = lines[i].n
    /\ \/ lines[i].kind = "deleted key"
       \/ \E j \in 1..i : /\ Owns(lines, i, j) /\ r.key = lines[j].key.name
                          /\ r.category \in {None, ClassifyKey(lines[j].key)}

\* The loop's state after n lines: the key is the one above, every record is
\* of a line read, and every value under a key has one.
Through(lines, n, s) ==
    /\ KeysTo(lines, n) = {} => s.key = None
    /\ KeysTo(lines, n) # {} => \E j \in KeysTo(lines, n) :
          /\ Above(lines, n, j)
          /\ lines[j].kind = "key" => s.key = lines[j].key /\ s.category = ClassifyKey(lines[j].key)
          /\ lines[j].kind = "deleted key" => s.key = None
    /\ \A k \in 1..Len(s.out) : \E i \in 1..n : RecordOf(lines, i, s.out[k])
    /\ \A i \in 1..n, j \in 1..n : Owns(lines, i, j) => \E k \in 1..Len(s.out) : s.out[k].of = lines[i].n

\* The values the loop's state takes.
KeysIn(lines)    == {None} \cup {lines[i].key : i \in DOMAIN lines}
RecordsIn(lines) ==
    {KeyDeleted(LogicalLines(lines)[i]) : i \in DOMAIN lines}
      \cup {ValueRecord(p[1], p[2], DecodeHexString(LogicalLines(lines)[p[3]])) :
              p \in KeysIn(lines) \X ({None} \cup {ClassifyKey(lines[i].key) : i \in DOMAIN lines}) \X DOMAIN lines}
StatesIn(lines) ==
    [key : KeysIn(lines), category : {None} \cup {ClassifyKey(lines[i].key) : i \in DOMAIN lines},
     out : Seq(RecordsIn(lines))]

\* A logical line: what it keeps of the line it begins with.
LEMMA LogicalLine ==
    ASSUME NEW lines, Export(lines), NEW n \in 1..Len(lines), NEW l, l = LogicalLines(lines)[n]
    PROVE  /\ l.n = lines[n].n /\ l.key = lines[n].key /\ l.name = lines[n].name
           /\ Begins(lines, n) => l.kind = lines[n].kind
           /\ ~Begins(lines, n) => l.kind = "more"
           /\ DecodeHexString(l).n = l.n /\ DecodeHexString(l).kind = l.kind
<1>1. l = [lines[n] EXCEPT !.kind = IF Begins(lines, n) THEN @ ELSE "more"]
  BY DEF LogicalLines, Begins, Export
<1>2. "kind" \in DOMAIN lines[n]
  BY DEF Export
<1>3. l.n = lines[n].n /\ l.key = lines[n].key /\ l.name = lines[n].name
  BY <1>1
<1>4. l.kind = IF Begins(lines, n) THEN lines[n].kind ELSE "more"
  BY <1>1, <1>2
<1>5. DecodeHexString(l).n = l.n /\ DecodeHexString(l).kind = l.kind
  BY DEF DecodeHexString
<1>6. QED
  BY <1>3, <1>4, <1>5

\* A value's record is one of the records there can be.
LEMMA ValueRecordIn ==
    ASSUME NEW lines, NEW s \in StatesIn(lines), NEW n \in DOMAIN lines, NEW l, l = LogicalLines(lines)[n]
    PROVE  ValueRecord(s.key, s.category, DecodeHexString(l)) \in RecordsIn(lines)
<1> DEFINE cats == {None} \cup {ClassifyKey(lines[i].key) : i \in DOMAIN lines}
           rec == ValueRecord(s.key, s.category, DecodeHexString(l))
           P == KeysIn(lines) \X cats \X DOMAIN lines
           p == <<s.key, s.category, n>>
<1>1. p \in P
  BY DEF StatesIn
<1>2. rec = ValueRecord(p[1], p[2], DecodeHexString(LogicalLines(lines)[p[3]]))
  OBVIOUS
<1> HIDE DEF rec, p
<1>3. rec \in RecordsIn(lines)
  BY <1>1, <1>2 DEF RecordsIn
<1>4. QED
  BY <1>3 DEF rec

\* The loop stays among its states.
LEMMA StepStays ==
    ASSUME NEW lines, Export(lines), NEW s \in StatesIn(lines), NEW n \in 1..Len(lines),
           NEW l, l = LogicalLines(lines)[n]
    PROVE  RegStep(s, l) \in StatesIn(lines)
<1> DEFINE cats == {None} \cup {ClassifyKey(lines[i].key) : i \in DOMAIN lines}
           rec == ValueRecord(s.key, s.category, DecodeHexString(l))
<1>1. n \in DOMAIN lines /\ l.key = lines[n].key
  <2>1. n \in DOMAIN lines
    BY DEF Export
  <2>2. l.key = lines[n].key
    BY LogicalLine
  <2>3. QED
    BY <2>1, <2>2
<1>2. s.key \in KeysIn(lines) /\ s.category \in cats /\ s.out \in Seq(RecordsIn(lines))
  BY DEF StatesIn
<1>3. rec \in RecordsIn(lines)
  BY <1>1, <1>2, ValueRecordIn
<1>4. KeyDeleted(l) \in RecordsIn(lines)
  BY <1>1 DEF RecordsIn
<1>5. l.key \in KeysIn(lines) /\ ClassifyKey(l.key) \in cats /\ None \in KeysIn(lines) /\ None \in cats
  BY <1>1 DEF KeysIn
<1>6. Append(s.out, rec) \in Seq(RecordsIn(lines)) /\ Append(s.out, KeyDeleted(l)) \in Seq(RecordsIn(lines))
  BY <1>2, <1>3, <1>4, AppendProperties
<1> HIDE DEF rec, cats
<1>7. StatesIn(lines) = [key : KeysIn(lines), category : cats, out : Seq(RecordsIn(lines))]
  BY DEF StatesIn, cats
<1>8. CASE l.kind = "key"
  <2>1. RegStep(s, l) = [s EXCEPT !.key = l.key, !.category = ClassifyKey(l.key)]
    BY <1>8 DEF RegStep
  <2>2. RegStep(s, l) = [key |-> l.key, category |-> ClassifyKey(l.key), out |-> s.out]
    <3>1. s \in [key : KeysIn(lines), category : cats, out : Seq(RecordsIn(lines))]
      BY <1>7
    <3>2. QED
      BY <2>1, <3>1
  <2>3. QED
    BY <1>2, <1>5, <1>7, <2>2
<1>9. CASE l.kind = "deleted key"
  <2>1. RegStep(s, l) = [key |-> None, category |-> None, out |-> Append(s.out, KeyDeleted(l))]
    BY <1>9 DEF RegStep
  <2>2. QED
    BY <1>5, <1>6, <1>7, <2>1
<1>10. CASE l.kind \in {"value", "deleted value"} /\ s.key # None
  <2>1. RegStep(s, l) = [s EXCEPT !.out = Append(@, rec)]
    BY <1>10 DEF RegStep, rec
  <2>2. QED
    BY <1>6, <1>7, <2>1
<1>11. CASE ~(l.kind = "key" \/ l.kind = "deleted key" \/ (l.kind \in {"value", "deleted value"} /\ s.key # None))
  <2>1. RegStep(s, l) = s
    BY <1>11 DEF RegStep
  <2>2. QED
    BY <2>1
<1>12. QED
  BY <1>8, <1>9, <1>10, <1>11

\* One line more.
LEMMA StepThrough ==
    ASSUME NEW lines, Export(lines), NEW s \in StatesIn(lines), NEW n \in 1..Len(lines),
           Through(lines, n - 1, s), NEW l, l = LogicalLines(lines)[n], NEW r, r = RegStep(s, l)
    PROVE  Through(lines, n, r)
<1>1. /\ l.n = lines[n].n /\ l.key = lines[n].key
      /\ Begins(lines, n) => l.kind = lines[n].kind
      /\ ~Begins(lines, n) => l.kind = "more"
      /\ DecodeHexString(l).n = l.n /\ DecodeHexString(l).kind = l.kind
  BY LogicalLine
<1>2. n \in DOMAIN lines /\ Len(lines) \in Nat /\ n \in Nat /\ s.out \in Seq(RecordsIn(lines))
  BY DEF Export, StatesIn
<1> DEFINE opens == Begins(lines, n) /\ lines[n].kind \in {"key", "deleted key"}
<1>3. /\ opens => KeysTo(lines, n) = KeysTo(lines, n - 1) \cup {n}
      /\ ~opens => KeysTo(lines, n) = KeysTo(lines, n - 1)
      /\ \A k \in KeysTo(lines, n - 1) : k <= n
      /\ \A k \in KeysTo(lines, n - 1) : lines[k].kind \in {"key", "deleted key"}
  <2>1. 1..n = 1..(n - 1) \cup {n} /\ n \notin 1..(n - 1) /\ \A k \in 1..(n - 1) : k <= n
    BY <1>2
  <2>2. \A k \in KeysTo(lines, n - 1) : k \in 1..(n - 1) /\ lines[k].kind \in {"key", "deleted key"}
    BY DEF KeysTo
  <2>3. \A k : k \in KeysTo(lines, n) <=> k \in KeysTo(lines, n - 1) \/ (k = n /\ opens)
    BY <2>1 DEF KeysTo
  <2> HIDE DEF opens
  <2>4. opens => KeysTo(lines, n) = KeysTo(lines, n - 1) \cup {n}
    BY <2>3
  <2>5. ~opens => KeysTo(lines, n) = KeysTo(lines, n - 1)
    BY <2>3
  <2>6. QED
    BY <2>1, <2>2, <2>4, <2>5
<1>4. \A k \in 1..Len(s.out) : \E i \in 1..n : RecordOf(lines, i, s.out[k])
  <2> TAKE k \in 1..Len(s.out)
  <2>1. PICK i \in 1..(n - 1) : RecordOf(lines, i, s.out[k])
    BY DEF Through
  <2>2. i \in 1..n
    BY <1>2
  <2>3. QED
    BY <2>1, <2>2
<1>5. ASSUME NEW i \in 1..n, NEW j \in 1..n, Owns(lines, i, j), i # n
      PROVE  \E k \in 1..Len(s.out) : s.out[k].of = lines[i].n
  <2>1. j \in 1..i
    BY <1>5 DEF Owns, Above, KeysTo
  <2>2. i \in 1..(n - 1) /\ j \in 1..(n - 1)
    BY <1>2, <1>5, <2>1
  <2>3. QED
    BY <1>5, <2>2 DEF Through
<1>6. ASSUME NEW rec \in RecordsIn(lines)
      PROVE  LET out == Append(s.out, rec) IN
               /\ Len(out) = Len(s.out) + 1 /\ Len(s.out) \in Nat /\ out[Len(s.out) + 1] = rec
               /\ \A k \in 1..Len(s.out) : out[k] = s.out[k]
  BY <1>2, AppendProperties, LenProperties
<1>7. CASE l.kind = "key"
  <2>1. r = [s EXCEPT !.key = l.key, !.category = ClassifyKey(l.key)]
    BY <1>7 DEF RegStep
  <2>2. r.out = s.out /\ r.key = lines[n].key /\ r.category = ClassifyKey(lines[n].key)
    BY <1>1, <2>1 DEF StatesIn
  <2>3. Begins(lines, n) /\ lines[n].kind = "key"
    BY <1>1, <1>7
  <2>4. n \in KeysTo(lines, n) /\ Above(lines, n, n)
    <3>1. KeysTo(lines, n) = KeysTo(lines, n - 1) \cup {n}
      BY <1>3, <2>3
    <3>2. \A k \in KeysTo(lines, n) : k <= n
      <4>1. n <= n
        BY <1>2
      <4>2. QED
        BY <1>3, <3>1, <4>1
    <3>3. QED
      BY <3>1, <3>2 DEF Above
  <2>5. ASSUME NEW i \in 1..n, NEW j \in 1..n, Owns(lines, i, j)
        PROVE  \E k \in 1..Len(s.out) : s.out[k].of = lines[i].n
    BY <1>5, <2>3, <2>5 DEF Owns
  <2>6. QED
    BY <1>4, <2>2, <2>3, <2>4, <2>5 DEF Through
<1>8. CASE l.kind = "deleted key"
  <2>1. r = [key |-> None, category |-> None, out |-> Append(s.out, KeyDeleted(l))]
    BY <1>8 DEF RegStep
  <2>2. KeyDeleted(l) \in RecordsIn(lines)
    BY <1>2 DEF RecordsIn
  <2>3. Begins(lines, n) /\ lines[n].kind = "deleted key"
    BY <1>1, <1>8
  <2>4. n \in KeysTo(lines, n) /\ Above(lines, n, n)
    <3>1. KeysTo(lines, n) = KeysTo(lines, n - 1) \cup {n}
      BY <1>3, <2>3
    <3>2. \A k \in KeysTo(lines, n) : k <= n
      <4>1. n <= n
        BY <1>2
      <4>2. QED
        BY <1>3, <3>1, <4>1
    <3>3. QED
      BY <3>1, <3>2 DEF Above
  <2>5. KeyDeleted(l).of = lines[n].n
    BY <1>1 DEF KeyDeleted
  <2>6. RecordOf(lines, n, KeyDeleted(l))
    BY <2>3, <2>5 DEF RecordOf
  <2> DEFINE rec == KeyDeleted(l)
             out == Append(s.out, rec)
  <2>7. /\ Len(out) = Len(s.out) + 1 /\ Len(s.out) \in Nat /\ out[Len(s.out) + 1] = rec
        /\ \A k \in 1..Len(s.out) : out[k] = s.out[k]
    BY <1>6, <2>2
  <2>8. r.key = None /\ r.out = out
    BY <2>1
  <2> HIDE DEF rec, out
  <2>9. ASSUME NEW k \in 1..Len(out) PROVE \E i \in 1..n : RecordOf(lines, i, out[k])
    <3>1. k \in 1..Len(s.out) \/ k = Len(s.out) + 1
      BY <2>7
    <3>2. QED
      BY <1>2, <1>4, <2>6, <2>7, <3>1 DEF rec
  <2>10. ASSUME NEW i \in 1..n, NEW j \in 1..n, Owns(lines, i, j)
         PROVE  \E k \in 1..Len(out) : out[k].of = lines[i].n
    <3>1. i # n
      BY <2>3, <2>10 DEF Owns
    <3>2. PICK k \in 1..Len(s.out) : s.out[k].of = lines[i].n
      BY <1>5, <2>10, <3>1
    <3>3. k \in 1..Len(out)
      BY <2>7
    <3>4. QED
      BY <2>7, <3>2, <3>3
  <2>11. QED
    BY <2>3, <2>4, <2>8, <2>9, <2>10 DEF Through
<1>9. CASE l.kind \in {"value", "deleted value"} /\ s.key # None
  <2> DEFINE rec == ValueRecord(s.key, s.category, DecodeHexString(l))
             out == Append(s.out, rec)
  <2>1. r = [s EXCEPT !.out = Append(@, rec)]
    BY <1>9 DEF RegStep
  <2>2. r.key = s.key /\ r.category = s.category /\ r.out = out
    BY <2>1 DEF StatesIn
  <2>3. rec \in RecordsIn(lines)
    BY <1>2, ValueRecordIn
  <2>4. /\ Len(out) = Len(s.out) + 1 /\ Len(s.out) \in Nat /\ out[Len(s.out) + 1] = rec
        /\ \A k \in 1..Len(s.out) : out[k] = s.out[k]
    BY <1>6, <2>3
  <2>5. rec.of = lines[n].n /\ rec.key = s.key.name /\ rec.category \in {None, s.category}
    BY <1>1 DEF ValueRecord
  <2> HIDE DEF rec, out
  <2>6. Begins(lines, n) /\ lines[n].kind \in {"value", "deleted value"}
    BY <1>1, <1>9
  <2>7. KeysTo(lines, n) = KeysTo(lines, n - 1)
    BY <1>3, <2>6
  <2>8. PICK j \in KeysTo(lines, n) :
          /\ Above(lines, n - 1, j)
          /\ lines[j].kind = "key" => s.key = lines[j].key /\ s.category = ClassifyKey(lines[j].key)
          /\ lines[j].kind = "deleted key" => s.key = None
    BY <1>9, <2>7 DEF Through
  <2>9. Above(lines, n, j) /\ lines[j].kind = "key" /\ j \in 1..n
    BY <1>3, <1>9, <2>7, <2>8 DEF Above, KeysTo
  <2>10. RecordOf(lines, n, rec)
    BY <2>5, <2>6, <2>8, <2>9 DEF RecordOf, Owns
  <2>11. ASSUME NEW k \in 1..Len(out) PROVE \E i \in 1..n : RecordOf(lines, i, out[k])
    <3>1. k \in 1..Len(s.out) \/ k = Len(s.out) + 1
      BY <2>4
    <3>2. QED
      BY <1>2, <1>4, <2>4, <2>10, <3>1
  <2>12. ASSUME NEW i \in 1..n, NEW m \in 1..n, Owns(lines, i, m)
         PROVE  \E k \in 1..Len(out) : out[k].of = lines[i].n
    <3>1. CASE i = n
      <4>1. Len(s.out) + 1 \in 1..Len(out)
        BY <2>4
      <4>2. QED
        BY <2>4, <2>5, <3>1, <4>1
    <3>2. CASE i # n
      <4>1. PICK k \in 1..Len(s.out) : s.out[k].of = lines[i].n
        BY <1>5, <2>12, <3>2
      <4>2. k \in 1..Len(out)
        BY <2>4
      <4>3. QED
        BY <2>4, <4>1, <4>2
    <3>3. QED
      BY <3>1, <3>2
  <2>13. QED
    BY <2>2, <2>8, <2>9, <2>11, <2>12 DEF Through
<1>10. CASE ~(l.kind = "key" \/ l.kind = "deleted key" \/ (l.kind \in {"value", "deleted value"} /\ s.key # None))
  <2>1. r = s
    BY <1>10 DEF RegStep
  <2>2. ~opens
    BY <1>1, <1>10
  <2>3. KeysTo(lines, n) = KeysTo(lines, n - 1)
    BY <1>3, <2>2
  <2>4. \A j : Above(lines, n, j) <=> Above(lines, n - 1, j)
    BY <2>3 DEF Above
  <2>5. ASSUME NEW i \in 1..n, NEW j \in 1..n, Owns(lines, i, j)
        PROVE  \E k \in 1..Len(s.out) : s.out[k].of = lines[i].n
    <3>1. CASE i # n
      BY <1>5, <2>5, <3>1
    <3>2. CASE i = n
      <4>1. l.kind \in {"value", "deleted value"}
        BY <1>1, <2>5, <3>2 DEF Owns
      <4>2. s.key = None
        BY <1>10, <4>1
      <4>3. Above(lines, n - 1, j) /\ lines[j].kind = "key" /\ j \in KeysTo(lines, n - 1)
        BY <2>4, <2>5, <3>2 DEF Owns, Above
      <4>4. PICK m \in KeysTo(lines, n - 1) :
              /\ Above(lines, n - 1, m)
              /\ lines[m].kind = "key" => s.key = lines[m].key /\ s.category = ClassifyKey(lines[m].key)
        BY <4>3 DEF Through
      <4>5. m = j
        <5>1. m <= j /\ j <= m
          BY <4>3, <4>4 DEF Above
        <5>2. m \in 1..(n - 1) /\ j \in 1..(n - 1)
          BY <4>3, <4>4 DEF KeysTo, Above
        <5>3. QED
          BY <1>2, <5>1, <5>2
      <4>6. j \in DOMAIN lines
        BY <1>2 DEF Export
      <4>7. lines[j].key # None
        BY <4>3, <4>6 DEF Export
      <4>8. QED
        BY <4>2, <4>3, <4>4, <4>5, <4>7
    <3>3. QED
      BY <3>1, <3>2
  <2>6. KeysTo(lines, n) # {} => \E j \in KeysTo(lines, n) :
          /\ Above(lines, n, j)
          /\ lines[j].kind = "key" => s.key = lines[j].key /\ s.category = ClassifyKey(lines[j].key)
          /\ lines[j].kind = "deleted key" => s.key = None
    BY <2>3, <2>4 DEF Through
  <2>7. KeysTo(lines, n) = {} => s.key = None
    BY <2>3 DEF Through
  <2>8. QED
    BY <1>4, <2>1, <2>5, <2>6, <2>7 DEF Through
<1>11. QED
  BY <1>7, <1>8, <1>9, <1>10

\* What parse_regfile makes of an export.
LEMMA ParseIs ==
    ASSUME NEW lines, Export(lines), NEW out, out = ParseRegfile(lines)
    PROVE  /\ out \in Seq(RecordsIn(lines)) /\ DOMAIN out = 1..Len(out)
           /\ \A k \in 1..Len(out) : \E i \in 1..Len(lines) : RecordOf(lines, i, out[k])
           /\ \A i \in 1..Len(lines), j \in 1..Len(lines) :
                 Owns(lines, i, j) => \E k \in 1..Len(out) : out[k].of = lines[i].n
<1> DEFINE N == Len(lines)
           A == StatesIn(lines)
           base == [key |-> None, category |-> None, out |-> <<>>]
           line(n) == LogicalLines(lines)[n]
           Solves(f) == f = [n \in 0..N |-> IF n = 0 THEN base ELSE RegStep(f[n - 1], line(n))]
           after == CHOOSE f : Solves(f)
<1>1. N \in Nat
  BY DEF Export
<1>2. out = after[N].out
  BY DEF ParseRegfile
<1>3. ASSUME NEW s \in A, NEW n \in 1..N PROVE RegStep(s, line(n)) \in A
  BY StepStays
<1>4. base \in A
  <2>1. <<>> \in Seq(RecordsIn(lines)) /\ None \in KeysIn(lines)
    BY EmptySeq DEF KeysIn
  <2>2. QED
    BY <2>1 DEF StatesIn
<1> HIDE DEF line
<1>5. \E f : Solves(f)
  <2> DEFINE move == [p \in A \X (1..N) |-> RegStep(p[1], line(p[2]))]
  <2>1. move \in [A \X (1..N) -> A]
    BY <1>3
  <2>2. \A s \in A, n \in 1..N : move[<<s, n>>] = RegStep(s, line(n))
    OBVIOUS
  <2> HIDE DEF move, A, N, base
  <2>3. PICK f : Loop(f, A, base, N, move)
    BY <1>1, <1>4, <2>1, LoopExists
  <2>4. f \in [0..N -> A] /\ f[0] = base /\ \A n \in 1..N : f[n] = move[<<f[n - 1], n>>]
    BY <2>3 DEF Loop
  <2>5. \A n \in 1..N : f[n] = RegStep(f[n - 1], line(n))
    <3> TAKE n \in 1..N
    <3>1. n - 1 \in 0..N /\ f[n - 1] \in A
      BY <1>1, <2>4
    <3>2. QED
      BY <2>2, <2>4, <3>1
  <2>6. \A n \in 0..N : f[n] = IF n = 0 THEN base ELSE RegStep(f[n - 1], line(n))
    BY <1>1, <2>4, <2>5
  <2>7. f = [n \in 0..N |-> f[n]]
    BY <2>4
  <2>8. Solves(f)
    BY <2>6, <2>7
  <2>9. QED
    BY <2>8
<1>6. Solves(after)
  BY <1>5
<1> HIDE DEF after
<1>7. \A n \in 0..N : after[n] = IF n = 0 THEN base ELSE RegStep(after[n - 1], line(n))
  BY <1>6
<1> DEFINE Fine(n) == after[n] \in A /\ Through(lines, n, after[n])
           Bad == {n \in 0..N : ~Fine(n)}
<1>8. Fine(0)
  <2>1. after[0] = base
    BY <1>1, <1>7
  <2>2. KeysTo(lines, 0) = {} /\ base.key = None /\ Len(base.out) = 0
    BY DEF KeysTo
  <2> HIDE DEF base
  <2>3. Through(lines, 0, base)
    BY <2>2 DEF Through
  <2>4. QED
    BY <1>4, <2>1, <2>3
<1>9. ASSUME NEW n \in 1..N, Fine(n - 1) PROVE Fine(n)
  <2>1. n \in 0..N /\ n # 0 /\ n \in 1..Len(lines)
    BY <1>1
  <2>2. after[n] = RegStep(after[n - 1], line(n))
    BY <1>7, <2>1
  <2>3. after[n - 1] \in A /\ Through(lines, n - 1, after[n - 1])
    BY <1>9
  <2>4. after[n] \in A
    BY <1>3, <2>2, <2>3
  <2>5. line(n) = LogicalLines(lines)[n]
    BY DEF line
  <2> HIDE DEF Fine
  <2>6. Through(lines, n, after[n])
    BY <2>1, <2>2, <2>3, <2>5, StepThrough
  <2>7. QED
    BY <2>4, <2>6 DEF Fine
<1>10. Bad = {}
  <2> SUFFICES ASSUME Bad # {} PROVE FALSE
    OBVIOUS
  <2>1. Bad \in SUBSET Nat
    OBVIOUS
  <2>2. PICK n \in Bad : \A m \in Bad : n <= m
    <3> HIDE DEF Bad
    <3>1. QED
      BY <2>1, LeastNat
  <2>3. n \in 0..N /\ ~Fine(n)
    OBVIOUS
  <2> HIDE DEF Fine
  <2>4. n \in 1..N /\ n - 1 \in 0..N
    BY <1>1, <1>8, <2>3
  <2>5. n - 1 \notin Bad
    BY <1>1, <2>2, <2>4
  <2>6. QED
    BY <1>9, <2>3, <2>4, <2>5
<1>11. Fine(N)
  BY <1>1, <1>10
<1>12. out \in Seq(RecordsIn(lines))
  BY <1>2, <1>11 DEF StatesIn
<1>13. DOMAIN out = 1..Len(out)
  BY <1>12
<1>14. QED
  BY <1>2, <1>11, <1>12, <1>13 DEF Through

\* Records that are an export's: each of a line of it, each value under a key
\* among them.
ReadOut(lines, rows) ==
    /\ \A r \in rows : \E i \in 1..Len(lines) :
         /\ r.of = lines[i].n
         /\ \/ lines[i].kind = "deleted key"
            \/ \E j \in 1..i : /\ Owns(lines, i, j) /\ r.key = lines[j].key.name
                               /\ Get(r, "category") \in {None, ClassifyKey(lines[j].key)}
    /\ \A i \in 1..Len(lines), j \in 1..Len(lines) : Owns(lines, i, j) => \E r \in rows : r.of = lines[i].n

\* A record of the adapter keeps what parse_regfile says of its value.
LEMMA RegistryRecord ==
    ASSUME NEW lines, Export(lines), NEW c, c.lines = lines, ~c.torn,
           NEW rows, rows = ToSet(Load("registry", c).records)
    PROVE  ReadOut(lines, rows)
<1>1. PICK out : out = ParseRegfile(lines)
  OBVIOUS
<1> DEFINE full(p) == [of |-> p.of, source |-> "registry", ts |-> c.mtime, key |-> p.key, value |-> p.value,
                       category |-> p.category, file |-> p.program, severity |-> p.severity]
           made0 == RegistryRecords(out, LAMBDA r : c.mtime)
           row == [k \in DOMAIN out |-> Clean(full(out[k]))]
<1>2. Load("registry", c) = Loaded(made0)
  BY <1>1 DEF Load
<1>3. made0 = row
  BY DEF RegistryRecords, MapSeq
<1>4. /\ DOMAIN out = 1..Len(out)
      /\ \A k \in 1..Len(out) : \E i \in 1..Len(lines) : RecordOf(lines, i, out[k])
      /\ \A i \in 1..Len(lines), j \in 1..Len(lines) :
            Owns(lines, i, j) => \E k \in 1..Len(out) : out[k].of = lines[i].n
  BY <1>1, ParseIs
<1> HIDE DEF made0
<1>5. rows = {row[k] : k \in 1..Len(out)}
  <2>1. rows = ToSet(made0)
    BY <1>2 DEF Loaded
  <2>2. rows = ToSet(row) /\ DOMAIN row = 1..Len(out)
    BY <1>3, <1>4, <2>1
  <2> HIDE DEF row
  <2>3. QED
    BY <2>2 DEF ToSet
<1>6. \A k \in 1..Len(out) : row[k] = Clean(full(out[k]))
  BY <1>4
<1> HIDE DEF row
<1>7. ASSUME NEW p PROVE /\ p.of # None => Clean(full(p)).of = p.of
                         /\ p.key # None => Clean(full(p)).key = p.key
                         /\ Get(Clean(full(p)), "category") = p.category
  BY DEF Clean, Get
<1> HIDE DEF full
<1>8. \A i \in 1..Len(lines) : /\ lines[i].n # None
                               /\ lines[i].kind = "key" => lines[i].key.name # None
  BY DEF Export
<1>9. ASSUME NEW r \in rows
      PROVE  \E i \in 1..Len(lines) :
                 /\ r.of = lines[i].n
                 /\ \/ lines[i].kind = "deleted key"
                    \/ \E j \in 1..i : /\ Owns(lines, i, j) /\ r.key = lines[j].key.name
                                       /\ Get(r, "category") \in {None, ClassifyKey(lines[j].key)}
  <2>1. PICK k \in 1..Len(out) : r = Clean(full(out[k]))
    BY <1>5, <1>6
  <2>2. PICK i \in 1..Len(lines) : RecordOf(lines, i, out[k])
    BY <1>4
  <2>3. r.of = lines[i].n
    BY <1>7, <1>8, <2>1, <2>2 DEF RecordOf
  <2>4. CASE lines[i].kind = "deleted key"
    BY <2>3, <2>4
  <2>5. CASE lines[i].kind # "deleted key"
    <3>1. PICK j \in 1..i : /\ Owns(lines, i, j) /\ out[k].key = lines[j].key.name
                            /\ out[k].category \in {None, ClassifyKey(lines[j].key)}
      BY <2>2, <2>5 DEF RecordOf
    <3>2. j \in 1..Len(lines) /\ lines[j].kind = "key"
      <4>1. Len(lines) \in Nat
        BY DEF Export
      <4>2. lines[j].kind = "key"
        BY <3>1 DEF Owns
      <4>3. QED
        BY <4>1, <4>2
    <3>3. r.key = lines[j].key.name /\ Get(r, "category") = out[k].category
      BY <1>7, <1>8, <2>1, <3>1, <3>2
    <3>4. QED
      BY <2>3, <3>1, <3>3
  <2>6. QED
    BY <2>4, <2>5
<1>10. ASSUME NEW i \in 1..Len(lines), NEW j \in 1..Len(lines), Owns(lines, i, j)
      PROVE  \E r \in rows : r.of = lines[i].n
  <2>1. PICK k \in 1..Len(out) : out[k].of = lines[i].n
    BY <1>4, <1>10
  <2>2. QED
    BY <1>7, <1>8, <1>5, <1>6, <2>1
<1>11. QED
  BY <1>9, <1>10 DEF ReadOut

\* Of the keys up to a line one is the last.
LEMMA LastKey ==
    ASSUME NEW lines, NEW i \in Nat, KeysTo(lines, i) # {}
    PROVE  \E j \in KeysTo(lines, i) : Above(lines, i, j)
<1>1. KeysTo(lines, i) \subseteq 1..i
  BY DEF KeysTo
<1> DEFINE S == {i - j : j \in KeysTo(lines, i)}
<1>2. S \in SUBSET Nat /\ S # {}
  BY <1>1
<1>3. PICK m \in S : \A k \in S : m <= k
  <2> HIDE DEF S
  <2>1. QED
    BY <1>2, LeastNat
<1>4. PICK j \in KeysTo(lines, i) : m = i - j
  OBVIOUS
<1>5. \A k \in KeysTo(lines, i) : k <= j
  <2> TAKE k \in KeysTo(lines, i)
  <2>1. i - k \in S /\ k \in 1..i /\ j \in 1..i
    BY <1>1
  <2>2. i - j <= i - k
    BY <1>3, <1>4, <2>1
  <2>3. QED
    BY <2>1, <2>2
<1>6. QED
  BY <1>5 DEF Above

\* The last key is the greatest of their lines, and there is but one.
LEMMA AboveIsMax ==
    ASSUME NEW lines, NEW i \in Nat, KeysTo(lines, i) # {}
    PROVE  /\ Above(lines, i, Max(KeysTo(lines, i)))
           /\ \A j : Above(lines, i, j) => j = Max(KeysTo(lines, i))
<1> DEFINE K == KeysTo(lines, i)
<1>1. K \subseteq 1..i
  BY DEF KeysTo
<1>2. \E j \in K : \A k \in K : j >= k
  <2>1. PICK j \in K : Above(lines, i, j)
    BY LastKey
  <2>2. \A k \in K : k <= j
    BY <2>1 DEF Above
  <2>3. QED
    BY <1>1, <2>2
<1>3. Max(K) \in K /\ \A k \in K : Max(K) >= k
  <2> HIDE DEF K
  <2>1. QED
    BY <1>2 DEF Max
<1>4. \A k \in K : k <= Max(K)
  BY <1>1, <1>3
<1>5. Above(lines, i, Max(K))
  BY <1>3, <1>4 DEF Above
<1>6. ASSUME NEW j, Above(lines, i, j) PROVE j = Max(K)
  <2>1. j \in K /\ Max(K) <= j /\ j <= Max(K)
    BY <1>3, <1>4, <1>6 DEF Above
  <2>2. j \in 1..i /\ Max(K) \in 1..i
    BY <1>1, <1>3, <2>1
  <2>3. QED
    BY <2>1, <2>2
<1>7. QED
  BY <1>5, <1>6

-----------------------------------------------------------------------------
(* What a tool's reading of a file is                                       *)

\* May a tool's reading of the file be in records.
Reads(tool, f) ==
    CASE tool = "hayabusa" -> f.kind = "evtx" /\ f.fate = "good"
      [] tool = "tshark"   -> f.kind = "pcap" /\ f.fate = "good"
      [] tool = "zeek"     -> f.kind = "pcap" /\ f.fate = "good" /\ f.content.zeek # None
      [] OTHER             -> f.kind = tool /\ ~Read(f).raised

\* What is in records comes of files the tool is for and did not fail on.
Honest == \A i \in DOMAIN Files, t \in Tool : Came(i, t) => Reads(t, Files[i])

LEMMA HonestAdd ==
    ASSUME TypeInv, Honest, NEW S, NEW tools, Add(S, tools), Files' = Files,
           \A i \in S, t \in tools : Reads(t, Files[i])
    PROVE  Honest'
<1> SUFFICES ASSUME NEW i \in DOMAIN Files, NEW t \in Tool, Came(i, t)'
             PROVE  Reads(t, Files[i])
  BY DEF Honest
<1>1. Came(i, t) \/ (i \in S /\ t \in tools)
  BY AddFacts
<1>2. QED
  BY <1>1 DEF Honest

LEMMA HonestStep == ASSUME TypeInv, Honest, [Next]_vars PROVE Honest'
<1> DEFINE Still == UNCHANGED <<job, made>>
<1>1. CASE Still
  <2>1. Files' = Files
    BY <1>1, SameRequest
  <2>2. \A i, t : Came(i, t)' = Came(i, t)
    BY <1>1 DEF Came
  <2>3. QED
    BY <2>1, <2>2 DEF Honest
<1>2. \A S : \A i \in Good(S \cap Evtx) : Reads("hayabusa", Files[i])
  BY DEF Good, Evtx, Reads
<1>3. CASE RunBatch
  <2>1. Files' = Files
    BY <1>3, SameRequest DEF RunBatch
  <2>2. CASE Add(Good(Evtx), {"hayabusa"})
    <3>1. \A i \in Good(Evtx), t \in {"hayabusa"} : Reads(t, Files[i])
      BY <1>2
    <3>2. QED
      BY <2>1, <2>2, <3>1, HonestAdd
  <2>3. CASE ~Add(Good(Evtx), {"hayabusa"})
    BY <1>1, <1>3, <2>3 DEF RunBatch, BatchFails
  <2>4. QED
    BY <2>2, <2>3
<1>4. ASSUME NEW i \in Evtx, Collect(i) PROVE Honest'
  <2>1. Files' = Files
    BY <1>4, SameRequest DEF Collect
  <2>2. CASE Add(Good({i}), {"hayabusa"})
    <3>1. {i} \cap Evtx = {i}
      OBVIOUS
    <3>2. \A j \in Good({i}), t \in {"hayabusa"} : Reads(t, Files[j])
      BY <1>2, <3>1
    <3>3. QED
      BY <2>1, <2>2, <3>2, HonestAdd
  <2>3. CASE ~Add(Good({i}), {"hayabusa"})
    BY <1>1, <1>4, <2>3 DEF Collect
  <2>4. QED
    BY <2>2, <2>3
<1>5. CASE Adapter
  <2>1. Files' = Files
    BY <1>5, SameRequest DEF Adapter
  <2>2. CASE <<job, next>> \in Lost
    BY <1>1, <1>5, <2>2 DEF Adapter
  <2>3. CASE <<job, next>> \notin Lost
    <3>n. PICK n : n = next
      OBVIOUS
    <3>k. PICK kind : kind = Files[n].kind
      OBVIOUS
    <3>1. Add({n}, {kind})
      BY <1>5, <2>3, <3>n, <3>k DEF Adapter
    <3>2. n \in DOMAIN Files /\ job \in DOMAIN Request /\ kind \in Adapted
      BY <1>5, <3>n, <3>k, RequestFacts DEF Adapter, At, TypeInv
    <3>3. ~Read(Files[n]).raised
      BY <2>3, <3>2, <3>n DEF Lost, Files
    <3>4. Reads(kind, Files[n])
      BY <3>2, <3>3, <3>k DEF Reads, Adapted
    <3>5. \A i \in {n}, t \in {kind} : Reads(t, Files[i])
      BY <3>4
    <3>6. QED
      BY <2>1, <3>1, <3>5, HonestAdd
  <2>4. QED
    BY <2>2, <2>3
<1>6. CASE Pcap
  <2>1. Files' = Files
    BY <1>6, SameRequest DEF Pcap
  <2>n. PICK n : n = next
    OBVIOUS
  <2>t. PICK tools : tools = {"tshark"} \cup (IF Zeeks(Files[n]) THEN {"zeek"} ELSE {})
    OBVIOUS
  <2>2. CASE Files[n].fate = "good"
    <3>1. Add({n}, tools) /\ Files[n].kind = "pcap"
      BY <1>6, <2>2, <2>n, <2>t DEF Pcap, At
    <3>2. \A i \in {n}, t \in tools : Reads(t, Files[i])
      BY <2>2, <2>t, <3>1 DEF Reads, Zeeks
    <3>3. QED
      BY <2>1, <3>1, <3>2, HonestAdd
  <2>3. CASE Files[n].fate # "good"
    BY <1>1, <1>6, <2>3, <2>n DEF Pcap
  <2>4. QED
    BY <2>2, <2>3
<1>7. CASE Main
  <2>1. CASE Stage \/ Links(Batch) \/ PoolEnds \/ Skips \/ ZeekMissing \/ Finish
    <3>1. Still
      BY <2>1 DEF Stage, BatchFails, Links, buildVars, PoolEnds, Skips, ZeekMissing, Finish
    <3>2. QED
      BY <1>1, <3>1
  <2>2. QED
    BY <1>3, <1>4, <1>5, <1>6, <1>7, <2>1 DEF Main
<1>8. ASSUME NEW i \in Evtx, Task(i) PROVE Still
  BY <1>8 DEF Task, Start, Links, buildVars, ProcessEvtx
<1>9. ASSUME NEW p \in Peers, Peer(p) PROVE Still
  BY <1>9 DEF Peer, buildVars
<1>10. CASE UNCHANGED vars
  BY <1>1, <1>10 DEF vars, buildVars
<1>11. QED
  BY <1>1, <1>7, <1>8, <1>9, <1>10 DEF Next

LEMMA HonestInvariant == Spec => []Honest
<1>1. Init => Honest
  <2>1. ASSUME Init, NEW i \in DOMAIN Files, NEW t \in Tool PROVE ~Came(i, t)
    <3>1. <<i, t>> \in (DOMAIN Files) \X Tool
      OBVIOUS
    <3>2. made[<<i, t>>] = 0
      BY <2>1, <3>1 DEF Init
    <3>3. QED
      BY <3>2 DEF Came
  <2>2. QED
    BY <2>1 DEF Honest
<1>2. BuildInv /\ Honest /\ [Next]_vars => Honest'
  BY HonestStep DEF BuildInv
<1>3. QED
  BY <1>1, <1>2, Invariant, PTL DEF Spec

\* The value lines of an export that are under a key.
LEMMA OwnedIs ==
    ASSUME NEW lines, Export(lines), NEW i \in DOMAIN lines
    PROVE  /\ Owned(lines, i) => Owns(lines, i, Max(KeysTo(lines, i))) /\ Max(KeysTo(lines, i)) \in 1..Len(lines)
           /\ \A j : Owns(lines, i, j) => Owned(lines, i) /\ j = Max(KeysTo(lines, i))
<1>1. i \in Nat /\ \A j \in 1..i : j \in 1..Len(lines)
  BY DEF Export
<1>2. CASE KeysTo(lines, i) # {}
  <2>1. /\ Above(lines, i, Max(KeysTo(lines, i)))
        /\ \A j : Above(lines, i, j) => j = Max(KeysTo(lines, i))
    BY <1>1, <1>2, AboveIsMax
  <2>2. Max(KeysTo(lines, i)) \in 1..i
    BY <2>1 DEF Above, KeysTo
  <2>3. QED
    BY <1>1, <1>2, <2>1, <2>2 DEF Owns, Owned, KeyLine
<1>3. CASE KeysTo(lines, i) = {}
  BY <1>3 DEF Owns, Above, Owned
<1>4. QED
  BY <1>2, <1>3

\* The export of a request that is in records, and its records.
LEMMA ExportRead ==
    ASSUME BuildInv, Honest, NEW f \in DOMAIN Files, Came(f, "registry")
    PROVE  Export(Files[f].content.lines) /\ ReadOut(Files[f].content.lines, ToSet(RecordsOf(f, "registry")))
<1>l. PICK lines, rows : lines = Files[f].content.lines /\ rows = ToSet(RecordsOf(f, "registry"))
  OBVIOUS
<1>1. Files[f].kind = "registry" /\ ~Read(Files[f]).raised
  <2>1. "registry" \in Tool
    BY DEF Tool, Adapted
  <2>2. QED
    BY <2>1 DEF Honest, Reads
<1>2. Read(Files[f]) = Load("registry", Files[f].content) /\ ~Files[f].content.torn
  <2>1. Raised.raised
    BY DEF Raised
  <2>2. Read(Files[f]) = Load("registry", Files[f].content)
    BY <1>1, <2>1 DEF Read
  <2>3. Files[f].content.torn => Load("registry", Files[f].content) = Raised
    BY DEF Load
  <2>4. QED
    BY <1>1, <2>1, <2>2, <2>3
<1>3. Export(lines)
  <2>1. job \in DOMAIN Request
    BY DEF BuildInv, TypeInv
  <2>2. f \in DOMAIN Request[job].files /\ Request[job].files[f].kind = "registry"
        /\ lines = Request[job].files[f].content.lines
    BY <1>1, <1>l DEF Files
  <2>3. QED
    BY <2>1, <2>2, ExportAssumption DEF Export
<1>4. PICK c : c = Files[f].content
  OBVIOUS
<1>5. rows = ToSet(Load("registry", c).records)
  BY <1>2, <1>4, <1>l DEF RecordsOf
<1>6. c.lines = lines /\ ~c.torn
  BY <1>2, <1>4, <1>l
<1>7. ReadOut(lines, rows)
  BY <1>3, <1>5, <1>6, RegistryRecord
<1>8. QED
  BY <1>3, <1>7, <1>l

\* In every request, a value of a .reg export is a record exactly if a key
\* stands above it that is not deleted, and has that key and its category; for
\* exports of any length (parse_regfile's loop and RegistryRecords).
THEOREM ValuesBelong == Spec => []ValuesUnderTheirKey
<1>1. BuildInv /\ Honest => ValuesUnderTheirKey
  <2> SUFFICES ASSUME BuildInv, Honest, NEW f \in DOMAIN Files, Came(f, "registry"),
                      NEW lines, lines = Files[f].content.lines,
                      NEW rows, rows = ToSet(RecordsOf(f, "registry"))
               PROVE  /\ \A i \in DOMAIN lines : lines[i].kind \in {"value", "deleted value"} =>
                           (Owned(lines, i) <=> \E r \in rows : r.of = lines[i].n)
                      /\ \A i \in DOMAIN lines : Owned(lines, i) => \A r \in rows : r.of = lines[i].n =>
                           /\ r.key = KeyLine(lines, i).key.name
                           /\ Get(r, "category") \in {None, ClassifyKey(KeyLine(lines, i).key)}
    BY DEF ValuesUnderTheirKey
  <2>1. Export(lines) /\ ReadOut(lines, rows)
    BY ExportRead
  <2>2. /\ Len(lines) \in Nat /\ DOMAIN lines = 1..Len(lines)
        /\ \A i \in DOMAIN lines, j \in DOMAIN lines : lines[i].n = lines[j].n => i = j
    BY <2>1 DEF Export
  <2>3. ASSUME NEW i \in DOMAIN lines
        PROVE  /\ Owned(lines, i) => Owns(lines, i, Max(KeysTo(lines, i))) /\ Max(KeysTo(lines, i)) \in 1..Len(lines)
               /\ \A j : Owns(lines, i, j) => Owned(lines, i) /\ j = Max(KeysTo(lines, i))
    BY <2>1, OwnedIs
  <2>4. ASSUME NEW i \in DOMAIN lines, lines[i].kind \in {"value", "deleted value"},
               NEW r \in rows, r.of = lines[i].n
        PROVE  /\ Owned(lines, i)
               /\ r.key = KeyLine(lines, i).key.name
               /\ Get(r, "category") \in {None, ClassifyKey(KeyLine(lines, i).key)}
    <3>1. PICK m \in 1..Len(lines) :
             /\ r.of = lines[m].n
             /\ \/ lines[m].kind = "deleted key"
                \/ \E j \in 1..m : /\ Owns(lines, m, j) /\ r.key = lines[j].key.name
                                   /\ Get(r, "category") \in {None, ClassifyKey(lines[j].key)}
      BY <2>1 DEF ReadOut
    <3>2. m = i
      BY <2>2, <2>4, <3>1
    <3>3. lines[i].kind # "deleted key"
      BY <2>4
    <3>4. PICK j \in 1..i : /\ Owns(lines, i, j) /\ r.key = lines[j].key.name
                            /\ Get(r, "category") \in {None, ClassifyKey(lines[j].key)}
      BY <3>1, <3>2, <3>3
    <3>5. Owned(lines, i) /\ j = Max(KeysTo(lines, i))
      BY <2>3, <3>4
    <3>6. QED
      BY <3>4, <3>5 DEF KeyLine
  <2>5. ASSUME NEW i \in DOMAIN lines, Owned(lines, i)
        PROVE  lines[i].kind \in {"value", "deleted value"} /\ \E r \in rows : r.of = lines[i].n
    <3>1. Owns(lines, i, Max(KeysTo(lines, i))) /\ Max(KeysTo(lines, i)) \in 1..Len(lines)
      BY <2>3, <2>5
    <3>2. \E r \in rows : r.of = lines[i].n
      BY <2>1, <2>2, <3>1 DEF ReadOut
    <3>3. QED
      BY <3>1, <3>2 DEF Owns
  <2>6. QED
    BY <2>4, <2>5
<1>2. QED
  BY <1>1, Invariant, HonestInvariant, PTL

-----------------------------------------------------------------------------
(* Sequences that are put together                                          *)

\* A finite sequence, of whatever values.
Sequence(s) == \E V : s \in Seq(V)

\* What its places are.
LEMMA SequenceFacts ==
    ASSUME NEW s, Sequence(s)
    PROVE  Len(s) \in Nat /\ DOMAIN s = 1..Len(s) /\ (s = <<>> <=> Len(s) = 0)
<1>1. PICK V : s \in Seq(V)
  BY DEF Sequence
<1>2. QED
  BY <1>1, LenProperties, EmptySeq

\* A function on 1..n is a sequence.
LEMMA FunctionSequence ==
    ASSUME NEW n \in Nat, NEW s, s = [i \in 1..n |-> s[i]]
    PROVE  Sequence(s) /\ Len(s) = n
<1> DEFINE V == {s[i] : i \in 1..n}
<1>1. s \in [1..n -> V]
  OBVIOUS
<1>2. s \in Seq(V)
  <2> HIDE DEF V
  <2>1. QED
    BY <1>1
<1>3. Len(s) = n
  <2> HIDE DEF V
  <2>1. QED
    BY <1>1, <1>2, LenProperties
<1>4. QED
  BY <1>2, <1>3 DEF Sequence

\* Two of them, one after the other.
LEMMA ConcatFacts ==
    ASSUME NEW s, NEW t, Sequence(s), Sequence(t)
    PROVE  /\ Sequence(s \o t) /\ Len(s \o t) = Len(s) + Len(t)
           /\ \A k \in 1..Len(s) : (s \o t)[k] = s[k]
           /\ \A k \in 1..Len(t) : (s \o t)[Len(s) + k] = t[k]
<1>1. PICK V, W : s \in Seq(V) /\ t \in Seq(W)
  BY DEF Sequence
<1>2. s \in Seq(V \cup W) /\ t \in Seq(V \cup W)
  BY <1>1, SeqMonotonic
<1>u. PICK U : U = V \cup W
  OBVIOUS
<1>3. s \in Seq(U) /\ t \in Seq(U)
  BY <1>2, <1>u
<1>4. /\ s \o t \in Seq(U) /\ Len(s \o t) = Len(s) + Len(t)
      /\ \A i \in 1 .. Len(s) + Len(t) : (s \o t)[i] = IF i <= Len(s) THEN s[i] ELSE t[i - Len(s)]
  BY <1>3, ConcatProperties
<1>5. Len(s) \in Nat /\ Len(t) \in Nat
  BY SequenceFacts
<1>6. Sequence(s \o t)
  BY <1>4 DEF Sequence
<1>7. QED
  BY <1>4, <1>5, <1>6

\* What follows its first element.
LEMMA TailFacts ==
    ASSUME NEW s, Sequence(s), s # <<>>
    PROVE  /\ Sequence(Tail(s)) /\ Len(s) = Len(Tail(s)) + 1
           /\ \A k \in 1..Len(Tail(s)) : Tail(s)[k] = s[k + 1]
<1>1. PICK V : s \in Seq(V)
  BY DEF Sequence
<1>2. QED
  BY <1>1, HeadTailProperties, SequenceFacts DEF Sequence

\* A claim that holds of 0 and of every number up to N after one it holds of.
LEMMA UpTo ==
    ASSUME NEW N \in Nat, NEW S, 0 \in S, \A n \in 1..N : n - 1 \in S => n \in S
    PROVE  N \in S
<1> DEFINE Bad == {n \in 0..N : n \notin S}
<1>1. SUFFICES ASSUME Bad # {} PROVE FALSE
  OBVIOUS
<1>2. PICK n \in Bad : \A m \in Bad : n <= m
  <2>1. Bad \in SUBSET Nat
    OBVIOUS
  <2> HIDE DEF Bad
  <2>2. QED
    BY <1>1, <2>1, LeastNat
<1>3. n \in 1..N /\ n - 1 \in 0..N /\ ~(n <= n - 1)
  OBVIOUS
<1>4. QED
  BY <1>2, <1>3

-----------------------------------------------------------------------------
(* Sequences of the elements at given places                                *)

\* h says which place each element of q is of.
Placed(q, I, F, h) ==
    /\ h \in [1..Len(q) -> I]
    /\ \A k \in 1..Len(q) : q[k] = F[h[k]]
    /\ \A k \in 1..Len(q), l \in 1..Len(q) : h[k] = h[l] => k = l
    /\ \A i \in I : \E k \in 1..Len(q) : h[k] = i

\* q lists F at the places I, each of them once.
Lists(q, I, F) == Sequence(q) /\ \E h : Placed(q, I, F, h)

\* The empty sequence lists nothing.
LEMMA ListsEmpty == ASSUME NEW F PROVE Lists(<<>>, {}, F)
<1>1. <<>> \in Seq({}) /\ Len(<<>>) = 0
  BY EmptySeq
<1>2. Placed(<<>>, {}, F, [k \in 1..0 |-> 0])
  BY <1>1 DEF Placed
<1>3. QED
  BY <1>1, <1>2 DEF Lists, Sequence

\* Two lists of different places make one of both.
LEMMA ListsConcat ==
    ASSUME NEW F, NEW q, NEW r, NEW I, NEW J, Lists(q, I, F), Lists(r, J, F), I \cap J = {}
    PROVE  Lists(q \o r, I \cup J, F)
<1>1. PICK g : Placed(q, I, F, g)
  BY DEF Lists
<1>2. PICK h : Placed(r, J, F, h)
  BY DEF Lists
<1>3. Sequence(q) /\ Sequence(r) /\ Len(q) \in Nat /\ Len(r) \in Nat
  BY SequenceFacts DEF Lists
<1>s. PICK s : s = q \o r
  OBVIOUS
<1>4. /\ Sequence(s) /\ Len(s) = Len(q) + Len(r)
      /\ \A k \in 1..Len(q) : s[k] = q[k]
      /\ \A k \in 1..Len(r) : s[Len(q) + k] = r[k]
  BY <1>3, <1>s, ConcatFacts
<1>m. PICK m, n : m = Len(q) /\ n = Len(r)
  OBVIOUS
<1> DEFINE d == [k \in 1..(m + n) |-> IF k <= m THEN g[k] ELSE h[k - m]]
<1>5. /\ m \in Nat /\ n \in Nat
      /\ g \in [1..m -> I] /\ h \in [1..n -> J]
      /\ \A k \in 1..m : q[k] = F[g[k]]
      /\ \A k \in 1..n : r[k] = F[h[k]]
      /\ \A k \in 1..m, l \in 1..m : g[k] = g[l] => k = l
      /\ \A k \in 1..n, l \in 1..n : h[k] = h[l] => k = l
      /\ \A i \in I : \E k \in 1..m : g[k] = i
      /\ \A i \in J : \E k \in 1..n : h[k] = i
  BY <1>1, <1>2, <1>3, <1>m DEF Placed
<1>6. \A k \in 1..(m + n) : k \in 1..m \/ (k - m \in 1..n /\ ~(k <= m))
  BY <1>5
<1>7. \A k \in 1..m : k \in 1..(m + n) /\ d[k] = g[k]
  BY <1>5
<1>8. \A k \in 1..n : m + k \in 1..(m + n) /\ d[m + k] = h[k]
  BY <1>5
<1>9. d \in [1..(m + n) -> I \cup J]
  BY <1>5, <1>6
<1>10. \A k \in 1..(m + n) : s[k] = F[d[k]]
  <2> TAKE k \in 1..(m + n)
  <2>1. CASE k \in 1..m
    BY <1>4, <1>5, <1>7, <1>m, <2>1
  <2>2. CASE k - m \in 1..n /\ ~(k <= m)
    <3>1. PICK l \in 1..n : l = k - m /\ k = m + l
      BY <1>5, <2>2
    <3>2. d[k] = h[l] /\ s[k] = r[l]
      BY <1>4, <1>8, <1>m, <3>1
    <3>3. QED
      BY <1>5, <3>2
  <2>3. QED
    BY <1>6, <2>1, <2>2
<1>11. \A k \in 1..(m + n), l \in 1..(m + n) : d[k] = d[l] => k = l
  <2> TAKE k \in 1..(m + n), l \in 1..(m + n)
  <2>1. CASE k \in 1..m /\ l \in 1..m
    BY <1>5, <1>7, <2>1
  <2>2. CASE k - m \in 1..n /\ ~(k <= m) /\ l - m \in 1..n /\ ~(l <= m)
    <3>1. d[k] = h[k - m] /\ d[l] = h[l - m]
      BY <2>2
    <3>2. h[k - m] = h[l - m] => k - m = l - m
      BY <1>5, <2>2
    <3>3. QED
      BY <1>5, <2>2, <3>1, <3>2
  <2>3. CASE k \in 1..m /\ l - m \in 1..n /\ ~(l <= m)
    <3>1. d[k] \in I /\ d[l] \in J
      BY <1>5, <1>7, <2>3
    <3>2. QED
      BY <3>1
  <2>4. CASE l \in 1..m /\ k - m \in 1..n /\ ~(k <= m)
    <3>1. d[l] \in I /\ d[k] \in J
      BY <1>5, <1>7, <2>4
    <3>2. QED
      BY <3>1
  <2>5. QED
    BY <1>6, <2>1, <2>2, <2>3, <2>4
<1>12. \A i \in I \cup J : \E k \in 1..(m + n) : d[k] = i
  <2> HIDE DEF d
  <2> TAKE i \in I \cup J
  <2>1. CASE i \in I
    BY <1>5, <1>7, <2>1
  <2>2. CASE i \in J
    <3>1. PICK k \in 1..n : h[k] = i
      BY <1>5, <2>2
    <3>2. m + k \in 1..(m + n) /\ d[m + k] = i
      BY <1>8, <3>1
    <3>3. QED
      BY <3>2
  <2>3. QED
    BY <2>1, <2>2
<1> HIDE DEF d
<1>13. Placed(s, I \cup J, F, d)
  BY <1>4, <1>9, <1>10, <1>11, <1>12, <1>m DEF Placed
<1>14. QED
  BY <1>4, <1>13, <1>s DEF Lists

\* The list of one place.
LEMMA ListsOne == ASSUME NEW F, NEW i PROVE Lists(<<F[i]>>, {i}, F)
<1>1. <<F[i]>> \in Seq({F[i]}) /\ Len(<<F[i]>>) = 1
  OBVIOUS
<1>2. Placed(<<F[i]>>, {i}, F, [k \in 1..1 |-> i])
  <2>1. 1..1 = {1} /\ <<F[i]>>[1] = F[i]
    OBVIOUS
  <2>2. PICK q, h : q = <<F[i]>> /\ h = [k \in {1} |-> i]
    OBVIOUS
  <2>3. h \in [{1} -> {i}] /\ h[1] = i /\ q[1] = F[i] /\ Len(q) = 1
    BY <1>1, <2>1, <2>2
  <2>4. Placed(q, {i}, F, h)
    BY <2>1, <2>3 DEF Placed
  <2>5. QED
    BY <2>1, <2>2, <2>4
<1>3. QED
  BY <1>1, <1>2 DEF Lists, Sequence

\* One place more.
LEMMA ListsAppend ==
    ASSUME NEW F, NEW q, NEW I, NEW i, i \notin I, Lists(q, I, F)
    PROVE  Lists(Append(q, F[i]), I \cup {i}, F)
<1>1. PICK V : q \in Seq(V)
  BY DEF Lists, Sequence
<1>2. PICK U, e : U = V \cup {e} /\ e = F[i]
  OBVIOUS
<1>3. q \in Seq(U) /\ e \in U
  BY <1>1, <1>2, SeqMonotonic
<1>4. Append(q, e) = q \o <<e>>
  BY <1>3, AppendIsConcat
<1>5. Lists(<<e>>, {i}, F)
  BY <1>2, ListsOne
<1>6. Lists(q \o <<e>>, I \cup {i}, F)
  BY <1>5, ListsConcat
<1>7. QED
  BY <1>2, <1>4, <1>6

\* A list has nothing but what stands at its places, and everything of it.
LEMMA ListsMembers ==
    ASSUME NEW F, NEW q, NEW I, Lists(q, I, F)
    PROVE  /\ Len(q) \in Nat /\ DOMAIN q = 1..Len(q)
           /\ \A k \in DOMAIN q : \E i \in I : q[k] = F[i]
           /\ \A i \in I : \E k \in DOMAIN q : q[k] = F[i]
<1>1. Len(q) \in Nat /\ DOMAIN q = 1..Len(q)
  BY SequenceFacts DEF Lists
<1>2. PICK h : Placed(q, I, F, h)
  BY DEF Lists
<1>3. QED
  BY <1>1, <1>2 DEF Placed

\* What Selected gives: the elements at the places, each of them once.
LEMMA SelectedLists ==
    ASSUME NEW s, NEW S, Len(s) \in Nat
    PROVE  Lists(Selected(s, S), S \cap 1..Len(s), s)
<1> DEFINE N == Len(s)
           A == Seq({s[i] : i \in 1..N})
           Solves(f) == f = [n \in 0..N |-> IF n = 0 THEN <<>> ELSE IF n \in S THEN Append(f[n - 1], s[n]) ELSE f[n - 1]]
           upTo == CHOOSE f : Solves(f)
<1>1. N \in Nat /\ Selected(s, S) = upTo[N]
  BY DEF Selected
<1>2. \E f : Solves(f)
  <2> DEFINE move == [p \in A \X (1..N) |-> IF p[2] \in S THEN Append(p[1], s[p[2]]) ELSE p[1]]
  <2>1. \A q \in A, n \in 1..N : Append(q, s[n]) \in A
    <3> TAKE q \in A, n \in 1..N
    <3>1. s[n] \in {s[i] : i \in 1..N}
      OBVIOUS
    <3>2. QED
      BY <3>1, AppendProperties
  <2>2. <<>> \in A
    BY EmptySeq
  <2> HIDE DEF A, N
  <2>3. move \in [A \X (1..N) -> A]
    BY <2>1
  <2>4. \A q \in A, n \in 1..N : move[<<q, n>>] = IF n \in S THEN Append(q, s[n]) ELSE q
    OBVIOUS
  <2> HIDE DEF move
  <2>5. PICK f : Loop(f, A, <<>>, N, move)
    BY <1>1, <2>2, <2>3, LoopExists
  <2>6. f \in [0..N -> A] /\ f[0] = <<>> /\ \A n \in 1..N : f[n] = move[<<f[n - 1], n>>]
    BY <2>5 DEF Loop
  <2>7. \A n \in 1..N : f[n] = IF n \in S THEN Append(f[n - 1], s[n]) ELSE f[n - 1]
    <3> TAKE n \in 1..N
    <3>1. n - 1 \in 0..N /\ f[n - 1] \in A
      BY <1>1, <2>6
    <3>2. QED
      BY <2>4, <2>6, <3>1
  <2>8. \A n \in 0..N : f[n] = IF n = 0 THEN <<>> ELSE IF n \in S THEN Append(f[n - 1], s[n]) ELSE f[n - 1]
    <3> HIDE DEF N
    <3> TAKE n \in 0..N
    <3>1. n = 0 \/ (n \in 1..N /\ n # 0)
      BY <1>1
    <3>2. QED
      BY <2>6, <2>7, <3>1
  <2>9. f = [n \in 0..N |-> f[n]]
    BY <2>6
  <2>10. Solves(f)
    BY <2>8, <2>9
  <2>11. QED
    BY <2>10
<1>3. Solves(upTo)
  BY <1>2
<1> HIDE DEF upTo
<1> HIDE DEF N, A
<1>4. upTo[0] = <<>> /\ \A n \in 1..N : upTo[n] = IF n \in S THEN Append(upTo[n - 1], s[n]) ELSE upTo[n - 1]
  <2>1. \A n \in 0..N : upTo[n] = IF n = 0 THEN <<>> ELSE IF n \in S THEN Append(upTo[n - 1], s[n]) ELSE upTo[n - 1]
    BY <1>3
  <2>2. 0 \in 0..N /\ \A n \in 1..N : n \in 0..N /\ n # 0
    BY <1>1
  <2>3. QED
    BY <2>1, <2>2
<1> HIDE DEF Solves
<1> DEFINE Proven == {n \in 0..N : Lists(upTo[n], S \cap 1..n, s)}
<1>5. 0 \in Proven
  <2>1. S \cap 1..0 = {}
    OBVIOUS
  <2>2. QED
    BY <1>1, <1>4, <2>1, ListsEmpty
<1>6. ASSUME NEW n \in 1..N, n - 1 \in Proven PROVE n \in Proven
  <2>1. Lists(upTo[n - 1], S \cap 1..(n - 1), s)
    BY <1>6
  <2>2. n \in 0..N /\ 1..n = 1..(n - 1) \cup {n} /\ n \notin 1..(n - 1)
    BY <1>1
  <2>3. CASE n \in S
    <3>1. upTo[n] = Append(upTo[n - 1], s[n])
      BY <1>4, <2>3
    <3>2. PICK q, I : q = upTo[n - 1] /\ I = S \cap 1..(n - 1)
      OBVIOUS
    <3>3. S \cap 1..n = I \cup {n} /\ n \notin I
      BY <2>2, <2>3, <3>2
    <3>4. Lists(Append(q, s[n]), I \cup {n}, s)
      BY <2>1, <3>2, <3>3, ListsAppend
    <3>5. QED
      BY <2>2, <3>1, <3>2, <3>3, <3>4
  <2>4. CASE n \notin S
    <3>1. upTo[n] = upTo[n - 1] /\ S \cap 1..n = S \cap 1..(n - 1)
      BY <1>4, <2>2, <2>4
    <3>2. QED
      BY <2>1, <2>2, <3>1
  <2>5. QED
    BY <2>3, <2>4
<1>7. N \in Proven
  <2> HIDE DEF Proven
  <2>1. QED
    BY <1>1, <1>5, <1>6, UpTo
<1>8. QED
  BY <1>1, <1>7 DEF N

\* A sequence is one of its own elements.
LEMMA SequenceOfItself ==
    ASSUME NEW s, Sequence(s)
    PROVE  s \in Seq({s[j] : j \in 1..Len(s)})
<1>1. PICK V : s \in Seq(V)
  BY DEF Sequence
<1>2. Len(s) \in Nat /\ s \in [1..Len(s) -> V]
  BY <1>1, LenProperties
<1>n. PICK n, W : n = Len(s) /\ W = {s[j] : j \in 1..Len(s)}
  OBVIOUS
<1>3. s \in [1..n -> W]
  BY <1>2, <1>n
<1>4. s \in Seq(W)
  BY <1>2, <1>3, <1>n
<1>5. QED
  BY <1>4, <1>n

\* A sequence lists its own places, whatever they are called.
LEMMA ListsSelf ==
    ASSUME NEW s, Sequence(s), NEW i, NEW F, \A j \in 1..Len(s) : F[<<i, j>>] = s[j]
    PROVE  Lists(s, {i} \X (1..Len(s)), F)
<1>n. PICK n : n = Len(s)
  OBVIOUS
<1>1. n \in Nat
  BY <1>n, SequenceFacts
<1>2. PICK h : h = [k \in 1..n |-> <<i, k>>]
  OBVIOUS
<1>3. \A k \in 1..n : h[k] = <<i, k>> /\ <<i, k>> \in {i} \X (1..n) /\ F[<<i, k>>] = s[k]
  BY <1>2, <1>n
<1>4. h \in [1..n -> {i} \X (1..n)]
  BY <1>2, <1>3
<1>5. \A p \in {i} \X (1..n) : \E k \in 1..n : p = <<i, k>>
  OBVIOUS
<1>6. \A k \in 1..n, l \in 1..n : h[k] = h[l] => k = l
  <2> TAKE k \in 1..n, l \in 1..n
  <2>1. <<i, k>> = <<i, l>> => k = l
    OBVIOUS
  <2>2. QED
    BY <1>3, <2>1
<1>7. \A p \in {i} \X (1..n) : \E k \in 1..n : h[k] = p
  BY <1>3, <1>5
<1>8. \A k \in 1..n : s[k] = F[h[k]]
  BY <1>3
<1>9. Placed(s, {i} \X (1..n), F, h)
  BY <1>4, <1>6, <1>7, <1>8, <1>n DEF Placed
<1>10. QED
  BY <1>9, <1>n DEF Lists

\* The places of a sequence of sequences, and what stands at each.
Places(seqs) == UNION {{i} \X (1..Len(seqs[i])) : i \in 1..Len(seqs)}
ElementAt(seqs)    == [p \in Places(seqs) |-> seqs[p[1]][p[2]]]

\* What FlattenSeq gives: every element of every sequence, each of them once.
LEMMA FlattenLists ==
    ASSUME NEW seqs, Sequence(seqs), \A i \in 1..Len(seqs) : Sequence(seqs[i])
    PROVE  Lists(FlattenSeq(seqs), Places(seqs), ElementAt(seqs))
<1> DEFINE N == Len(seqs)
           V == UNION {{seqs[i][j] : j \in 1..Len(seqs[i])} : i \in 1..N}
           A == Seq(V)
           Solves(f) == f = [n \in 1..N |-> IF n = 1 THEN seqs[n] ELSE f[n - 1] \o seqs[n]]
           flatten == CHOOSE f : Solves(f)
           UpToN(n) == UNION {{i} \X (1..Len(seqs[i])) : i \in 1..n}
<1>1. N \in Nat
  BY SequenceFacts
<1>2. CASE N = 0
  <2>1. FlattenSeq(seqs) = <<>>
    BY <1>2, SequenceFacts DEF FlattenSeq
  <2>2. Places(seqs) = {}
    BY <1>2 DEF Places
  <2>3. QED
    BY <2>1, <2>2, ListsEmpty
<1>3. CASE N # 0
  <2>1. FlattenSeq(seqs) = flatten[N]
    BY <1>3 DEF FlattenSeq
  <2>2. \A n \in 1..N : seqs[n] \in A
    <3> TAKE n \in 1..N
    <3>1. PICK W : W = {seqs[n][j] : j \in 1..Len(seqs[n])}
      OBVIOUS
    <3>2. seqs[n] \in Seq(W)
      BY <3>1, SequenceOfItself
    <3>3. W \subseteq V
      BY <3>1
    <3> HIDE DEF V
    <3>4. QED
      BY <3>2, <3>3, SeqMonotonic
  <2> HIDE DEF V
  <2>3. <<>> \in A
    BY EmptySeq
  <2>4. \A q \in A, n \in 1..N : q \o seqs[n] \in A
    BY <2>2, ConcatProperties
  <2>5. <<>> \o seqs[1] = seqs[1]
    <3>1. 1 \in 1..N
      BY <1>1, <1>3
    <3>2. QED
      BY <2>2, <3>1, ConcatEmptySeq
  <2> HIDE DEF A, N
  <2>6. \E f : Solves(f)
    <3> DEFINE move == [p \in A \X (1..N) |-> p[1] \o seqs[p[2]]]
    <3>1. move \in [A \X (1..N) -> A]
      BY <2>4
    <3>2. \A q \in A, n \in 1..N : move[<<q, n>>] = q \o seqs[n]
      OBVIOUS
    <3> HIDE DEF move
    <3>3. PICK g : Loop(g, A, <<>>, N, move)
      BY <1>1, <2>3, <3>1, LoopExists
    <3>4. g \in [0..N -> A] /\ g[0] = <<>> /\ \A n \in 1..N : g[n] = move[<<g[n - 1], n>>]
      BY <3>3 DEF Loop
    <3>5. \A n \in 1..N : g[n] = g[n - 1] \o seqs[n]
      <4> TAKE n \in 1..N
      <4>1. n - 1 \in 0..N /\ g[n - 1] \in A
        BY <1>1, <3>4
      <4>2. QED
        BY <3>2, <3>4, <4>1
    <3>6. PICK f : f = [n \in 1..N |-> g[n]]
      OBVIOUS
    <3>7. \A n \in 1..N : f[n] = IF n = 1 THEN seqs[n] ELSE f[n - 1] \o seqs[n]
      <4> TAKE n \in 1..N
      <4>1. CASE n = 1
        <5>1. g[1] = g[0] \o seqs[1]
          <6>1. 1 \in 1..N /\ 1 - 1 = 0
            BY <1>1, <1>3
          <6>2. QED
            BY <3>5, <6>1
        <5>2. QED
          BY <2>5, <3>4, <3>6, <4>1, <5>1
      <4>2. CASE n # 1
        <5>1. n - 1 \in 1..N
          BY <1>1, <4>2
        <5>2. f[n] = g[n] /\ f[n - 1] = g[n - 1]
          BY <3>6, <5>1
        <5>3. QED
          BY <3>5, <4>2, <5>2
      <4>3. QED
        BY <4>1, <4>2
    <3>8. f = [n \in 1..N |-> f[n]]
      BY <3>6
    <3>9. Solves(f)
      BY <3>7, <3>8
    <3>10. QED
      BY <3>9
  <2>7. Solves(flatten)
    BY <2>6
  <2> HIDE DEF flatten
  <2>8. \A n \in 1..N : flatten[n] = IF n = 1 THEN seqs[n] ELSE flatten[n - 1] \o seqs[n]
    BY <2>7
  <2> HIDE DEF Solves
  <2>f. PICK F : F = ElementAt(seqs)
    OBVIOUS
  <2> DEFINE Proven == {0} \cup {n \in 1..N : Lists(flatten[n], UpToN(n), F)}
  <2>9. ASSUME NEW n \in 1..N
        PROVE  /\ Lists(seqs[n], {n} \X (1..Len(seqs[n])), F)
               /\ UpToN(n) = UpToN(n - 1) \cup ({n} \X (1..Len(seqs[n])))
               /\ UpToN(n - 1) \cap ({n} \X (1..Len(seqs[n]))) = {}
    <3>1. 1..n = 1..(n - 1) \cup {n} /\ n \notin 1..(n - 1)
      BY <1>1
    <3>2. UpToN(n) = UpToN(n - 1) \cup ({n} \X (1..Len(seqs[n])))
      BY <3>1
    <3>3. UpToN(n - 1) \cap ({n} \X (1..Len(seqs[n]))) = {}
      BY <3>1
    <3>4. \A j \in 1..Len(seqs[n]) : F[<<n, j>>] = seqs[n][j]
      <4> TAKE j \in 1..Len(seqs[n])
      <4>1. <<n, j>> \in Places(seqs)
        BY DEF Places, N
      <4>2. QED
        BY <2>f, <4>1 DEF ElementAt
    <3>5. Sequence(seqs[n])
      BY DEF N
    <3>6. Lists(seqs[n], {n} \X (1..Len(seqs[n])), F)
      BY <3>4, <3>5, ListsSelf
    <3>7. QED
      BY <3>2, <3>3, <3>6
  <2>10. UpToN(0) = {}
    OBVIOUS
  <2> HIDE DEF UpToN
  <2>11. ASSUME NEW n \in 1..N, n - 1 \in Proven PROVE n \in Proven
    <3>1. CASE n = 1
      <4>1. flatten[n] = seqs[n] /\ UpToN(n - 1) = {}
        BY <2>8, <2>10, <3>1
      <4>2. UpToN(n) = {n} \X (1..Len(seqs[n]))
        BY <2>9, <4>1
      <4>3. QED
        BY <2>9, <4>1, <4>2
    <3>2. CASE n # 1
      <4>1. flatten[n] = flatten[n - 1] \o seqs[n] /\ n - 1 # 0
        <5>1. flatten[n] = flatten[n - 1] \o seqs[n]
          BY <2>8, <3>2, Zenon
        <5>2. n - 1 # 0
          BY <1>1, <3>2
        <5>3. QED
          BY <5>1, <5>2
      <4>2. Lists(flatten[n - 1], UpToN(n - 1), F)
        BY <2>11, <4>1
      <4>3. PICK q, r, I, J : /\ q = flatten[n - 1] /\ r = seqs[n] /\ I = UpToN(n - 1)
                              /\ J = {n} \X (1..Len(seqs[n]))
        OBVIOUS
      <4>4. Lists(q \o r, I \cup J, F)
        BY <2>9, <4>2, <4>3, ListsConcat
      <4>5. Lists(flatten[n], UpToN(n), F)
        BY <2>9, <4>1, <4>3, <4>4
      <4>6. QED
        BY <4>5
    <3>3. QED
      BY <3>1, <3>2
  <2>12. N \in Proven
    <3>1. 0 \in Proven
      OBVIOUS
    <3> HIDE DEF Proven
    <3>2. QED
      BY <1>1, <2>11, <3>1, UpTo
  <2>13. Lists(flatten[N], UpToN(N), F)
    BY <1>3, <2>12
  <2>14. UpToN(N) = Places(seqs)
    BY DEF UpToN, Places, N
  <2>15. QED
    BY <2>1, <2>13, <2>14, <2>f
<1>4. QED
  BY <1>2, <1>3

\* The places may be renamed.
LEMMA ListsTagged ==
    ASSUME NEW q, NEW I, NEW F, Lists(q, I, F), NEW a, NEW G, \A i \in I : G[<<a, i>>] = F[i]
    PROVE  Lists(q, {a} \X I, G)
<1>1. PICK h : Placed(q, I, F, h)
  BY DEF Lists
<1>n. PICK n : n = Len(q)
  OBVIOUS
<1>2. /\ h \in [1..n -> I] /\ \A k \in 1..n : q[k] = F[h[k]]
      /\ \A k \in 1..n, l \in 1..n : h[k] = h[l] => k = l
      /\ \A i \in I : \E k \in 1..n : h[k] = i
  BY <1>1, <1>n DEF Placed
<1>3. PICK g : g = [k \in 1..n |-> <<a, h[k]>>]
  OBVIOUS
<1>4. \A k \in 1..n : g[k] = <<a, h[k]>> /\ h[k] \in I /\ <<a, h[k]>> \in {a} \X I
  BY <1>2, <1>3
<1>5. g \in [1..n -> {a} \X I]
  BY <1>3, <1>4
<1>6. \A k \in 1..n, l \in 1..n : g[k] = g[l] => k = l
  <2> TAKE k \in 1..n, l \in 1..n
  <2>1. <<a, h[k]>> = <<a, h[l]>> => h[k] = h[l]
    OBVIOUS
  <2>2. g[k] = <<a, h[k]>> /\ g[l] = <<a, h[l]>>
    BY <1>4
  <2>3. h[k] = h[l] => k = l
    BY <1>2
  <2>4. QED
    BY <2>1, <2>2, <2>3
<1>7. \A p \in {a} \X I : \E k \in 1..n : g[k] = p
  <2> TAKE p \in {a} \X I
  <2>1. PICK i \in I : p = <<a, i>>
    OBVIOUS
  <2>2. PICK k \in 1..n : h[k] = i
    BY <1>2
  <2>3. QED
    BY <1>4, <2>1, <2>2
<1>8. \A k \in 1..n : q[k] = G[g[k]]
  <2> TAKE k \in 1..n
  <2>1. PICK i \in I : i = h[k]
    BY <1>4
  <2>2. g[k] = <<a, i>> /\ q[k] = F[i] /\ G[<<a, i>>] = F[i]
    BY <1>2, <1>4, <2>1
  <2>3. QED
    BY <2>2
<1>9. Placed(q, {a} \X I, G, g)
  BY <1>5, <1>6, <1>7, <1>8, <1>n DEF Placed
<1>10. QED
  BY <1>9 DEF Lists

-----------------------------------------------------------------------------
(* Zeek's logs                                                              *)

\* The transactions of a connection: which rows of which log, and the rows.
Held(z, uid) ==
    UNION {{a} \X {i \in DOMAIN z[a] : uid # None /\ z[a][i].uid = uid} : a \in {"dns", "http", "ssl"}}
RowAt(z, uid) == [p \in Held(z, uid) |-> z[p[1]][p[2]]]

\* The rows of one log that are of a connection.
LEMMA OfUidLists ==
    ASSUME NEW rows, NEW uid, Len(rows) \in Nat, DOMAIN rows = 1..Len(rows)
    PROVE  Lists(OfUid(rows, uid), {i \in DOMAIN rows : uid # None /\ rows[i].uid = uid}, rows)
<1>1. PICK S : S = {i \in DOMAIN rows : uid # None /\ rows[i].uid = uid}
  OBVIOUS
<1>2. OfUid(rows, uid) = Selected(rows, S) /\ S \cap 1..Len(rows) = S
  BY <1>1 DEF OfUid
<1>3. QED
  BY <1>1, <1>2, SelectedLists

\* All of them.
LEMMA TransactionsLists ==
    ASSUME NEW z, Logs(z), NEW uid
    PROVE  Lists(Transactions(z, uid), Held(z, uid), RowAt(z, uid))
<1> DEFINE I(a) == {i \in DOMAIN z[a] : uid # None /\ z[a][i].uid = uid}
<1>F. PICK F : F = RowAt(z, uid)
  OBVIOUS
<1>1. ASSUME NEW a \in {"dns", "http", "ssl"}
      PROVE  Lists(OfUid(z[a], uid), {a} \X I(a), F)
  <2>1. PICK rows, S : rows = z[a] /\ S = I(a)
    OBVIOUS
  <2>2. Len(rows) \in Nat /\ DOMAIN rows = 1..Len(rows)
    BY <2>1 DEF Logs, InOrder
  <2>3. Lists(OfUid(rows, uid), {i \in DOMAIN rows : uid # None /\ rows[i].uid = uid}, rows)
    BY <2>2, OfUidLists
  <2>4. Lists(OfUid(rows, uid), S, rows)
    BY <2>1, <2>3
  <2>5. \A i \in S : F[<<a, i>>] = rows[i]
    <3> TAKE i \in S
    <3>1. <<a, i>> \in Held(z, uid)
      BY <2>1 DEF Held
    <3>2. QED
      BY <1>F, <2>1, <3>1 DEF RowAt
  <2> HIDE DEF I
  <2>6. Lists(OfUid(rows, uid), {a} \X S, F)
    BY <2>4, <2>5, ListsTagged
  <2>7. QED
    BY <2>1, <2>6
<1>2. PICK d, h, s : d = {"dns"} \X I("dns") /\ h = {"http"} \X I("http") /\ s = {"ssl"} \X I("ssl")
  OBVIOUS
<1>3. Held(z, uid) = (d \cup h) \cup s /\ d \cap h = {} /\ (d \cup h) \cap s = {}
  <2>1. Held(z, uid) = UNION {{a} \X I(a) : a \in {"dns", "http", "ssl"}}
    BY DEF Held
  <2>2. d \cap h = {} /\ (d \cup h) \cap s = {}
    BY <1>2
  <2> HIDE DEF I
  <2>3. QED
    BY <1>2, <2>1, <2>2
<1> HIDE DEF I
<1>4. PICK p, q, r : p = OfUid(z.dns, uid) /\ q = OfUid(z.http, uid) /\ r = OfUid(z.ssl, uid)
  OBVIOUS
<1>5. Lists(p, d, F) /\ Lists(q, h, F) /\ Lists(r, s, F)
  BY <1>1, <1>2, <1>4
<1>6. Lists(p \o q, d \cup h, F)
  BY <1>3, <1>5, ListsConcat
<1>7. Lists((p \o q) \o r, (d \cup h) \cup s, F)
  BY <1>3, <1>5, <1>6, ListsConcat
<1>8. Transactions(z, uid) = (p \o q) \o r
  BY <1>4 DEF Transactions
<1>9. QED
  BY <1>3, <1>7, <1>8, <1>F

\* A record that names no file and no hash.
Fileless(r) == "file" \notin DOMAIN r /\ "hash" \notin DOMAIN r

\* ConnRecord keeps the number of its row, and has no word of other logs.
LEMMA ConnRecordIs ==
    ASSUME NEW conn, conn.n # None, NEW r, r = ConnRecord(conn)
    PROVE  /\ "of" \in DOMAIN r /\ r.of = conn.n /\ "transaction" \notin DOMAIN r /\ "notice" \notin DOMAIN r
           /\ Fileless(r)
<1>1. PICK ts, tp, si, di, sp, dp, oc :
        r = Clean([of |-> conn.n, source |-> "pcap", ts |-> ts, transport |-> tp, src_ip |-> si, dst_ip |-> di,
                   src_port |-> sp, dst_port |-> dp, outcome |-> oc])
  BY DEF ConnRecord
<1>2. PICK full : full = [of |-> conn.n, source |-> "pcap", ts |-> ts, transport |-> tp, src_ip |-> si, dst_ip |-> di,
                          src_port |-> sp, dst_port |-> dp, outcome |-> oc]
  OBVIOUS
<1>3. r = [k \in {x \in DOMAIN full : full[x] # None} |-> full[k]]
  BY <1>1, <1>2 DEF Clean
<1>4. "of" \in DOMAIN full /\ full.of = conn.n /\ "transaction" \notin DOMAIN full /\ "notice" \notin DOMAIN full
      /\ "file" \notin DOMAIN full /\ "hash" \notin DOMAIN full
  BY <1>2
<1>5. QED
  BY <1>3, <1>4 DEF Fileless

\* A row with a time of its own changes the time only.
LEMMA RetimedIs ==
    ASSUME NEW r, NEW row, NEW q, q = Retimed(r, row)
    PROVE  /\ \A k : k # "ts" => (k \in DOMAIN q <=> k \in DOMAIN r)
           /\ \A k \in DOMAIN r : k # "ts" => q[k] = r[k]
           /\ Fileless(q) <=> Fileless(r)
<1>1. CASE row.ts = None
  BY <1>1 DEF Retimed, Fileless
<1>2. CASE row.ts # None
  <2>1. q = [k \in (DOMAIN r) \cup {"ts"} |-> IF k = "ts" THEN ZeekTime(row) ELSE r[k]]
    BY <1>2 DEF Retimed
  <2>2. QED
    BY <2>1 DEF Fileless
<1>3. QED
  BY <1>1, <1>2

\* The records of one connection: every one is of it, the transactions come
\* first, each in its record, and every notice is in one.
Merged(recs, conn, all, notices) ==
    /\ Sequence(recs) /\ Len(recs) \in Nat \ {0} /\ Len(all) <= Len(recs)
    /\ \A k \in 1..Len(recs) : recs[k].of = conn.n /\ ("transaction" \in DOMAIN recs[k] <=> k <= Len(all))
    /\ \A k \in 1..Len(recs) : Fileless(recs[k])
    /\ \A k \in 1..Len(all) : recs[k].transaction = all[k].n
    /\ \A j \in 1..Len(notices) : \E k \in 1..Len(recs) : "notice" \in DOMAIN recs[k] /\ recs[k].notice = notices[j].n

\* What _merge_logs makes of a connection.
LEMMA MergeConnIs ==
    ASSUME NEW z, NEW conn, conn.n # None, NEW recs, recs = MergeConn(z, conn),
           NEW all, all = Transactions(z, conn.uid), Sequence(all),
           NEW notices, notices = OfUid(z.notice, conn.uid), Sequence(notices)
    PROVE  Merged(recs, conn, all, notices)
<1>b. PICK base : base = ConnRecord(conn)
  OBVIOUS
<1> DEFINE noted(r) == IF notices = <<>> THEN r ELSE Enriched(r, notices[1], "notice")
           own(t)   == noted(Retimed(Enriched(base, t, "transaction"), t))
           further(n) == Retimed(Enriched(base, n, "notice"), n)
           p == IF all = <<>> THEN <<noted(base)>> ELSE [k \in DOMAIN all |-> own(all[k])]
           q == IF notices = <<>> THEN <<>> ELSE [k \in DOMAIN Tail(notices) |-> further(Tail(notices)[k])]
<1>1. recs = p \o q
  BY <1>b DEF MergeConn, MapSeq
<1>2. "of" \in DOMAIN base /\ base.of = conn.n /\ "transaction" \notin DOMAIN base /\ "notice" \notin DOMAIN base
      /\ Fileless(base)
  BY <1>b, ConnRecordIs
<1>3. ASSUME NEW r, "of" \in DOMAIN r, r.of = conn.n
      PROVE  /\ noted(r).of = conn.n /\ ("transaction" \in DOMAIN noted(r) <=> "transaction" \in DOMAIN r)
             /\ "transaction" \in DOMAIN r => noted(r).transaction = r.transaction
             /\ Fileless(r) => Fileless(noted(r))
             /\ notices # <<>> => "notice" \in DOMAIN noted(r) /\ noted(r).notice = notices[1].n
  <2>1. CASE notices = <<>>
    BY <1>3, <2>1
  <2>2. CASE notices # <<>>
    <3>1. PICK e : e = Enriched(r, notices[1], "notice") /\ e = noted(r)
      BY <2>2
    <3>2. e = [k \in (DOMAIN r) \cup {"notice"} |-> IF k = "notice" THEN notices[1].n ELSE r[k]]
      BY <3>1 DEF Enriched
    <3>3. e.of = conn.n /\ "notice" \in DOMAIN e /\ e.notice = notices[1].n
      BY <1>3, <3>2
    <3>4. /\ "transaction" \in DOMAIN e <=> "transaction" \in DOMAIN r
          /\ "transaction" \in DOMAIN r => e.transaction = r.transaction
          /\ Fileless(r) => Fileless(e)
      BY <3>2 DEF Fileless
    <3> HIDE DEF noted
    <3>5. QED
      BY <3>1, <3>3, <3>4
  <2>3. QED
    BY <2>1, <2>2
<1>4. ASSUME NEW t
      PROVE  /\ own(t).of = conn.n /\ "transaction" \in DOMAIN own(t) /\ own(t).transaction = t.n
             /\ Fileless(own(t))
             /\ notices # <<>> => "notice" \in DOMAIN own(t) /\ own(t).notice = notices[1].n
  <2>1. PICK e : e = Enriched(base, t, "transaction")
    OBVIOUS
  <2>2. "of" \in DOMAIN e /\ e.of = conn.n /\ "transaction" \in DOMAIN e /\ e.transaction = t.n /\ Fileless(e)
    BY <1>2, <2>1 DEF Enriched, Fileless
  <2>3. PICK r : r = Retimed(e, t)
    OBVIOUS
  <2>4. "of" \in DOMAIN r /\ r.of = conn.n /\ "transaction" \in DOMAIN r /\ r.transaction = t.n /\ Fileless(r)
    BY <2>2, <2>3, RetimedIs
  <2> HIDE DEF noted
  <2>5. own(t) = noted(r)
    BY <2>1, <2>3
  <2>6. QED
    BY <1>3, <2>4, <2>5
<1>5. ASSUME NEW n
      PROVE  /\ further(n).of = conn.n /\ "transaction" \notin DOMAIN further(n) /\ Fileless(further(n))
             /\ "notice" \in DOMAIN further(n) /\ further(n).notice = n.n
  <2>1. PICK e : e = Enriched(base, n, "notice")
    OBVIOUS
  <2>2. "of" \in DOMAIN e /\ e.of = conn.n /\ "transaction" \notin DOMAIN e /\ "notice" \in DOMAIN e /\ e.notice = n.n
        /\ Fileless(e)
    BY <1>2, <2>1 DEF Enriched, Fileless
  <2>3. QED
    BY <2>1, <2>2, RetimedIs
<1>6. noted(base).of = conn.n /\ "transaction" \notin DOMAIN noted(base) /\ Fileless(noted(base))
      /\ (notices # <<>> => "notice" \in DOMAIN noted(base) /\ noted(base).notice = notices[1].n)
  BY <1>2, <1>3
<1> HIDE DEF noted, own, further
<1>7. /\ Len(all) \in Nat /\ DOMAIN all = 1..Len(all) /\ (all = <<>> <=> Len(all) = 0)
      /\ Len(notices) \in Nat /\ DOMAIN notices = 1..Len(notices) /\ (notices = <<>> <=> Len(notices) = 0)
  BY SequenceFacts
\* The first records.
<1>8. /\ Sequence(p) /\ Len(p) \in Nat \ {0} /\ Len(all) <= Len(p)
      /\ \A k \in 1..Len(p) : p[k].of = conn.n /\ ("transaction" \in DOMAIN p[k] <=> k <= Len(all))
      /\ \A k \in 1..Len(p) : Fileless(p[k])
      /\ \A k \in 1..Len(all) : p[k].transaction = all[k].n
      /\ notices # <<>> => "notice" \in DOMAIN p[1] /\ p[1].notice = notices[1].n
  <2>1. CASE all = <<>>
    <3>1. p = <<noted(base)>> /\ Len(all) = 0
      BY <1>7, <2>1
    <3>2. p \in Seq({noted(base)}) /\ Len(p) = 1 /\ p[1] = noted(base)
      BY <3>1
    <3> HIDE DEF p
    <3>3. 1..Len(p) = {1} /\ Sequence(p)
      BY <3>2 DEF Sequence
    <3>4. QED
      BY <1>6, <3>1, <3>2, <3>3
  <2>2. CASE all # <<>>
    <3>1. PICK n : n = Len(all) /\ n \in Nat /\ n # 0
      BY <1>7, <2>2
    <3>2. p = [k \in 1..n |-> own(all[k])]
      BY <1>7, <2>2, <3>1
    <3> HIDE DEF p
    <3>3. p = [k \in 1..n |-> p[k]]
      BY <3>2
    <3>4. Sequence(p) /\ Len(p) = n
      BY <3>1, <3>3, FunctionSequence
    <3>5. \A k \in 1..n : p[k] = own(all[k]) /\ k <= n
      BY <3>1, <3>2
    <3>6. 1 \in 1..n
      BY <3>1
    <3>7. QED
      BY <1>4, <3>1, <3>4, <3>5, <3>6
  <2>3. QED
    BY <2>1, <2>2
\* The further notices.
<1>9. /\ Sequence(q)
      /\ \A k \in 1..Len(q) : /\ q[k].of = conn.n /\ "transaction" \notin DOMAIN q[k]
                             /\ "notice" \in DOMAIN q[k] /\ q[k].notice = notices[k + 1].n
      /\ \A k \in 1..Len(q) : Fileless(q[k])
      /\ notices # <<>> => Len(notices) = Len(q) + 1
  <2>1. CASE notices = <<>>
    <3>1. q = <<>> /\ <<>> \in Seq({}) /\ Len(<<>>) = 0
      BY <2>1, EmptySeq
    <3> HIDE DEF q
    <3>2. QED
      BY <2>1, <3>1 DEF Sequence
  <2>2. CASE notices # <<>>
    <3>1. /\ Sequence(Tail(notices)) /\ Len(notices) = Len(Tail(notices)) + 1
          /\ \A k \in 1..Len(Tail(notices)) : Tail(notices)[k] = notices[k + 1]
      BY <2>2, TailFacts
    <3>2. PICK t, n : t = Tail(notices) /\ n = Len(t)
      OBVIOUS
    <3>3. n \in Nat /\ DOMAIN t = 1..n
      BY <3>1, <3>2, SequenceFacts
    <3>4. q = [k \in 1..n |-> further(t[k])]
      BY <2>2, <3>2, <3>3
    <3> HIDE DEF q
    <3>5. q = [k \in 1..n |-> q[k]]
      BY <3>4
    <3>6. Sequence(q) /\ Len(q) = n
      BY <3>3, <3>5, FunctionSequence
    <3>7. \A k \in 1..n : q[k] = further(t[k]) /\ t[k] = notices[k + 1]
      BY <3>1, <3>2, <3>4
    <3>8. QED
      BY <1>5, <3>1, <3>2, <3>6, <3>7
  <2>3. QED
    BY <2>1, <2>2
<1> HIDE DEF p, q
<1>m. PICK m, n : m = Len(p) /\ n = Len(q)
  OBVIOUS
<1>10. /\ Sequence(recs) /\ Len(recs) = m + n
       /\ \A k \in 1..m : recs[k] = p[k]
       /\ \A k \in 1..n : recs[m + k] = q[k]
  BY <1>1, <1>8, <1>9, <1>m, ConcatFacts
<1>11. m \in Nat \ {0} /\ n \in Nat /\ Len(all) <= m
  BY <1>8, <1>9, <1>m, SequenceFacts
<1>12. \A k \in 1..(m + n) : k \in 1..m \/ (\E l \in 1..n : k = m + l /\ ~(k <= Len(all)))
  <2> TAKE k \in 1..(m + n)
  <2>1. k \notin 1..m => k - m \in 1..n /\ k = m + (k - m) /\ ~(k <= Len(all))
    BY <1>7, <1>11
  <2>2. QED
    BY <2>1
<1>13. ASSUME NEW k \in 1..Len(recs)
       PROVE  recs[k].of = conn.n /\ ("transaction" \in DOMAIN recs[k] <=> k <= Len(all))
  <2>1. CASE k \in 1..m
    BY <1>8, <1>10, <1>m, <2>1
  <2>2. CASE k \notin 1..m
    <3>1. PICK l \in 1..n : k = m + l /\ ~(k <= Len(all))
      BY <1>10, <1>12, <2>2
    <3>2. recs[k] = q[l]
      BY <1>10, <3>1
    <3>3. QED
      BY <1>9, <1>m, <3>1, <3>2
  <2>3. QED
    BY <2>1, <2>2
<1>14. ASSUME NEW k \in 1..Len(all)
       PROVE  recs[k].transaction = all[k].n
  <2>1. k \in 1..m
    BY <1>7, <1>11
  <2>2. recs[k] = p[k]
    BY <1>10, <2>1
  <2>3. QED
    BY <1>8, <2>2
<1>15. ASSUME NEW j \in 1..Len(notices)
       PROVE  \E k \in 1..Len(recs) : "notice" \in DOMAIN recs[k] /\ recs[k].notice = notices[j].n
  <2>1. notices # <<>> /\ Len(notices) = n + 1
    BY <1>7, <1>9, <1>m
  <2>2. CASE j = 1
    <3>1. 1 \in 1..m /\ 1 \in 1..(m + n)
      BY <1>11
    <3>2. recs[1] = p[1]
      BY <1>10, <3>1
    <3>3. QED
      BY <1>8, <1>10, <2>1, <2>2, <3>1, <3>2
  <2>3. CASE j # 1
    <3>1. PICK l \in 1..n : j = l + 1
      <4>1. j - 1 \in 1..n /\ j = (j - 1) + 1
        BY <1>7, <1>11, <2>1, <2>3
      <4>2. QED
        BY <4>1
    <3>2. m + l \in 1..(m + n)
      BY <1>11
    <3>3. recs[m + l] = q[l]
      BY <1>10
    <3>4. "notice" \in DOMAIN q[l] /\ q[l].notice = notices[j].n
      BY <1>9, <1>m, <3>1
    <3>5. QED
      BY <1>10, <3>2, <3>3, <3>4
  <2>4. QED
    BY <2>2, <2>3
<1>16. Len(recs) \in Nat \ {0} /\ Len(all) <= Len(recs)
  BY <1>7, <1>10, <1>11
<1>17. ASSUME NEW k \in 1..Len(recs) PROVE Fileless(recs[k])
  <2>1. CASE k \in 1..m
    <3>1. recs[k] = p[k]
      BY <1>10, <2>1
    <3>2. QED
      BY <1>8, <1>m, <2>1, <3>1
  <2>2. CASE k \notin 1..m
    <3>1. PICK l \in 1..n : k = m + l
      BY <1>10, <1>12, <2>2
    <3>2. recs[k] = q[l]
      BY <1>10, <3>1
    <3>3. QED
      BY <1>9, <1>m, <3>1, <3>2
  <2>3. QED
    BY <2>1, <2>2
<1>18. QED
  BY <1>10, <1>13, <1>14, <1>15, <1>16, <1>17 DEF Merged

\* A transaction of a connection is at one place of its list, and no other row
\* is there.
Only(all, n, k) == k \in 1..Len(all) /\ all[k].n = n /\ \A l \in 1..Len(all) : all[l].n = n => l = k

\* Every transaction of a connection is once in its list.
LEMMA OneTransaction ==
    ASSUME NEW z, Logs(z), NEW uid, uid # None, NEW a \in {"dns", "http", "ssl"}, NEW i \in DOMAIN z[a],
           z[a][i].uid = uid, NEW all, all = Transactions(z, uid)
    PROVE  \E k : Only(all, z[a][i].n, k)
<1>1. PICK I, F : I = Held(z, uid) /\ F = RowAt(z, uid)
  OBVIOUS
<1>2. Lists(all, I, F)
  BY <1>1, TransactionsLists
<1>3. PICK h : Placed(all, I, F, h)
  BY <1>2 DEF Lists
<1>4. <<a, i>> \in I
  BY <1>1 DEF Held
<1>5. ASSUME NEW p \in I, F[p].n = z[a][i].n PROVE p = <<a, i>>
  <2>b. PICK b \in {"dns", "http", "ssl"} : \E j \in DOMAIN z[b] : p = <<b, j>>
    BY <1>1 DEF Held
  <2>1. PICK j \in DOMAIN z[b] : p = <<b, j>>
    BY <2>b
  <2>2. F[p] = z[b][j]
    BY <1>1, <2>1 DEF RowAt
  <2>3. b = a /\ j = i
    BY <1>5, <2>2 DEF Logs, InOrder
  <2>4. QED
    BY <2>1, <2>3
<1>6. F[<<a, i>>] = z[a][i]
  BY <1>1, <1>4 DEF RowAt
<1>p. PICK p : p = <<a, i>>
  OBVIOUS
<1>7. PICK k \in 1..Len(all) : h[k] = p
  BY <1>3, <1>4, <1>p DEF Placed
<1>8. all[k].n = z[a][i].n
  BY <1>3, <1>6, <1>7, <1>p DEF Placed
<1>9. ASSUME NEW l \in 1..Len(all), all[l].n = z[a][i].n PROVE l = k
  <2>1. h[l] \in I /\ all[l] = F[h[l]]
    BY <1>3 DEF Placed
  <2>2. h[l] = p
    BY <1>5, <1>9, <1>p, <2>1
  <2>3. QED
    BY <1>3, <1>7, <2>2 DEF Placed
<1>10. Only(all, z[a][i].n, k)
  BY <1>8, <1>9 DEF Only
<1>11. QED
  BY <1>10

\* Conversely, what is in the list of a connection is a row of it.
LEMMA TransactionOf ==
    ASSUME NEW z, Logs(z), NEW uid, NEW all, all = Transactions(z, uid), NEW k \in 1..Len(all)
    PROVE  uid # None /\ \E a \in {"dns", "http", "ssl"} : \E i \in DOMAIN z[a] : all[k] = z[a][i] /\ z[a][i].uid = uid
<1>1. PICK I, F : I = Held(z, uid) /\ F = RowAt(z, uid)
  OBVIOUS
<1>2. Lists(all, I, F)
  BY <1>1, TransactionsLists
<1>3. k \in DOMAIN all
  BY <1>2, ListsMembers
<1>4. PICK p \in I : all[k] = F[p]
  BY <1>2, <1>3, ListsMembers
<1>a. PICK a \in {"dns", "http", "ssl"} : \E i \in DOMAIN z[a] : p = <<a, i>> /\ uid # None /\ z[a][i].uid = uid
  BY <1>1 DEF Held
<1>5. PICK i \in DOMAIN z[a] : p = <<a, i>> /\ uid # None /\ z[a][i].uid = uid
  BY <1>a
<1>6. F[p] = z[a][i]
  BY <1>1, <1>5 DEF RowAt
<1>7. QED
  BY <1>4, <1>5, <1>6

\* The records that have the word n in a field.
With(recs, field, n) == {k \in DOMAIN recs : field \in DOMAIN recs[k] /\ recs[k][field] = n}

\* The records of a capture's logs: each transaction of a connection in
\* exactly one, each of its notices in one, each connection in one, and none of
\* them names a file.
Joined(z, recs) ==
    /\ \A a \in {"dns", "http", "ssl"} : \A i \in DOMAIN z[a], c \in DOMAIN z.conn :
         z[a][i].uid = z.conn[c].uid /\ z[a][i].uid # None =>
            \E K : With(recs, "transaction", z[a][i].n) = {K}
    /\ \A i \in DOMAIN z.notice, c \in DOMAIN z.conn :
         z.notice[i].uid = z.conn[c].uid /\ z.notice[i].uid # None =>
            \E k \in DOMAIN recs : "notice" \in DOMAIN recs[k] /\ recs[k].notice = z.notice[i].n
    /\ \A c \in DOMAIN z.conn : \E k \in DOMAIN recs : recs[k].of = z.conn[c].n
    /\ \A k \in DOMAIN recs : \E c \in DOMAIN z.conn : recs[k].of = z.conn[c].n
    /\ \A k \in DOMAIN recs : Fileless(recs[k])

\* The records of a capture are whole.
LEMMA ZeekIsWhole ==
    ASSUME NEW z, Logs(z), NEW recs, recs = Zeek(z)
    PROVE  Joined(z, recs)
<1>N. PICK N : N = Len(z.conn) /\ N \in Nat /\ DOMAIN z.conn = 1..N
  BY DEF Logs, InOrder
<1>s. PICK seqs : seqs = [c \in DOMAIN z.conn |-> MergeConn(z, z.conn[c])]
  OBVIOUS
<1> DEFINE all(c) == Transactions(z, z.conn[c].uid)
           notices(c) == OfUid(z.notice, z.conn[c].uid)
<1>1. ASSUME NEW c \in 1..N
      PROVE  Sequence(notices(c)) /\ Merged(seqs[c], z.conn[c], all(c), notices(c))
  <2>1. z.conn[c].n # None /\ seqs[c] = MergeConn(z, z.conn[c])
    BY <1>N, <1>s DEF Logs, InOrder
  <2>2. Sequence(all(c))
    BY TransactionsLists DEF Lists
  <2>3. PICK rows, uid : rows = z.notice /\ uid = z.conn[c].uid
    OBVIOUS
  <2>4. Len(rows) \in Nat /\ DOMAIN rows = 1..Len(rows)
    BY <2>3 DEF Logs, InOrder
  <2>5. Lists(OfUid(rows, uid), {i \in DOMAIN rows : uid # None /\ rows[i].uid = uid}, rows)
    BY <2>4, OfUidLists
  <2>6. Sequence(notices(c))
    BY <2>3, <2>5 DEF Lists
  <2>7. Merged(seqs[c], z.conn[c], all(c), notices(c))
    BY <2>1, <2>2, <2>6, MergeConnIs
  <2>8. QED
    BY <2>6, <2>7
<1>2. Sequence(seqs) /\ Len(seqs) = N
  <2>1. seqs = [c \in 1..N |-> seqs[c]]
    BY <1>N, <1>s
  <2>2. QED
    BY <1>N, <2>1, FunctionSequence
<1>3. PICK P, F : P = Places(seqs) /\ F = ElementAt(seqs)
  OBVIOUS
<1>4. Lists(recs, P, F)
  <2>1. recs = FlattenSeq(seqs)
    BY <1>s DEF Zeek
  <2>2. \A c \in 1..Len(seqs) : Sequence(seqs[c])
    BY <1>1, <1>2 DEF Merged
  <2>3. QED
    BY <1>2, <1>3, <2>1, <2>2, FlattenLists
<1>5. PICK h : Placed(recs, P, F, h)
  BY <1>4 DEF Lists
<1>6. Len(recs) \in Nat /\ DOMAIN recs = 1..Len(recs)
  BY <1>4, ListsMembers
<1>7. ASSUME NEW c \in 1..N, NEW k \in 1..Len(seqs[c])
      PROVE  <<c, k>> \in P /\ F[<<c, k>>] = seqs[c][k] /\ \E K \in DOMAIN recs : h[K] = <<c, k>> /\ recs[K] = seqs[c][k]
  <2>1. <<c, k>> \in P
    BY <1>2, <1>3 DEF Places
  <2>2. F[<<c, k>>] = seqs[c][k]
    BY <1>3, <2>1 DEF ElementAt
  <2>3. PICK p : p = <<c, k>>
    OBVIOUS
  <2>4. PICK K \in 1..Len(recs) : h[K] = p
    BY <1>5, <2>1, <2>3 DEF Placed
  <2>5. recs[K] = F[p]
    BY <1>5, <2>4 DEF Placed
  <2>6. QED
    BY <1>6, <2>1, <2>2, <2>3, <2>4, <2>5
<1>8. ASSUME NEW K \in DOMAIN recs
      PROVE  \E c \in 1..N : \E k \in 1..Len(seqs[c]) : h[K] = <<c, k>> /\ recs[K] = seqs[c][k]
  <2>1. h[K] \in P /\ recs[K] = F[h[K]]
    BY <1>5, <1>6 DEF Placed
  <2>c. PICK c \in 1..N : \E k \in 1..Len(seqs[c]) : h[K] = <<c, k>>
    BY <1>2, <1>3, <2>1 DEF Places
  <2>2. PICK k \in 1..Len(seqs[c]) : h[K] = <<c, k>>
    BY <2>c
  <2>3. QED
    BY <1>7, <2>1, <2>2
<1> HIDE DEF all, notices
<1>9. ASSUME NEW a \in {"dns", "http", "ssl"}, NEW i \in DOMAIN z[a], NEW c \in DOMAIN z.conn,
             z[a][i].uid = z.conn[c].uid, z[a][i].uid # None
      PROVE  \E K : With(recs, "transaction", z[a][i].n) = {K}
  <2>n. PICK n, uid : n = z[a][i].n /\ uid = z.conn[c].uid
    OBVIOUS
  <2>1. PICK k : Only(all(c), n, k)
    BY <1>9, <2>n, OneTransaction DEF all
  <2>2. Merged(seqs[c], z.conn[c], all(c), notices(c)) /\ c \in 1..N
    BY <1>1, <1>N
  <2>3. Len(all(c)) \in Nat
    BY TransactionsLists, ListsMembers DEF all
  <2>4. k \in 1..Len(seqs[c]) /\ "transaction" \in DOMAIN seqs[c][k] /\ seqs[c][k].transaction = n
    <3>1. k \in 1..Len(all(c)) /\ all(c)[k].n = n
      BY <2>1 DEF Only
    <3>2. k \in 1..Len(seqs[c]) /\ k <= Len(all(c))
      BY <2>2, <2>3, <3>1 DEF Merged
    <3>3. QED
      BY <2>2, <3>1, <3>2 DEF Merged
  <2>5. PICK K \in DOMAIN recs : h[K] = <<c, k>> /\ recs[K] = seqs[c][k]
    BY <1>7, <2>2, <2>4
  <2>6. ASSUME NEW L \in DOMAIN recs, "transaction" \in DOMAIN recs[L], recs[L].transaction = n
        PROVE  L = K
    <3>d. PICK d \in 1..N : \E l \in 1..Len(seqs[d]) : h[L] = <<d, l>> /\ recs[L] = seqs[d][l]
      BY <1>8
    <3>1. PICK l \in 1..Len(seqs[d]) : h[L] = <<d, l>> /\ recs[L] = seqs[d][l]
      BY <3>d
    <3>2. Merged(seqs[d], z.conn[d], all(d), notices(d))
      BY <1>1
    <3>3. l <= Len(all(d)) /\ Len(all(d)) \in Nat /\ l \in 1..Len(all(d))
      <4>1. Len(all(d)) \in Nat
        BY TransactionsLists, ListsMembers DEF all
      <4>2. l <= Len(all(d))
        BY <2>6, <3>1, <3>2 DEF Merged
      <4>3. QED
        BY <3>2, <4>1, <4>2 DEF Merged
    <3>4. all(d)[l].n = n
      BY <2>6, <3>1, <3>2, <3>3 DEF Merged
    <3>b. PICK b \in {"dns", "http", "ssl"} :
             \E j \in DOMAIN z[b] : all(d)[l] = z[b][j] /\ z[b][j].uid = z.conn[d].uid
      BY <3>3, TransactionOf DEF all
    <3>5. PICK j \in DOMAIN z[b] : all(d)[l] = z[b][j] /\ z[b][j].uid = z.conn[d].uid
      BY <3>b
    <3>6. b = a /\ j = i
      <4>1. z[b][j].n = z[a][i].n
        BY <2>n, <3>4, <3>5
      <4>2. QED
        BY <4>1 DEF Logs, InOrder
    <3>7. z.conn[d].uid = uid /\ z.conn[c].uid = uid /\ uid # None
      BY <1>9, <2>n, <3>5, <3>6
    <3>8. d = c
      BY <1>N, <3>7 DEF Logs, InOrder
    <3>9. l = k
      BY <2>1, <3>3, <3>4, <3>8 DEF Only
    <3>10. h[L] = h[K]
      BY <2>5, <3>1, <3>8, <3>9
    <3>11. QED
      BY <1>5, <1>6, <3>10 DEF Placed
  <2>7. K \in With(recs, "transaction", n)
    BY <2>4, <2>5 DEF With
  <2>8. With(recs, "transaction", n) = {K}
    BY <2>6, <2>7 DEF With
  <2>9. QED
    BY <2>8, <2>n
<1>10. ASSUME NEW i \in DOMAIN z.notice, NEW c \in DOMAIN z.conn, z.notice[i].uid = z.conn[c].uid, z.notice[i].uid # None
       PROVE  \E k \in DOMAIN recs : "notice" \in DOMAIN recs[k] /\ recs[k].notice = z.notice[i].n
  <2>1. PICK rows, uid : rows = z.notice /\ uid = z.conn[c].uid
    OBVIOUS
  <2>2. Len(rows) \in Nat /\ DOMAIN rows = 1..Len(rows)
    BY <2>1 DEF Logs, InOrder
  <2>3. PICK q, I : q = OfUid(rows, uid) /\ I = {x \in DOMAIN rows : uid # None /\ rows[x].uid = uid}
    OBVIOUS
  <2>4. Lists(q, I, rows)
    BY <2>2, <2>3, OfUidLists
  <2>5. i \in I
    BY <1>10, <2>1, <2>3
  <2>6. PICK j \in 1..Len(q) : q[j] = rows[i]
    BY <2>4, <2>5, ListsMembers
  <2>7. Merged(seqs[c], z.conn[c], all(c), notices(c)) /\ c \in 1..N /\ notices(c) = q
    BY <1>1, <1>N, <2>1, <2>3 DEF notices
  <2>8. PICK k \in 1..Len(seqs[c]) : "notice" \in DOMAIN seqs[c][k] /\ seqs[c][k].notice = q[j].n
    BY <2>7 DEF Merged
  <2>9. PICK K \in DOMAIN recs : recs[K] = seqs[c][k]
    BY <1>7, <2>7
  <2>10. QED
    BY <2>1, <2>6, <2>8, <2>9
<1>11. ASSUME NEW c \in DOMAIN z.conn PROVE \E k \in DOMAIN recs : recs[k].of = z.conn[c].n
  <2>1. Merged(seqs[c], z.conn[c], all(c), notices(c)) /\ c \in 1..N
    BY <1>1, <1>N
  <2>2. 1 \in 1..Len(seqs[c]) /\ seqs[c][1].of = z.conn[c].n
    BY <2>1 DEF Merged
  <2>3. PICK K \in DOMAIN recs : recs[K] = seqs[c][1]
    BY <1>7, <2>1, <2>2
  <2>4. QED
    BY <2>2, <2>3
<1>12. ASSUME NEW K \in DOMAIN recs PROVE \E c \in DOMAIN z.conn : recs[K].of = z.conn[c].n
  <2>c. PICK c \in 1..N : \E k \in 1..Len(seqs[c]) : h[K] = <<c, k>> /\ recs[K] = seqs[c][k]
    BY <1>8
  <2>1. PICK k \in 1..Len(seqs[c]) : recs[K] = seqs[c][k]
    BY <2>c
  <2>2. seqs[c][k].of = z.conn[c].n
    BY <1>1 DEF Merged
  <2>3. QED
    BY <1>N, <2>1, <2>2
<1>13. ASSUME NEW K \in DOMAIN recs PROVE Fileless(recs[K])
  <2>c. PICK c \in 1..N : \E k \in 1..Len(seqs[c]) : h[K] = <<c, k>> /\ recs[K] = seqs[c][k]
    BY <1>8
  <2>1. PICK k \in 1..Len(seqs[c]) : recs[K] = seqs[c][k]
    BY <2>c
  <2>2. Fileless(seqs[c][k])
    BY <1>1 DEF Merged
  <2>3. QED
    BY <2>1, <2>2
<1>14. QED
  BY <1>9, <1>10, <1>11, <1>12, <1>13 DEF Joined

\* In every request, what Zeek wrote of a capture is put together whole: for
\* logs of any length (_merge_logs and zeek_to_records).
THEOREM TransactionsWhole == Spec => []ZeekWhole
<1>1. BuildInv /\ Honest => ZeekWhole
  <2> DEFINE has(recs, x, n) == {k \in DOMAIN recs : x \in DOMAIN recs[k] /\ recs[k][x] = n}
             known(z)    == {z.conn[i].uid : i \in DOMAIN z.conn} \ {None}
             Of(z, log)  == {log[i].n : i \in {j \in DOMAIN log : log[j].uid \in known(z)}}
             Claim(z, recs) ==
                 /\ \A n \in Of(z, z.dns) \cup Of(z, z.http) \cup Of(z, z.ssl) : Cardinality(has(recs, "transaction", n)) = 1
                 /\ \A n \in Of(z, z.notice) : has(recs, "notice", n) # {}
                 /\ \A i \in DOMAIN z.conn : \E k \in DOMAIN recs : recs[k].of = z.conn[i].n
  <2> SUFFICES ASSUME BuildInv, Honest, NEW f \in DOMAIN Files, Came(f, "zeek")
               PROVE  Claim(Files[f].content.zeek, RecordsOf(f, "zeek"))
    BY Zenon DEF ZeekWhole
  <2>z. PICK z, recs : z = Files[f].content.zeek /\ recs = RecordsOf(f, "zeek")
    OBVIOUS
  <2>1. Files[f].kind = "pcap" /\ z # None
    <3>1. "zeek" \in Tool
      BY DEF Tool
    <3>2. QED
      BY <2>z, <3>1 DEF Honest, Reads
  <2>2. Logs(z)
    <3>1. job \in DOMAIN Request
      BY DEF BuildInv, TypeInv
    <3>2. /\ f \in DOMAIN Request[job].files /\ Request[job].files[f].kind = "pcap"
          /\ z = Request[job].files[f].content.zeek
      BY <2>1, <2>z DEF Files
    <3>3. QED
      BY <2>1, <3>1, <3>2, ZeekAssumption
  <2>3. recs = Zeek(z)
    BY <2>z DEF RecordsOf
  <2>4. Joined(z, recs)
    BY <2>2, <2>3, ZeekIsWhole
  <2>5. ASSUME NEW a \in {"dns", "http", "ssl"}, NEW n \in Of(z, z[a])
        PROVE  Cardinality(has(recs, "transaction", n)) = 1
    <3>1. PICK i \in DOMAIN z[a] : z[a][i].uid \in known(z) /\ n = z[a][i].n
      OBVIOUS
    <3>2. PICK c \in DOMAIN z.conn : z[a][i].uid = z.conn[c].uid /\ z[a][i].uid # None
      BY <3>1
    <3> HIDE DEF has, Of, known
    <3>3. PICK K : With(recs, "transaction", z[a][i].n) = {K}
      BY <2>4, <3>2, Zenon DEF Joined
    <3>4. has(recs, "transaction", n) = {K}
      BY <3>1, <3>3 DEF has, With
    <3>5. QED
      BY <3>4, FS_Singleton
  <2>6. ASSUME NEW n \in Of(z, z.notice) PROVE has(recs, "notice", n) # {}
    <3>1. PICK i \in DOMAIN z.notice : z.notice[i].uid \in known(z) /\ n = z.notice[i].n
      OBVIOUS
    <3>2. PICK c \in DOMAIN z.conn : z.notice[i].uid = z.conn[c].uid /\ z.notice[i].uid # None
      BY <3>1
    <3>3. \E k \in DOMAIN recs : "notice" \in DOMAIN recs[k] /\ recs[k].notice = n
      BY <2>4, <3>1, <3>2 DEF Joined
    <3>4. QED
      BY <3>3
  <2>7. \A i \in DOMAIN z.conn : \E k \in DOMAIN recs : recs[k].of = z.conn[i].n
    BY <2>4 DEF Joined
  <2> HIDE DEF has, Of
  <2>8. \A n \in Of(z, z.dns) \cup Of(z, z.http) \cup Of(z, z.ssl) : Cardinality(has(recs, "transaction", n)) = 1
    BY <2>5
  <2>9. \A n \in Of(z, z.notice) : has(recs, "notice", n) # {}
    BY <2>6
  <2>10. Claim(z, recs)
    BY <2>7, <2>8, <2>9
  <2> HIDE DEF Claim
  <2>11. QED
    BY <2>10, <2>z
<1>2. QED
  BY <1>1, Invariant, HonestInvariant, PTL

-----------------------------------------------------------------------------
(* Times                                                                    *)

\* A time that is made UTC, or reworded as one, is the same instant.
LEMMA SameInstant ==
    ASSUME NEW t \in Time
    PROVE  /\ t # None /\ ToUtc(t) # None /\ NormEzTs(t) # None
           /\ Instant(t) \in Int /\ Instant(ToUtc(t)) = Instant(t) /\ Instant(NormEzTs(t)) = Instant(t)
<1>1. t.local \in Int /\ t.zone \in Int \cup {None} /\ t.form \in {"iso", "ez", "epoch"}
  BY DEF Time
<1>2. \A u \in Time : u # None
  BY ClockAssumption
<1>z. PICK off \in Int : off = IF t.zone = None THEN 0 ELSE t.zone
  BY <1>1
<1>3. Instant(t) = IF t.form = "epoch" THEN t.local ELSE t.local - off
  BY <1>1, <1>2, <1>z DEF Instant
<1>4. CASE t.form \in {"iso", "ez"}
  <2>1. Iso(t)
    BY <1>2, <1>4 DEF Iso
  <2>2. ToUtc(t) = [form |-> "iso", local |-> t.local - off, zone |-> 0]
    BY <1>z, <2>1 DEF ToUtc, Utc
  <2>3. NormEzTs(t) = [form |-> "iso", local |-> t.local, zone |-> IF t.zone = None THEN 0 ELSE t.zone]
    BY <2>1 DEF NormEzTs, Time
  <2>u. PICK u, v : u = ToUtc(t) /\ v = NormEzTs(t)
    OBVIOUS
  <2>4. u \in Time /\ v \in Time
    BY <1>1, <1>z, <2>2, <2>3, <2>u DEF Time
  <2>5. u # None /\ v # None
    BY <1>2, <2>4
  <2>6. u.form = "iso" /\ u.local = t.local - off /\ u.zone = 0
    BY <2>2, <2>u
  <2>7. v.form = "iso" /\ v.local = t.local /\ v.zone = off
    BY <1>z, <2>3, <2>u
  <2>8. Instant(u) = t.local - off /\ Instant(v) = t.local - off
    <3>1. Instant(u) = u.local - (IF u.zone = None THEN 0 ELSE u.zone)
      BY <2>5, <2>6 DEF Instant
    <3>2. Instant(v) = v.local - (IF v.zone = None THEN 0 ELSE v.zone)
      BY <2>5, <2>7 DEF Instant
    <3>3. v.zone = None => off = 0
      BY <1>z, <2>7
    <3>4. QED
      BY <1>1, <1>z, <2>6, <2>7, <3>1, <3>2, <3>3
  <2>9. QED
    BY <1>1, <1>2, <1>3, <1>4, <2>5, <2>8, <2>u
<1>5. CASE t.form = "epoch"
  <2>1. ~Iso(t)
    BY <1>5 DEF Iso
  <2>2. ToUtc(t) = t /\ NormEzTs(t) = t
    BY <2>1 DEF ToUtc, NormEzTs
  <2>3. QED
    BY <1>1, <1>2, <1>3, <1>5, <2>2
<1>6. QED
  BY <1>1, <1>4, <1>5

\* A UTC time.
LEMMA UtcInstant ==
    ASSUME NEW n \in Int
    PROVE  Utc(n) # None /\ Instant(Utc(n)) = n
<1>1. PICK u : u = Utc(n)
  OBVIOUS
<1>2. u = [form |-> "iso", local |-> n, zone |-> 0]
  BY <1>1 DEF Utc
<1>3. u \in Time
  BY <1>2 DEF Time
<1>4. u # None
  BY <1>3, ClockAssumption
<1>5. Instant(u) = n
  BY <1>2, <1>4 DEF Instant
<1>6. QED
  BY <1>1, <1>4, <1>5

-----------------------------------------------------------------------------
(* Records                                                                  *)

\* The record r is of the entry n, and at the time t, if there is one.
Stamped(r, n, t) ==
    /\ n # None => r.of = n
    /\ IF t # None THEN "ts" \in DOMAIN r /\ r.ts = t ELSE "ts" \notin DOMAIN r

\* _clean keeps what has a value.
LEMMA CleanKeeps ==
    ASSUME NEW full, "of" \in DOMAIN full, "ts" \in DOMAIN full
    PROVE  Stamped(Clean(full), full.of, full.ts)
BY DEF Stamped, Clean

\* What the record of each adapter is of, and the time it has: Hayabusa's time
\* as it stands,
LEMMA HayabusaStamped == ASSUME NEW e PROVE Stamped(HayabusaRecord(e), e.n, e.ts)
BY CleanKeeps DEF HayabusaRecord

\* EvtxECmd's made UTC,
LEMMA EvtxEcmdStamped == ASSUME NEW e PROVE Stamped(EvtxEcmdRecord(e), e.n, ToUtc(e.ts))
BY CleanKeeps DEF EvtxEcmdRecord

\* the epoch of a packet,
LEMMA TsharkStamped ==
    ASSUME NEW e PROVE Stamped(TsharkRecord(e), e.n, IF e.ts.form = "epoch" THEN Utc(e.ts.local) ELSE None)
BY CleanKeeps DEF TsharkRecord

\* the date of an access log made UTC,
LEMMA AccessStamped == ASSUME NEW l PROVE Stamped(RecordAccess(l), l.n, ToUtc(l.ts))
BY CleanKeeps DEF RecordAccess

\* no time for such a line in another log, any other line's made UTC,
LEMMA LineStamped ==
    ASSUME NEW l PROVE Stamped(RecordLine(l), l.n, IF l.kind = "access" THEN None ELSE ToUtc(l.ts))
BY CleanKeeps DEF RecordLine

\* the time of a syslog line made UTC,
LEMMA SyslogStamped == ASSUME NEW l PROVE Stamped(RecordSyslog(l), l.n, ToUtc(l.ts))
BY CleanKeeps DEF RecordSyslog

\* osquery's epoch,
LEMMA OsqueryStamped == ASSUME NEW e PROVE Stamped(OsqueryRecord(e), e.n, Utc(e.ts.local))
BY CleanKeeps DEF OsqueryRecord

\* CrowdStrike's time in UTC, of a block that was copied,
LEMMA ClipboardStamped == ASSUME NEW e PROVE Stamped(ClipboardRecord(e), e.n, ClipboardTime(e.ts))
<1>1. PICK host, user, file, hash, md5, src :
        ClipboardRecord(e) = Clean([of |-> e.n, source |-> "crowdstrike", ts |-> ClipboardTime(e.ts), host |-> host,
                                    user |-> user, file |-> file, hash |-> hash, md5 |-> md5, src_ip |-> src])
  BY Zenon DEF ClipboardRecord
<1>2. QED
  BY <1>1, CleanKeeps

\* and its number, of an event that was exported.
LEMMA LogscaleStamped == ASSUME NEW e PROVE Stamped(LogscaleRecord(e), e.n, LogscaleTime(e.ts))
BY CleanKeeps DEF LogscaleRecord

\* A sequence that gives one element for each of another's.
LEMMA MappedSequence ==
    ASSUME NEW s, InOrder(s), NEW q, q = [i \in DOMAIN s |-> q[i]]
    PROVE  Sequence(q) /\ InOrder(q) /\ DOMAIN q = DOMAIN s /\ Len(q) = Len(s)
<1>1. PICK n \in Nat : n = Len(s)
  BY DEF InOrder
<1>2. q = [i \in 1..n |-> q[i]]
  BY <1>1 DEF InOrder
<1>3. Sequence(q) /\ Len(q) = n
  BY <1>2, FunctionSequence
<1>4. QED
  BY <1>1, <1>3, SequenceFacts DEF InOrder

\* A selection has nothing but elements at the places.
LEMMA SelectedFrom ==
    ASSUME NEW s, InOrder(s), NEW S, NEW q, q = Selected(s, S)
    PROVE  /\ Sequence(q) /\ \A k \in DOMAIN q : \E i \in S : i \in DOMAIN s /\ q[k] = s[i]
<1>1. Lists(q, S \cap 1..Len(s), s)
  BY SelectedLists DEF InOrder
<1>2. \A k \in DOMAIN q : \E i \in S \cap 1..Len(s) : q[k] = s[i]
  BY <1>1, ListsMembers
<1>3. QED
  BY <1>1, <1>2 DEF Lists, InOrder

\* and every one of them.
LEMMA SelectedHas ==
    ASSUME NEW s, InOrder(s), NEW S, NEW q, q = Selected(s, S), NEW i \in S, i \in DOMAIN s
    PROVE  \E k \in DOMAIN q : q[k] = s[i]
<1>1. Lists(q, S \cap 1..Len(s), s)
  BY SelectedLists DEF InOrder
<1>2. i \in S \cap 1..Len(s)
  BY DEF InOrder
<1>3. QED
  BY <1>1, <1>2, ListsMembers

\* The documents of a file are entries of it.
LEMMA DocsFrom ==
    ASSUME NEW entries, InOrder(entries), NEW q, q = Docs(entries)
    PROVE  Sequence(q) /\ \A k \in DOMAIN q : q[k] \in ToSet(entries) /\ q[k].kind = "doc"
<1>1. PICK S : S = {i \in DOMAIN entries : entries[i].kind = "doc"}
  OBVIOUS
<1>2. q = Selected(entries, S)
  BY <1>1 DEF Docs
<1>3. Sequence(q) /\ \A k \in DOMAIN q : \E i \in S : i \in DOMAIN entries /\ q[k] = entries[i]
  BY <1>2, SelectedFrom
<1>4. QED
  BY <1>1, <1>3 DEF ToSet

\* Every document of it is one.
LEMMA DocsHas ==
    ASSUME NEW entries, InOrder(entries), NEW q, q = Docs(entries), NEW e \in ToSet(entries), e.kind = "doc"
    PROVE  \E k \in DOMAIN q : q[k] = e
<1>1. PICK S : S = {i \in DOMAIN entries : entries[i].kind = "doc"}
  OBVIOUS
<1>2. q = Selected(entries, S)
  BY <1>1 DEF Docs
<1>3. PICK i \in DOMAIN entries : entries[i] = e
  BY DEF ToSet
<1>4. i \in S
  BY <1>1, <1>3
<1>5. QED
  BY <1>2, <1>3, <1>4, SelectedHas

\* One JSON document that is cut short has none.
LEMMA DocumentsFrom ==
    ASSUME NEW json, InOrder(json.entries), NEW q, q = Documents(json)
    PROVE  Sequence(q) /\ \A k \in DOMAIN q : q[k] \in ToSet(json.entries) /\ q[k].kind = "doc"
<1>1. CASE q = Docs(json.entries)
  BY <1>1, DocsFrom
<1>2. CASE q = <<>>
  <2>1. Sequence(q)
    BY <1>2, EmptySeq DEF Sequence
  <2>2. DOMAIN q = {}
    BY <1>2, EmptySeq, <2>1, SequenceFacts
  <2>3. QED
    BY <2>1, <2>2
<1>3. QED
  BY <1>1, <1>2 DEF Documents

-----------------------------------------------------------------------------
(* Adapters                                                                 *)

\* A record of a file is of an entry of its clock, and at its time, if that is
\* worded as the adapter reads it.
OnTime(r, f) ==
    \E c \in Clock(f) :
        /\ c[1] # None => r.of = c[1]
        /\ c[2] \in Stamp(f.kind) =>
              IF "ts" \in DOMAIN r THEN AtInstant(f, r.ts, Instant(c[2])) ELSE Foreign(f, c[1])

\* A stamp is a time.
LEMMA StampIsTime == ASSUME NEW kind PROVE Stamp(kind) \subseteq Time
BY DEF Stamp

\* A record is on time when it has the time beside its entry, or none where that
\* is foreign.
LEMMA OnTimeOr ==
    ASSUME NEW f, NEW r, NEW n, NEW t, <<n, t>> \in Clock(f), NEW u, Stamped(r, n, u),
           t \in Stamp(f.kind) => IF u # None THEN AtInstant(f, u, Instant(t)) ELSE Foreign(f, n)
    PROVE  OnTime(r, f)
<1>1. PICK c \in Clock(f) : c[1] = n /\ c[2] = t
  OBVIOUS
<1>2. QED
  BY <1>1 DEF OnTime, Stamped

\* So it is when that is the same instant.
LEMMA OnTimeBy ==
    ASSUME NEW f, NEW r, NEW n, NEW t, <<n, t>> \in Clock(f), NEW u, Stamped(r, n, u),
           t \in Stamp(f.kind) => u # None /\ Instant(u) = Instant(t)
    PROVE  OnTime(r, f)
<1>1. t \in Stamp(f.kind) => AtInstant(f, u, Instant(t))
  BY DEF AtInstant, SameDay
<1>2. QED
  BY <1>1, OnTimeOr

\* A record of each adapter is made of an entry of the file: an alert,
LEMMA EvtxMade ==
    ASSUME NEW c, InOrder(c), NEW r \in ToSet(Load("evtx", c).records)
    PROVE  \E e \in ToSet(c) : e.kind = "doc" /\ r = HayabusaRecord(e)
<1>q. PICK q : q = Docs(c)
  OBVIOUS
<1>1. Load("evtx", c).records = [i \in DOMAIN q |-> HayabusaRecord(q[i])]
  BY <1>q DEF Load, Loaded, Hayabusa, MapSeq
<1>2. PICK k \in DOMAIN q : r = HayabusaRecord(q[k])
  BY <1>1 DEF ToSet
<1>3. q[k] \in ToSet(c) /\ q[k].kind = "doc"
  BY <1>q, DocsFrom
<1>4. QED
  BY <1>2, <1>3

\* an event,
LEMMA EvtxFullMade ==
    ASSUME NEW c, InOrder(c), NEW r \in ToSet(Load("evtx_full", c).records)
    PROVE  \E e \in ToSet(c) : e.kind = "doc" /\ r = EvtxEcmdRecord(e)
<1>q. PICK q : q = Docs(c)
  OBVIOUS
<1>1. Load("evtx_full", c).records = [i \in DOMAIN q |-> EvtxEcmdRecord(q[i])]
  BY <1>q DEF Load, Loaded, EvtxEcmd, MapSeq
<1>2. PICK k \in DOMAIN q : r = EvtxEcmdRecord(q[k])
  BY <1>1 DEF ToSet
<1>3. q[k] \in ToSet(c) /\ q[k].kind = "doc"
  BY <1>q, DocsFrom
<1>4. QED
  BY <1>2, <1>3

\* a packet,
LEMMA PacketMade ==
    ASSUME NEW c, InOrder(c.packets), NEW r \in ToSet(Load("pcap", c).records)
    PROVE  \E e \in ToSet(c.packets) : r = TsharkRecord(e)
<1>c. PICK packets, rows : packets = c.packets /\ rows = [i \in DOMAIN packets |-> TsharkRecord(packets[i])]
  OBVIOUS
<1>S. PICK S : S = {i \in DOMAIN rows : {"src_ip", "dst_ip", "dns"} \cap DOMAIN rows[i] # {}}
  OBVIOUS
<1>1. Load("pcap", c).records = Selected(rows, S)
  BY <1>c, <1>S DEF Load, Loaded, Tshark, MapSeq
<1>2. InOrder(rows)
  <2>1. rows = [i \in DOMAIN packets |-> rows[i]]
    BY <1>c
  <2>2. QED
    BY <1>c, <2>1, MappedSequence
<1>s. PICK q : q = Selected(rows, S)
  OBVIOUS
<1>3. PICK k \in DOMAIN q : r = q[k]
  BY <1>1, <1>s DEF ToSet
<1>4. PICK i \in DOMAIN rows : r = rows[i]
  BY <1>2, <1>3, <1>s, SelectedFrom
<1>5. QED
  BY <1>4, <1>c DEF ToSet

\* a line of a log that its shape does not pass over,
LEMMA LogMade ==
    ASSUME NEW lines, InOrder(lines), NEW r \in ToSet(Load("log", lines).records), NEW shape, shape = Sniff(lines)
    PROVE  \E l \in ToSet(lines) : /\ l.kind # "blank" /\ (shape = "jsonl" => l.kind = "json")
                                  /\ r = LogRecord(l, shape)
<1>S. PICK S : S = {i \in DOMAIN lines : lines[i].kind # "blank" /\ (shape = "jsonl" => lines[i].kind = "json")}
  OBVIOUS
<1>q. PICK q : q = Selected(lines, S)
  OBVIOUS
<1>1. Load("log", lines) = Raised \/ Load("log", lines) = Loaded([i \in DOMAIN q |-> LogRecord(q[i], shape)])
  BY <1>S, <1>q DEF Load, Logfile, MapSeq
<1>2. PICK k \in DOMAIN q : r = LogRecord(q[k], shape)
  <2>1. CASE Load("log", lines) = Raised
    <3>1. DOMAIN <<>> = {} /\ r \in ToSet(<<>>)
      BY <2>1 DEF Raised
    <3>2. QED
      BY <3>1 DEF ToSet
  <2>2. CASE Load("log", lines) = Loaded([i \in DOMAIN q |-> LogRecord(q[i], shape)])
    BY <2>2 DEF Loaded, ToSet
  <2>3. QED
    BY <1>1, <2>1, <2>2
<1>3. PICK i \in S : i \in DOMAIN lines /\ q[k] = lines[i]
  BY <1>q, SelectedFrom
<1>4. QED
  BY <1>2, <1>3, <1>S DEF ToSet

\* Hayabusa's times stay as they are.
LEMMA EvtxOnTime ==
    ASSUME NEW f, f.kind = "evtx", Ordered(f), NEW r \in ToSet(Load("evtx", f.content).records)
    PROVE  OnTime(r, f)
<1>1. PICK e \in ToSet(f.content) : e.kind = "doc" /\ r = HayabusaRecord(e)
  BY EvtxMade DEF Ordered
<1>2. <<e.n, e.ts>> \in Clock(f)
  BY <1>1 DEF Clock
<1>3. Stamped(r, e.n, e.ts)
  BY <1>1, HayabusaStamped
<1>4. e.ts \in Stamp(f.kind) => e.ts # None
  BY StampIsTime, SameInstant
<1>5. QED
  BY <1>2, <1>3, <1>4, OnTimeBy

\* EvtxECmd's are made UTC.
LEMMA EvtxFullOnTime ==
    ASSUME NEW f, f.kind = "evtx_full", Ordered(f), NEW r \in ToSet(Load("evtx_full", f.content).records)
    PROVE  OnTime(r, f)
<1>1. PICK e \in ToSet(f.content) : e.kind = "doc" /\ r = EvtxEcmdRecord(e)
  BY EvtxFullMade DEF Ordered
<1>2. <<e.n, e.ts>> \in Clock(f)
  BY <1>1 DEF Clock
<1>3. Stamped(r, e.n, ToUtc(e.ts))
  BY <1>1, EvtxEcmdStamped
<1>4. e.ts \in Stamp(f.kind) => ToUtc(e.ts) # None /\ Instant(ToUtc(e.ts)) = Instant(e.ts)
  BY StampIsTime, SameInstant
<1>5. QED
  BY <1>2, <1>3, <1>4, OnTimeBy

\* A packet's epoch is a UTC time.
LEMMA PacketOnTime ==
    ASSUME NEW f, f.kind = "pcap", Ordered(f), NEW r \in ToSet(Load("pcap", f.content).records)
    PROVE  OnTime(r, f)
<1>1. PICK e \in ToSet(f.content.packets) : r = TsharkRecord(e)
  BY PacketMade DEF Ordered
<1>2. <<e.n, e.ts>> \in Clock(f)
  BY DEF Clock
<1>u. PICK u : u = IF e.ts.form = "epoch" THEN Utc(e.ts.local) ELSE None
  OBVIOUS
<1>3. Stamped(r, e.n, u)
  BY <1>1, <1>u, TsharkStamped
<1>4. e.ts \in Stamp(f.kind) => u # None /\ Instant(u) = Instant(e.ts)
  <2> SUFFICES ASSUME e.ts \in Stamp(f.kind) PROVE u # None /\ Instant(u) = Instant(e.ts)
    OBVIOUS
  <2>1. e.ts \in Time /\ e.ts.form = "epoch"
    BY DEF Stamp
  <2>2. e.ts.local \in Int /\ u = Utc(e.ts.local) /\ e.ts # None
    BY <1>u, <2>1, SameInstant DEF Time
  <2>3. Instant(e.ts) = e.ts.local
    BY <2>1, <2>2 DEF Instant
  <2>4. QED
    BY <2>2, <2>3, UtcInstant
<1>5. QED
  BY <1>2, <1>3, <1>4, OnTimeBy

\* A connection's records are of a connection, which has many times.
LEMMA ConnectionOnTime ==
    ASSUME NEW f, f.kind = "pcap", f.content.zeek # None, Logs(f.content.zeek), NEW r \in ToSet(Zeek(f.content.zeek))
    PROVE  OnTime(r, f)
<1>z. PICK z, recs : z = f.content.zeek /\ recs = Zeek(z)
  OBVIOUS
<1>1. Joined(z, recs)
  BY <1>z, ZeekIsWhole
<1>2. PICK k \in DOMAIN recs : r = recs[k]
  BY <1>z DEF ToSet
<1>3. PICK c \in DOMAIN z.conn : r.of = z.conn[c].n
  BY <1>1, <1>2 DEF Joined
<1>e. PICK e : e = z.conn[c]
  OBVIOUS
<1>4. e \in ToSet(z.conn)
  BY <1>e DEF ToSet
<1>5. <<e.n, None>> \in Clock(f)
  BY <1>4, <1>z DEF Clock
<1>6. None \notin Stamp(f.kind)
  BY StampIsTime, ClockAssumption
<1>7. QED
  <2>1. PICK p \in Clock(f) : p[1] = e.n /\ p[2] = None
    BY <1>5
  <2>2. QED
    BY <1>3, <1>6, <1>e, <2>1 DEF OnTime

\* A JSON line is at a time one of its keys gives, if any does.
LEMMA MappingStamped ==
    ASSUME NEW l, InOrder(l.fields)
    PROVE  \E t \in LineTimes(l, "jsonl") : Stamped(RecordMapping(l), l.n, IF t = None THEN None ELSE ToUtc(t))
<1> DEFINE places(f) == {i \in DOMAIN l.fields : l.fields[i][1] \in GroupMap[f] /\ l.fields[i][2] # None}
           said(f)  == Selected(l.fields, places(f))
           value(f) == IF f = "ts" THEN ToUtc(Last(said(f))[2]) ELSE Last(said(f))[2]
           meant    == {f \in DOMAIN GroupMap : said(f) # <<>>}
           code     == IF "http_status" \in meant THEN value("http_status") ELSE None
           full     == [f \in meant \cup {"of", "source", "outcome"} |->
                          CASE f = "of" -> l.n [] f = "source" -> "log" [] f = "outcome" -> OutcomeFromStatus(code)
                            [] OTHER -> value(f)]
           times    == {p \in ToSet(l.fields) : p[1] \in GroupMap.ts /\ p[2] # None}
<1>1. RecordMapping(l) = Clean(full)
  BY DEF RecordMapping
<1>2. (times = {} => None \in LineTimes(l, "jsonl")) /\ \A p \in times : p[2] \in LineTimes(l, "jsonl")
  BY DEF LineTimes
<1>3. "ts" \in DOMAIN GroupMap
  BY DEF GroupMap
<1>S. PICK S : S = places("ts")
  OBVIOUS
<1>g. PICK g : g = l.fields
  OBVIOUS
<1>o. PICK q : q = Selected(g, S)
  OBVIOUS
<1>4. Sequence(q) /\ \A k \in DOMAIN q : \E i \in S : i \in DOMAIN l.fields /\ q[k] = l.fields[i]
  BY <1>g, <1>o, SelectedFrom
<1>q. q = said("ts") /\ S = places("ts")
  BY <1>S, <1>g, <1>o
<1> HIDE DEF said
<1>5. CASE q = <<>>
  <2>1. times = {}
    <3>1. Lists(q, S \cap 1..Len(l.fields), l.fields)
      BY <1>q, SelectedLists DEF said, InOrder
    <3>2. DOMAIN q = {}
      BY <1>4, <1>5, SequenceFacts
    <3>3. S \cap 1..Len(l.fields) = {}
      BY <3>1, <3>2, ListsMembers
    <3>4. S = {}
      BY <1>q, <3>3 DEF InOrder
    <3>5. QED
      BY <1>q, <3>4 DEF ToSet
  <2>2. None \in LineTimes(l, "jsonl")
    BY <1>2, <2>1
  <2>m. "ts" \notin meant
    BY <1>5, <1>q
  <2> HIDE DEF value, meant, code
  <2>3. "of" \in DOMAIN full /\ full.of = l.n /\ "ts" \notin DOMAIN full
    BY <2>m
  <2> HIDE DEF full
  <2>4. Stamped(Clean(full), l.n, None)
    BY <2>3 DEF Stamped, Clean
  <2>5. QED
    BY <1>1, <2>2, <2>4
<1>6. CASE q # <<>>
  <2>1. PICK t : t = Last(q)[2]
    OBVIOUS
  <2>2. Len(q) \in DOMAIN q /\ Last(q) = q[Len(q)]
    BY <1>4, <1>6, SequenceFacts DEF Last
  <2>3. PICK i \in S : i \in DOMAIN l.fields /\ Last(q) = l.fields[i]
    BY <1>4, <2>2
  <2>4. Last(q) \in times /\ t # None
    BY <1>q, <2>1, <2>3 DEF ToSet
  <2>5. t \in LineTimes(l, "jsonl")
    BY <1>2, <2>1, <2>4
  <2>6. "ts" \in meant
    BY <1>3, <1>6, <1>q
  <2>7. value("ts") = ToUtc(t)
    BY <1>q, <2>1
  <2> HIDE DEF value, meant, code
  <2>8. "of" \in DOMAIN full /\ full.of = l.n /\ "ts" \in DOMAIN full /\ full.ts = ToUtc(t)
    BY <2>6, <2>7
  <2> HIDE DEF full
  <2>9. Stamped(Clean(full), l.n, ToUtc(t))
    BY <2>8 DEF Stamped, Clean
  <2>10. QED
    BY <1>1, <2>4, <2>5, <2>9
<1>7. QED
  BY <1>5, <1>6

\* A line of a log that has the date of an access log and is not in one.
Dateless(l, shape) == shape # "access" /\ l.kind = "access"

\* A line of a log, read by its shape or the file's.
LEMMA LineOnTime ==
    ASSUME NEW l, NEW shape, shape = "jsonl" => l.kind = "json" /\ InOrder(l.fields)
    PROVE  \E t \in LineTimes(l, shape) :
              Stamped(LogRecord(l, shape), l.n, IF t = None \/ Dateless(l, shape) THEN None ELSE ToUtc(t))
<1>1. CASE shape = "jsonl"
  <2>1. LogRecord(l, shape) = RecordMapping(l) /\ ~Dateless(l, shape)
    BY <1>1 DEF LogRecord, Dateless
  <2>2. QED
    BY <1>1, <2>1, MappingStamped
<1>2. CASE shape # "jsonl" /\ Dateless(l, shape)
  <2>1. LogRecord(l, shape) = RecordLine(l)
    BY <1>2 DEF LogRecord, Dateless
  <2>2. Stamped(RecordLine(l), l.n, None)
    BY <1>2, LineStamped DEF Dateless
  <2>3. l.ts \in LineTimes(l, shape)
    BY <1>2 DEF LineTimes
  <2>4. QED
    BY <1>2, <2>1, <2>2, <2>3
<1>3. CASE shape # "jsonl" /\ ~Dateless(l, shape)
  <2>1. LogRecord(l, shape) \in {RecordAccess(l), RecordSyslog(l)} \/ (LogRecord(l, shape) = RecordLine(l) /\ l.kind # "access")
    BY <1>3 DEF LogRecord, Dateless
  <2>2. Stamped(LogRecord(l, shape), l.n, ToUtc(l.ts))
    BY <2>1, AccessStamped, SyslogStamped, LineStamped
  <2>3. l.ts \in LineTimes(l, shape)
    BY <1>3 DEF LineTimes
  <2>4. ToUtc(None) = None
    BY DEF ToUtc, Iso
  <2>5. Stamped(LogRecord(l, shape), l.n, IF l.ts = None \/ Dateless(l, shape) THEN None ELSE ToUtc(l.ts))
    BY <1>3, <2>2, <2>4
  <2>6. QED
    BY <2>3, <2>5
<1>4. QED
  BY <1>1, <1>2, <1>3

\* An offset in a log is applied; the date of an access log elsewhere is foreign.
LEMMA LogOnTime ==
    ASSUME NEW f, f.kind = "log", Ordered(f), NEW r \in ToSet(Load("log", f.content).records)
    PROVE  OnTime(r, f)
<1>c. PICK lines, shape : lines = f.content /\ shape = Sniff(lines)
  OBVIOUS
<1>1. InOrder(lines) /\ \A l \in ToSet(lines) : InOrder(l.fields)
  BY <1>c DEF Ordered
<1>2. PICK l \in ToSet(lines) : /\ l.kind # "blank" /\ (shape = "jsonl" => l.kind = "json")
                               /\ r = LogRecord(l, shape)
  BY <1>1, <1>c, LogMade
<1>3. PICK t \in LineTimes(l, shape) :
         Stamped(LogRecord(l, shape), l.n, IF t = None \/ Dateless(l, shape) THEN None ELSE ToUtc(t))
  BY <1>1, <1>2, LineOnTime
<1>u. PICK u : u = IF t = None \/ Dateless(l, shape) THEN None ELSE ToUtc(t)
  OBVIOUS
<1>4. <<l.n, t>> \in Clock(f)
  BY <1>2, <1>3, <1>c DEF Clock
<1>5. Stamped(r, l.n, u)
  BY <1>2, <1>3, <1>u
<1>6. CASE Dateless(l, shape)
  <2>1. Foreign(f, l.n) /\ u = None
    BY <1>2, <1>6, <1>c, <1>u DEF Foreign, Dateless
  <2>2. QED
    BY <1>4, <1>5, <2>1, OnTimeOr
<1>7. CASE ~Dateless(l, shape)
  <2>1. t \in Stamp(f.kind) => u # None /\ Instant(u) = Instant(t)
    BY <1>7, <1>u, StampIsTime, SameInstant
  <2>2. QED
    BY <1>4, <1>5, <2>1, OnTimeBy
<1>8. QED
  BY <1>6, <1>7

\* An entry of a selection from what a JSON file holds is an entry of the file.
LEMMA KeptDocument ==
    ASSUME NEW json, InOrder(json.entries), NEW read, read = Documents(json), NEW S, NEW q, q = Selected(read, S),
           NEW k \in DOMAIN q
    PROVE  \E i \in S : i \in DOMAIN read /\ q[k] = read[i] /\ read[i] \in ToSet(json.entries) /\ read[i].kind = "doc"
<1>1. Sequence(read) /\ \A i \in DOMAIN read : read[i] \in ToSet(json.entries) /\ read[i].kind = "doc"
  BY DocumentsFrom
<1>2. InOrder(read)
  BY <1>1, SequenceFacts DEF InOrder
<1>3. PICK i \in S : i \in DOMAIN read /\ q[k] = read[i]
  BY <1>2, SelectedFrom
<1>4. QED
  BY <1>1, <1>3

\* A row of osquery's that has an epoch,
LEMMA OsqueryMade ==
    ASSUME NEW c, InOrder(c.entries), NEW r \in ToSet(Load("osquery", c).records)
    PROVE  \E e \in ToSet(c.entries) : e.kind = "doc" /\ e.ts # None /\ e.ts.form = "epoch" /\ r = OsqueryRecord(e)
<1>r. PICK read : read = Documents(c)
  OBVIOUS
<1>S. PICK S : S = {i \in DOMAIN read : read[i].ts # None /\ read[i].ts.form = "epoch"}
  OBVIOUS
<1>q. PICK q : q = Selected(read, S)
  OBVIOUS
<1>1. Load("osquery", c).records = [i \in DOMAIN q |-> OsqueryRecord(q[i])]
  BY <1>r, <1>S, <1>q DEF Load, Loaded, Osquery, MapSeq
<1>2. PICK k \in DOMAIN q : r = OsqueryRecord(q[k])
  BY <1>1 DEF ToSet
<1>3. PICK i \in S : i \in DOMAIN read /\ q[k] = read[i] /\ read[i] \in ToSet(c.entries) /\ read[i].kind = "doc"
  BY <1>r, <1>q, KeptDocument
<1>4. QED
  BY <1>2, <1>3, <1>S

\* an entry of the file table,
LEMMA MftMade ==
    ASSUME NEW c, InOrder(c.entries), NEW r \in ToSet(Load("mft", c).records)
    PROVE  \E e \in ToSet(c.entries) :
              e.kind = "doc" /\ r = Clean([of |-> e.n, source |-> "mft", ts |-> NormEzTs(First(e.times, MftTimes)),
                                         file |-> MftName(e)])
<1>r. PICK read : read = Documents(c)
  OBVIOUS
<1>S. PICK S : S = {i \in DOMAIN read : read[i].entry \notin {None, 0} \/ read[i].name # None}
  OBVIOUS
<1>q. PICK q : q = Selected(read, S)
  OBVIOUS
<1>1. Load("mft", c).records = [i \in DOMAIN q |-> Clean([of |-> q[i].n, source |-> "mft",
                                   ts |-> NormEzTs(First(q[i].times, MftTimes)), file |-> MftName(q[i])])]
  BY <1>r, <1>S, <1>q DEF Load, Loaded, Mft, MapSeq
<1>2. PICK k \in DOMAIN q : r = Clean([of |-> q[k].n, source |-> "mft",
                                   ts |-> NormEzTs(First(q[k].times, MftTimes)), file |-> MftName(q[k])])
  BY <1>1 DEF ToSet
<1>3. q[k] \in ToSet(c.entries) /\ q[k].kind = "doc"
  BY <1>r, <1>q, KeptDocument
<1>4. QED
  BY <1>2, <1>3

\* a block that was copied, or an event that was exported.
LEMMA CrowdStrikeMade ==
    ASSUME NEW c, InOrder(c.entries), NEW r \in ToSet(Load("crowdstrike", c).records)
    PROVE  \E e \in ToSet(c.entries) :
              e.kind = "doc" /\ r = IF c.shape = "clipboard" THEN ClipboardRecord(e) ELSE LogscaleRecord(e)
<1>1. CASE c.shape = "clipboard"
  <2>r. PICK read : read = Docs(c.entries)
    OBVIOUS
  <2>S. PICK S : S = {i \in DOMAIN read : DOMAIN read[i].d # {} \/ ClipboardTime(read[i].ts) # None}
    OBVIOUS
  <2>q. PICK q : q = Selected(read, S)
    OBVIOUS
  <2>1. Load("crowdstrike", c).records = [i \in DOMAIN q |-> ClipboardRecord(q[i])]
    BY <1>1, <2>r, <2>S, <2>q DEF Load, Loaded, CrowdStrike, MapSeq
  <2>2. PICK k \in DOMAIN q : r = ClipboardRecord(q[k])
    BY <2>1 DEF ToSet
  <2>3. Sequence(read) /\ \A i \in DOMAIN read : read[i] \in ToSet(c.entries) /\ read[i].kind = "doc"
    BY <2>r, DocsFrom
  <2>4. InOrder(read)
    BY <2>3, SequenceFacts DEF InOrder
  <2>5. PICK i \in DOMAIN read : q[k] = read[i]
    BY <2>4, <2>q, SelectedFrom
  <2>6. QED
    BY <1>1, <2>2, <2>3, <2>5
<1>2. CASE c.shape # "clipboard"
  <2>q. PICK q : q = Documents(c)
    OBVIOUS
  <2>1. Load("crowdstrike", c).records = [i \in DOMAIN q |-> LogscaleRecord(q[i])]
    BY <1>2, <2>q DEF Load, Loaded, CrowdStrike, MapSeq
  <2>2. PICK k \in DOMAIN q : r = LogscaleRecord(q[k])
    BY <2>1 DEF ToSet
  <2>3. q[k] \in ToSet(c.entries) /\ q[k].kind = "doc"
    BY <2>q, DocumentsFrom
  <2>4. QED
    BY <1>2, <2>2, <2>3
<1>3. QED
  BY <1>1, <1>2

\* A row osquery dates by its epoch is at that UTC time; one it does not is dropped.
LEMMA OsqueryOnTime ==
    ASSUME NEW f, f.kind = "osquery", Ordered(f), NEW r \in ToSet(Load("osquery", f.content).records)
    PROVE  OnTime(r, f)
<1>1. PICK e \in ToSet(f.content.entries) : /\ e.kind = "doc" /\ e.ts # None /\ e.ts.form = "epoch"
                                            /\ r = OsqueryRecord(e)
  BY OsqueryMade DEF Ordered
<1>2. <<e.n, e.ts>> \in Clock(f)
  BY <1>1 DEF Clock
<1>3. Stamped(r, e.n, Utc(e.ts.local))
  BY <1>1, OsqueryStamped
<1>4. e.ts \in Stamp(f.kind) => Utc(e.ts.local) # None /\ Instant(Utc(e.ts.local)) = Instant(e.ts)
  <2> SUFFICES ASSUME e.ts \in Stamp(f.kind) PROVE Utc(e.ts.local) # None /\ Instant(Utc(e.ts.local)) = Instant(e.ts)
    OBVIOUS
  <2>1. e.ts \in Time /\ e.ts.form = "epoch" /\ e.ts # None
    BY <1>1, StampIsTime
  <2>2. e.ts.local \in Int
    BY <2>1 DEF Time
  <2>3. Instant(e.ts) = e.ts.local
    BY <2>1 DEF Instant
  <2>4. QED
    BY <2>2, <2>3, UtcInstant
<1>5. QED
  BY <1>2, <1>3, <1>4, OnTimeBy

\* MFTECmd's first time is reworded, with its offset.
LEMMA MftOnTime ==
    ASSUME NEW f, f.kind = "mft", Ordered(f), NEW r \in ToSet(Load("mft", f.content).records)
    PROVE  OnTime(r, f)
<1>1. PICK e \in ToSet(f.content.entries) :
         e.kind = "doc" /\ r = Clean([of |-> e.n, source |-> "mft", ts |-> NormEzTs(First(e.times, MftTimes)),
                                    file |-> MftName(e)])
  BY MftMade DEF Ordered
<1>t. PICK t : t = First(e.times, MftTimes)
  OBVIOUS
<1>2. <<e.n, t>> \in Clock(f)
  BY <1>1, <1>t DEF Clock
<1>3. Stamped(r, e.n, NormEzTs(t))
  BY <1>1, <1>t, CleanKeeps
<1>4. t \in Stamp(f.kind) => NormEzTs(t) # None /\ Instant(NormEzTs(t)) = Instant(t)
  BY StampIsTime, SameInstant
<1>5. QED
  BY <1>2, <1>3, <1>4, OnTimeBy

\* CrowdStrike's time is UTC, where it is read.
LEMMA CrowdSame ==
    ASSUME NEW t \in Stamp("crowdstrike")
    PROVE  /\ ClipboardTime(t) # None => Instant(ClipboardTime(t)) = Instant(t)
           /\ LogscaleTime(t) # None => Instant(LogscaleTime(t)) = Instant(t)
<1>1. t \in Time
  BY DEF Stamp
<1>2. t # None /\ t.local \in Int
  BY <1>1, SameInstant DEF Time
<1>3. Instant(Utc(t.local)) = t.local
  BY <1>2, UtcInstant
<1>4. CASE t.form = "iso" /\ t.zone = 0
  <2>1. ClipboardTime(t) = Utc(t.local) /\ LogscaleTime(t) = None
    BY <1>2, <1>4 DEF ClipboardTime, LogscaleTime
  <2>2. Instant(t) = t.local
    BY <1>2, <1>4 DEF Instant
  <2>3. QED
    BY <1>3, <2>1, <2>2
<1>5. CASE t.form = "epoch"
  <2>1. LogscaleTime(t) = Utc(t.local) /\ ClipboardTime(t) = None
    BY <1>2, <1>5 DEF ClipboardTime, LogscaleTime
  <2>2. Instant(t) = t.local
    BY <1>2, <1>5 DEF Instant
  <2>3. QED
    BY <1>3, <2>1, <2>2
<1>6. CASE ~(t.form = "iso" /\ t.zone = 0) /\ t.form # "epoch"
  BY <1>6 DEF ClipboardTime, LogscaleTime
<1>7. QED
  BY <1>4, <1>5, <1>6

\* A CrowdStrike record is of its entry and its time, by either road, or of one
\* whose time is foreign.
LEMMA CrowdStrikeOnTime ==
    ASSUME NEW f, f.kind = "crowdstrike", Ordered(f), NEW r \in ToSet(Load("crowdstrike", f.content).records)
    PROVE  OnTime(r, f)
<1>c. PICK c : c = f.content
  OBVIOUS
<1>1. PICK e \in ToSet(c.entries) :
         e.kind = "doc" /\ r = IF c.shape = "clipboard" THEN ClipboardRecord(e) ELSE LogscaleRecord(e)
  BY <1>c, CrowdStrikeMade DEF Ordered
<1>u. PICK u : u = IF c.shape = "clipboard" THEN ClipboardTime(e.ts) ELSE LogscaleTime(e.ts)
  OBVIOUS
<1>2. Stamped(r, e.n, u)
  BY <1>1, <1>u, ClipboardStamped, LogscaleStamped
<1>3. <<e.n, e.ts>> \in Clock(f)
  BY <1>1, <1>c DEF Clock
<1>4. ASSUME u # None, e.ts \in Stamp(f.kind) PROVE AtInstant(f, u, Instant(e.ts))
  <2>1. Instant(u) = Instant(e.ts)
    BY <1>4, <1>u, CrowdSame
  <2>2. QED
    BY <2>1 DEF AtInstant, SameDay
<1>5. u = None => Foreign(f, e.n)
  BY <1>1, <1>c, <1>u DEF Foreign
<1>6. QED
  BY <1>2, <1>3, <1>4, <1>5, OnTimeOr

\* What stands in a sequence of sequences stands in one of them.
LEMMA FlattenFrom ==
    ASSUME NEW seqs, Sequence(seqs), \A i \in 1..Len(seqs) : Sequence(seqs[i]), NEW q, q = FlattenSeq(seqs)
    PROVE  Sequence(q) /\ \A k \in DOMAIN q : \E i \in 1..Len(seqs) : \E j \in 1..Len(seqs[i]) : q[k] = seqs[i][j]
<1>1. Lists(q, Places(seqs), ElementAt(seqs))
  BY FlattenLists
<1>2. Sequence(q)
  BY <1>1 DEF Lists
<1>3. ASSUME NEW k \in DOMAIN q PROVE \E i \in 1..Len(seqs) : \E j \in 1..Len(seqs[i]) : q[k] = seqs[i][j]
  <2>1. PICK p \in Places(seqs) : q[k] = ElementAt(seqs)[p]
    BY <1>1, ListsMembers
  <2>2. PICK i \in 1..Len(seqs) : p \in {i} \X (1..Len(seqs[i]))
    BY <2>1 DEF Places
  <2>3. p[1] = i /\ p[2] \in 1..Len(seqs[i])
    BY <2>2
  <2>4. q[k] = seqs[p[1]][p[2]]
    BY <2>1 DEF ElementAt
  <2>5. QED
    BY <2>3, <2>4
<1>4. QED
  BY <1>2, <1>3

\* and all that stands in one of them.
LEMMA FlattenHas ==
    ASSUME NEW seqs, Sequence(seqs), \A i \in 1..Len(seqs) : Sequence(seqs[i]), NEW q, q = FlattenSeq(seqs),
           NEW i \in 1..Len(seqs), NEW j \in 1..Len(seqs[i])
    PROVE  \E k \in DOMAIN q : q[k] = seqs[i][j]
<1>1. Lists(q, Places(seqs), ElementAt(seqs))
  BY FlattenLists
<1>p. PICK p : p = <<i, j>>
  OBVIOUS
<1>2. p \in {i} \X (1..Len(seqs[i]))
  BY <1>p
<1>3. p \in Places(seqs)
  BY <1>2 DEF Places
<1>4. ElementAt(seqs)[p] = seqs[i][j]
  BY <1>3, <1>p DEF ElementAt
<1>5. QED
  BY <1>1, <1>3, <1>4, ListsMembers

\* The record of what a registry says of a value.
Registered(p, ts) ==
    Clean([of |-> p.of, source |-> "registry", ts |-> ts, key |-> p.key, value |-> p.value,
           category |-> p.category, file |-> p.program, severity |-> p.severity])

\* A record of an export is of what parse_regfile reads in it,
LEMMA RegistryMade ==
    ASSUME NEW c, NEW r \in ToSet(Load("registry", c).records)
    PROVE  \E p \in ToSet(ParseRegfile(c.lines)) : r = Registered(p, c.mtime)
<1>o. PICK out : out = ParseRegfile(c.lines)
  OBVIOUS
<1> DEFINE records == RegistryRecords(out, LAMBDA p : c.mtime)
<1>1. records = [k \in DOMAIN out |-> Registered(out[k], c.mtime)]
  BY DEF RegistryRecords, MapSeq, Registered
<1>2. Load("registry", c) = Raised \/ Load("registry", c) = Loaded(records)
  BY <1>o DEF Load
<1> HIDE DEF records
<1>3. CASE Load("registry", c) = Raised
  <2>1. DOMAIN <<>> = {} /\ r \in ToSet(<<>>)
    BY <1>3 DEF Raised
  <2>2. QED
    BY <2>1 DEF ToSet
<1>4. CASE Load("registry", c) = Loaded(records)
  <2>1. r \in ToSet(records)
    BY <1>4 DEF Loaded
  <2>2. PICK k \in DOMAIN out : r = Registered(out[k], c.mtime)
    BY <1>1, <2>1 DEF ToSet
  <2>3. QED
    BY <1>o, <2>2 DEF ToSet
<1>5. QED
  BY <1>2, <1>3, <1>4

\* What a hive says: of a key's value, or of a key that has none.
Hived(node, p) ==
    /\ p.of = 0 \/ \E v \in ToSet(node.values) \ {None} : p.of = v.n
    /\ p.program = None \/ \E v \in ToSet(node.values) \ {None} : \E category :
                               p.program = ProgramFromValue(category, v.name, v.data)

\* The values of a key that are objects.
ObjectsOf(values) == Selected(values, {i \in DOMAIN values : values[i] # None})

\* They stand among its values, each of them.
LEMMA ObjectsAre ==
    ASSUME NEW values, InOrder(values)
    PROVE  /\ InOrder(ObjectsOf(values))
           /\ \A k \in DOMAIN ObjectsOf(values) : ObjectsOf(values)[k] \in ToSet(values)
           /\ \A v \in ToSet(values) \ {None} : \E k \in DOMAIN ObjectsOf(values) : ObjectsOf(values)[k] = v
<1>s. PICK S : S = {i \in DOMAIN values : values[i] # None}
  OBVIOUS
<1>q. PICK q : q = Selected(values, S)
  OBVIOUS
<1>1. q = ObjectsOf(values)
  BY <1>s, <1>q DEF ObjectsOf
<1>2. InOrder(q)
  <2>1. Sequence(q)
    BY <1>q, SelectedFrom
  <2>2. QED
    BY <2>1, SequenceFacts DEF InOrder
<1>3. \A k \in DOMAIN q : q[k] \in ToSet(values)
  BY <1>q, SelectedFrom DEF ToSet
<1>4. ASSUME NEW v \in ToSet(values) \ {None} PROVE \E k \in DOMAIN q : q[k] = v
  <2>1. PICK i \in S : i \in DOMAIN values /\ values[i] = v
    BY <1>s DEF ToSet
  <2>2. QED
    BY <2>1, <1>q, SelectedHas
<1>5. QED
  BY <1>1, <1>2, <1>3, <1>4

\* The rows of a hive, key by key.
LEMMA HiveRows ==
    ASSUME NEW c, InOrder(c), \A node \in ToSet(c) : InOrder(node.values),
           NEW seqs, seqs = [i \in DOMAIN c |-> FlattenKey(PathOf(c)[i], c[i])]
    PROVE  DOMAIN seqs = 1..Len(seqs) /\ Sequence(seqs) /\ \A i \in 1..Len(seqs) : i \in DOMAIN c /\ Sequence(seqs[i])
<1>1. Sequence(seqs) /\ DOMAIN seqs = DOMAIN c
  BY MappedSequence
<1>2. ASSUME NEW i \in DOMAIN c PROVE Sequence(seqs[i])
  <2>n. PICK node, key, s : node = c[i] /\ key = PathOf(c)[i] /\ s = seqs[i]
    OBVIOUS
  <2>1. s = FlattenKey(key, node) /\ InOrder(node.values)
    BY <2>n DEF ToSet
  <2>2. CASE node.values # <<>>
    <3>o. PICK objects : objects = ObjectsOf(node.values)
      OBVIOUS
    <3>1. s = [j \in DOMAIN objects |-> [key |-> key, time |-> node.time, v |-> objects[j]]]
      BY <2>1, <2>2, <3>o DEF FlattenKey, ObjectsOf
    <3>2. InOrder(objects)
      BY <2>1, <3>o, ObjectsAre
    <3>3. QED
      BY <2>n, <3>1, <3>2, MappedSequence
  <2>3. CASE node.values = <<>> /\ key = None
    <3>1. s = <<>>
      BY <2>1, <2>3 DEF FlattenKey
    <3>2. QED
      BY <2>n, <3>1, EmptySeq DEF Sequence
  <2>4. CASE node.values = <<>> /\ key # None
    <3>1. PICK x : s = <<x>>
      BY <2>1, <2>4 DEF FlattenKey
    <3>2. s \in Seq({x})
      BY <3>1
    <3>3. QED
      BY <2>n, <3>2 DEF Sequence
  <2>5. QED
    BY <2>2, <2>3, <2>4
<1>3. QED
  BY <1>1, <1>2, SequenceFacts

\* and one of a hive of a key's value, or of a key that has none.
LEMMA HiveMade ==
    ASSUME NEW c, InOrder(c), \A node \in ToSet(c) : InOrder(node.values), NEW r \in ToSet(Load("hive", c).records)
    PROVE  \E node \in ToSet(c) : \E p : r = Registered(p, NormEzTs(node.time)) /\ Hived(node, p)
<1>p. PICK seqs : seqs = [i \in DOMAIN c |-> FlattenKey(PathOf(c)[i], c[i])]
  OBVIOUS
<1>w. PICK rows : rows = FlattenSeq(seqs)
  OBVIOUS
<1>S. PICK S : S = {i \in DOMAIN rows : rows[i].key # None /\ ClassifyKey(rows[i].key) # None /\ rows[i].time # None}
  OBVIOUS
<1>q. PICK q : q = Selected(rows, S)
  OBVIOUS
<1>o. PICK out : out = RecmdRecords(c)
  OBVIOUS
<1>r. out = [k \in DOMAIN q |-> RecmdRow(q[k])]
  BY <1>p, <1>w, <1>S, <1>q, <1>o DEF RecmdRecords
<1>1. /\ DOMAIN out = DOMAIN q
      /\ \A k \in DOMAIN q :
            /\ out[k].of = IF q[k].v = None THEN 0 ELSE q[k].v.n
            /\ out[k].time = q[k].time
            /\ out[k].program = IF q[k].v # None /\ RegType(q[k].v.type) \in StringType
                                THEN ProgramFromValue(ClassifyKey(q[k].key), q[k].v.name, q[k].v.data) ELSE None
  BY <1>r DEF RecmdRow
<1> DEFINE records == RegistryRecords(out, LAMBDA p : NormEzTs(p.time))
<1>2. records = [k \in DOMAIN out |-> Registered(out[k], NormEzTs(out[k].time))]
  BY DEF RegistryRecords, MapSeq, Registered
<1>3. Load("hive", c) = Loaded(records)
  BY <1>o DEF Load
<1> HIDE DEF records
<1>4. PICK k \in DOMAIN q : r = Registered(out[k], NormEzTs(out[k].time))
  BY <1>1, <1>2, <1>3 DEF Loaded, ToSet
<1>5. DOMAIN seqs = 1..Len(seqs) /\ Sequence(seqs) /\ \A i \in 1..Len(seqs) : i \in DOMAIN c /\ Sequence(seqs[i])
  BY <1>p, HiveRows
<1>6. Sequence(rows) /\ \A j \in DOMAIN rows : \E i \in 1..Len(seqs) : \E m \in 1..Len(seqs[i]) : rows[j] = seqs[i][m]
  BY <1>5, <1>w, FlattenFrom
<1>7. InOrder(rows)
  BY <1>6, SequenceFacts DEF InOrder
<1>8. PICK j \in DOMAIN rows : q[k] = rows[j]
  BY <1>7, <1>q, <1>4, SelectedFrom
<1>9. PICK i \in 1..Len(seqs) : \E m \in 1..Len(seqs[i]) : rows[j] = seqs[i][m]
  BY <1>6
<1>10. PICK m \in 1..Len(seqs[i]) : q[k] = seqs[i][m]
  BY <1>8, <1>9
<1>n. PICK node, key : node = c[i] /\ key = PathOf(c)[i]
  OBVIOUS
<1>11. node \in ToSet(c) /\ InOrder(node.values) /\ seqs[i] = FlattenKey(key, node) /\ m \in DOMAIN seqs[i]
  BY <1>5, <1>10, <1>n, <1>p, SequenceFacts DEF ToSet
<1>12. q[k].time = node.time /\ (q[k].v = None \/ q[k].v \in ToSet(node.values))
  <2>1. CASE node.values # <<>>
    <3>o. PICK objects : objects = ObjectsOf(node.values)
      OBVIOUS
    <3>1. seqs[i] = [x \in DOMAIN objects |-> [key |-> key, time |-> node.time, v |-> objects[x]]]
      BY <1>11, <2>1, <3>o DEF FlattenKey, ObjectsOf
    <3>2. m \in DOMAIN objects /\ q[k] = [key |-> key, time |-> node.time, v |-> objects[m]]
      BY <1>10, <1>11, <3>1
    <3>3. objects[m] \in ToSet(node.values)
      BY <1>11, <3>2, <3>o, ObjectsAre
    <3>4. QED
      BY <3>2, <3>3
  <2>2. CASE node.values = <<>>
    <3>1. seqs[i] = <<>> \/ seqs[i] = <<[key |-> key, time |-> node.time, v |-> None]>>
      BY <1>11, <2>2 DEF FlattenKey
    <3>2. q[k] = [key |-> key, time |-> node.time, v |-> None]
      BY <1>10, <1>11, <3>1
    <3>3. QED
      BY <3>2
  <2>3. QED
    BY <2>1, <2>2
<1>13. out[k].of = 0 \/ \E v \in ToSet(node.values) \ {None} : out[k].of = v.n
  BY <1>1, <1>4, <1>12
<1>14. out[k].program = None \/ \E v \in ToSet(node.values) \ {None} : \E category :
                                   out[k].program = ProgramFromValue(category, v.name, v.data)
  BY <1>1, <1>4, <1>12
<1>15. out[k].time = node.time
  BY <1>1, <1>4, <1>12
<1>x. PICK p : p = out[k]
  OBVIOUS
<1>16. r = Registered(p, NormEzTs(node.time))
  BY <1>4, <1>15, <1>x
<1>17. QED
  BY <1>11, <1>13, <1>14, <1>16, <1>x DEF Hived

\* The values of an export are of the day the file was written.
LEMMA RegistryOnTime ==
    ASSUME NEW f, f.kind = "registry", Export(f.content.lines),
           NEW r \in ToSet(Load("registry", f.content).records)
    PROVE  OnTime(r, f)
<1>c. PICK c : c = f.content
  OBVIOUS
<1>l. PICK lines : lines = c.lines
  OBVIOUS
<1>o. PICK out : out = ParseRegfile(lines)
  OBVIOUS
<1>p. PICK p \in ToSet(out) : r = Registered(p, c.mtime)
  BY <1>c, <1>l, <1>o, RegistryMade
<1>1. PICK k \in DOMAIN out : r = Registered(out[k], c.mtime)
  BY <1>p DEF ToSet
<1>2. DOMAIN out = 1..Len(out) /\ \A j \in 1..Len(out) : \E i \in 1..Len(lines) : RecordOf(lines, i, out[j])
  BY <1>c, <1>l, <1>o, ParseIs
<1>3. PICK i \in 1..Len(lines) : out[k].of = lines[i].n
  BY <1>1, <1>2 DEF RecordOf
<1>4. lines[i] \in ToSet(lines)
  BY <1>3, <1>c, <1>l DEF ToSet, Export
<1>5. <<lines[i].n, c.mtime>> \in Clock(f)
  BY <1>4, <1>c, <1>l DEF Clock
<1>6. Stamped(r, lines[i].n, c.mtime)
  BY <1>1, <1>3, CleanKeeps DEF Registered
<1>7. c.mtime \in Stamp(f.kind) => c.mtime # None
  BY StampIsTime, SameInstant
<1>8. QED
  BY <1>5, <1>6, <1>7, OnTimeBy

\* A value of a hive is as of its key's last write.
LEMMA HiveOnTime ==
    ASSUME NEW f, f.kind = "hive", Ordered(f), NEW r \in ToSet(Load("hive", f.content).records)
    PROVE  OnTime(r, f)
<1>c. PICK c : c = f.content
  OBVIOUS
<1>1. InOrder(c) /\ \A node \in ToSet(c) : InOrder(node.values)
  BY <1>c DEF Ordered
<1>2. PICK node \in ToSet(c) : \E p : r = Registered(p, NormEzTs(node.time)) /\ Hived(node, p)
  BY <1>1, <1>c, HiveMade
<1>p. PICK p : /\ r = Registered(p, NormEzTs(node.time))
               /\ p.of = 0 \/ \E v \in ToSet(node.values) \ {None} : p.of = v.n
  BY <1>2 DEF Hived
<1>n. PICK n : n = p.of
  OBVIOUS
<1>3. <<n, node.time>> \in Clock(f)
  <2>1. <<n, node.time>> \in {<<v.n, node.time>> : v \in ToSet(node.values) \ {None}} \cup {<<0, node.time>>}
    BY <1>p, <1>n
  <2>2. QED
    BY <1>2, <1>c, <2>1 DEF Clock
<1>4. Stamped(r, n, NormEzTs(node.time))
  BY <1>p, <1>n, CleanKeeps DEF Registered
<1>5. node.time \in Stamp(f.kind) => NormEzTs(node.time) # None /\ Instant(NormEzTs(node.time)) = Instant(node.time)
  BY StampIsTime, SameInstant
<1>6. QED
  BY <1>3, <1>4, <1>5, OnTimeBy

\* A record of the rules is of a file and one of the rules that match it.
LEMMA YaraMade ==
    ASSUME NEW c, InOrder(c.target), \A t \in ToSet(c.target) : InOrder(t.matches), NEW r \in ToSet(Load("yara", c).records)
    PROVE  \E t \in ToSet(c.target) : \E j \in DOMAIN t.matches :
              r = Clean([of |-> t.n, source |-> "yara", ts |-> t.mtime, file |-> t.path, techniques |-> t.matches[j]])
<1>S. PICK S : S = {i \in DOMAIN c.target : ~c.target[i].unreadable}
  OBVIOUS
<1>d. PICK read : read = Selected(c.target, S)
  OBVIOUS
<1> DEFINE match(t) == [i \in DOMAIN t.matches |->
                           Clean([of |-> t.n, source |-> "yara", ts |-> t.mtime, file |-> t.path,
                                  techniques |-> t.matches[i]])]
<1>m. PICK seqs : seqs = [i \in DOMAIN read |-> match(read[i])]
  OBVIOUS
<1>q. PICK q : q = FlattenSeq(seqs)
  OBVIOUS
<1>2. \/ Load("yara", c) = Raised
      \/ Load("yara", c) = Loaded(<<>>)
      \/ Load("yara", c) = Loaded(q)
  BY <1>S, <1>d, <1>m, <1>q DEF Load, Yara, MapSeq
<1>3. PICK k \in DOMAIN q : r = q[k]
  <2>1. DOMAIN <<>> = {}
    OBVIOUS
  <2>2. r \in ToSet(<<>>) \/ r \in ToSet(q)
    BY <1>2 DEF Raised, Loaded
  <2>3. QED
    BY <2>1, <2>2 DEF ToSet
<1>4. Sequence(read) /\ \A i \in DOMAIN read : read[i] \in ToSet(c.target)
  BY <1>d, SelectedFrom DEF ToSet
<1>5. InOrder(read)
  BY <1>4, SequenceFacts DEF InOrder
<1>6. Sequence(seqs) /\ DOMAIN seqs = DOMAIN read /\ DOMAIN seqs = 1..Len(seqs)
  <2>1. seqs = [i \in DOMAIN read |-> seqs[i]]
    BY <1>m
  <2>2. QED
    BY <1>5, <2>1, MappedSequence, SequenceFacts
<1>7. ASSUME NEW i \in 1..Len(seqs) PROVE Sequence(seqs[i]) /\ DOMAIN seqs[i] = DOMAIN read[i].matches
  <2>s. PICK s, t : s = seqs[i] /\ t = read[i]
    OBVIOUS
  <2>1. s = match(t) /\ t \in ToSet(c.target)
    BY <1>4, <1>6, <1>m, <2>s
  <2>2. s = [x \in DOMAIN t.matches |-> s[x]] /\ InOrder(t.matches)
    BY <2>1
  <2> HIDE DEF match
  <2>3. QED
    BY <2>2, <2>s, MappedSequence
<1>8. PICK i \in 1..Len(seqs) : \E j \in 1..Len(seqs[i]) : q[k] = seqs[i][j]
  <2>1. \A i \in 1..Len(seqs) : Sequence(seqs[i])
    BY <1>7
  <2>2. \A m \in DOMAIN q : \E i \in 1..Len(seqs) : \E j \in 1..Len(seqs[i]) : q[m] = seqs[i][j]
    BY <1>6, <1>q, <2>1, FlattenFrom
  <2>3. QED
    BY <1>3, <2>2
<1>9. PICK j \in 1..Len(seqs[i]) : q[k] = seqs[i][j]
  BY <1>8
<1>t. PICK t : t = read[i]
  OBVIOUS
<1>10. t \in ToSet(c.target) /\ j \in DOMAIN t.matches
  BY <1>4, <1>6, <1>7, <1>9, <1>t, SequenceFacts
<1>11. r = Clean([of |-> t.n, source |-> "yara", ts |-> t.mtime, file |-> t.path, techniques |-> t.matches[j]])
  BY <1>3, <1>6, <1>9, <1>10, <1>m, <1>t
<1>12. QED
  BY <1>10, <1>11

\* What the rules say of a file is of the day the file was written.
LEMMA YaraOnTime ==
    ASSUME NEW f, f.kind = "yara", Ordered(f), NEW r \in ToSet(Load("yara", f.content).records)
    PROVE  OnTime(r, f)
<1>1. PICK t \in ToSet(f.content.target) : \E j \in DOMAIN t.matches :
         r = Clean([of |-> t.n, source |-> "yara", ts |-> t.mtime, file |-> t.path, techniques |-> t.matches[j]])
  BY YaraMade DEF Ordered
<1>2. Stamped(r, t.n, t.mtime)
  BY <1>1, CleanKeeps
<1>3. <<t.n, t.mtime>> \in Clock(f)
  BY DEF Clock
<1>4. t.mtime \in Stamp(f.kind) => t.mtime # None
  BY StampIsTime, SameInstant
<1>5. QED
  BY <1>2, <1>3, <1>4, OnTimeBy

\* _clean keeps the entry of a record that has no time.
LEMMA CleanKeepsEntry ==
    ASSUME NEW full, "of" \in DOMAIN full, "ts" \notin DOMAIN full PROVE Stamped(Clean(full), full.of, None)
BY DEF Stamped, Clean

\* A record of the report is of its line, and at its day of that year.
LEMMA ThorStamped ==
    ASSUME NEW l, NEW year, NEW w
    PROVE  Stamped(ThorRecord(l, year, w), l.n, Utc(year * YearLength + l.ts.local))
BY CleanKeeps DEF ThorRecord

\* A line has a record for what it is of, and one for what that refers to.
LEMMA ThorRecordsAre ==
    ASSUME NEW l, NEW year, NEW s, s = ThorRecords(l, year)
    PROVE  /\ Sequence(s)
           /\ \A k \in DOMAIN s : l.kind = "doc" /\ s[k] \in {ThorRecord(l, year, l.primary), ThorRecord(l, year, l.linked)}
           /\ l.kind = "doc" /\ l.score # None => \E k \in DOMAIN s : s[k] = ThorRecord(l, year, l.primary)
<1>a. PICK a, b : a = ThorRecord(l, year, l.primary) /\ b = ThorRecord(l, year, l.linked)
  OBVIOUS
<1>1. \/ s = <<>> /\ ~(l.kind = "doc" /\ l.score # None)
      \/ l.kind = "doc" /\ (s = <<a>> \o <<>> \/ s = <<a>> \o <<b>>)
  BY <1>a DEF ThorRecords
<1>2. CASE s = <<>> /\ ~(l.kind = "doc" /\ l.score # None)
  <2>1. DOMAIN s = {} /\ s \in Seq({})
    BY <1>2
  <2>2. QED
    BY <1>2, <2>1 DEF Sequence
<1>3. CASE l.kind = "doc" /\ (s = <<a>> \o <<>> \/ s = <<a>> \o <<b>>)
  <2>1. s \in Seq({a, b})
    <3>1. <<a>> \in Seq({a, b}) /\ <<b>> \in Seq({a, b}) /\ <<>> \in Seq({a, b})
      OBVIOUS
    <3>2. QED
      BY <1>3, <3>1, ConcatProperties
  <2>2. (\A k \in DOMAIN s : s[k] \in {a, b}) /\ (\E k \in DOMAIN s : s[k] = a)
    <3>1. CASE s = <<a>> \o <<>>
      <4>1. DOMAIN s = 1..1 /\ s[1] = a
        BY <3>1
      <4>2. QED
        BY <4>1
    <3>2. CASE s = <<a>> \o <<b>>
      <4>1. DOMAIN s = 1..2 /\ s[1] = a /\ s[2] = b
        BY <3>2
      <4>2. QED
        BY <4>1
    <3>3. QED
      BY <1>3, <3>1, <3>2
  <2>3. Sequence(s)
    BY <2>1 DEF Sequence
  <2>4. QED
    BY <1>3, <1>a, <2>2, <2>3
<1>4. QED
  BY <1>1, <1>2, <1>3

\* A row of a list of THOR's.
ThorRow(e) == Clean([of |-> e.n, source |-> "thor", file |-> Basename(e.path), md5 |-> e.md5])

\* A record of THOR's is of a line of the report, or of what that refers to, or
\* of a row of its list.
LEMMA ThorMade ==
    ASSUME NEW c, c.report # None => InOrder(c.report.lines), c.md5s # None => InOrder(c.md5s),
           NEW r \in ToSet(Load("thor", c).records)
    PROVE  \/ /\ c.report # None
              /\ \E l \in ToSet(c.report.lines) : \E w \in {l.primary, l.linked} :
                    l.kind = "doc" /\ r = ThorRecord(l, YearOf(c.report), w)
           \/ c.report = None /\ c.md5s # None /\ \E e \in ToSet(c.md5s) : e.kind = "doc" /\ r = ThorRow(e)
<1>0. Load("thor", c) = Thor(c)
  BY DEF Load
<1>1. CASE c.report # None
  <2>l. PICK lines, year : lines = c.report.lines /\ year = YearOf(c.report)
    OBVIOUS
  <2>m. PICK seqs : seqs = [i \in DOMAIN lines |-> ThorRecords(lines[i], year)]
    OBVIOUS
  <2>q. PICK q : q = FlattenSeq(seqs)
    OBVIOUS
  <2>1. Load("thor", c).records = q
    BY <1>0, <1>1, <2>l, <2>m, <2>q DEF Thor, Loaded, MapSeq
  <2>2. PICK k \in DOMAIN q : r = q[k]
    BY <2>1 DEF ToSet
  <2>3. InOrder(lines)
    BY <1>1, <2>l
  <2>4. Sequence(seqs) /\ DOMAIN seqs = DOMAIN lines /\ DOMAIN seqs = 1..Len(seqs)
    <3>1. seqs = [i \in DOMAIN lines |-> seqs[i]]
      BY <2>m
    <3>2. QED
      BY <2>3, <3>1, MappedSequence, SequenceFacts
  <2>5. ASSUME NEW i \in 1..Len(seqs)
        PROVE  /\ Sequence(seqs[i])
               /\ \A j \in DOMAIN seqs[i] :
                     /\ lines[i].kind = "doc"
                     /\ seqs[i][j] \in {ThorRecord(lines[i], year, lines[i].primary), ThorRecord(lines[i], year, lines[i].linked)}
    <3>1. seqs[i] = ThorRecords(lines[i], year)
      BY <2>4, <2>m
    <3>2. QED
      BY <3>1, ThorRecordsAre
  <2>6. PICK i \in 1..Len(seqs) : \E j \in 1..Len(seqs[i]) : q[k] = seqs[i][j]
    <3>1. \A i \in 1..Len(seqs) : Sequence(seqs[i])
      BY <2>5
    <3>2. \A m \in DOMAIN q : \E i \in 1..Len(seqs) : \E j \in 1..Len(seqs[i]) : q[m] = seqs[i][j]
      BY <2>4, <2>q, <3>1, FlattenFrom
    <3>3. QED
      BY <2>2, <3>2
  <2>7. PICK j \in DOMAIN seqs[i] : q[k] = seqs[i][j]
    BY <2>5, <2>6, SequenceFacts
  <2>e. PICK l : l = lines[i]
    OBVIOUS
  <2>8. l \in ToSet(lines) /\ l.kind = "doc" /\ r \in {ThorRecord(l, year, l.primary), ThorRecord(l, year, l.linked)}
    BY <2>2, <2>4, <2>5, <2>7, <2>e DEF ToSet
  <2>9. QED
    BY <1>1, <2>8, <2>l
<1>2. CASE c.report = None /\ c.md5s # None
  <2>S. PICK S : S = {i \in DOMAIN c.md5s : c.md5s[i].kind = "doc" /\ c.md5s[i].md5 # None}
    OBVIOUS
  <2>q. PICK q : q = Selected(c.md5s, S)
    OBVIOUS
  <2>1. Load("thor", c).records = [i \in DOMAIN q |-> ThorRow(q[i])]
    <3>1. Load("thor", c) = Loaded(ThorCsv(c.md5s))
      BY <1>0, <1>2 DEF Thor
    <3>2. ThorCsv(c.md5s) = [i \in DOMAIN q |-> ThorRow(q[i])]
      BY <2>S, <2>q DEF ThorCsv, MapSeq, ThorRow
    <3>3. Load("thor", c).records = ThorCsv(c.md5s)
      BY <3>1 DEF Loaded
    <3>4. QED
      BY <3>2, <3>3
  <2>2. PICK k \in DOMAIN q : r = ThorRow(q[k])
    BY <2>1 DEF ToSet
  <2>3. InOrder(c.md5s)
    BY <1>2
  <2>4. PICK i \in S : i \in DOMAIN c.md5s /\ q[k] = c.md5s[i]
    BY <2>2, <2>3, <2>q, SelectedFrom
  <2>e. PICK e : e = q[k]
    OBVIOUS
  <2>5. e \in ToSet(c.md5s) /\ e.kind = "doc"
    BY <2>4, <2>S, <2>e DEF ToSet
  <2>6. QED
    BY <1>2, <2>2, <2>5, <2>e
<1>3. CASE c.report = None /\ c.md5s = None
  <2>1. DOMAIN <<>> = {} /\ r \in ToSet(<<>>)
    BY <1>0, <1>3 DEF Thor, Raised
  <2>2. QED
    BY <2>1 DEF ToSet
<1>4. QED
  BY <1>1, <1>2, <1>3

\* Years apart, a day is the same.
LEMMA YearsApart ==
    ASSUME NEW k \in Int, NEW day \in Int, NEW y \in Nat \ {0}
    PROVE  (k * y + day) % y = day % y
<1> DEFINE a == k * y + day
           r == a % y
           s == day % y
           p == a \div y
           q == day \div y
           d == p - k - q
<1>1. a \in Int /\ p \in Int /\ q \in Int /\ r \in 0..(y - 1) /\ s \in 0..(y - 1)
  OBVIOUS
<1>2. a = y * p + r /\ day = y * q + s
  OBVIOUS
<1>3. s - r = y * d
  BY <1>1, <1>2
<1>4. d \in Int /\ s - r < y /\ r - s < y
  BY <1>1
<1> HIDE DEF d
<1>5. CASE d >= 1
  <2>1. y * d >= y
    BY <1>4, <1>5
  <2>2. QED
    BY <1>1, <1>3, <1>4, <2>1
<1>6. CASE d <= 0 - 1
  <2>1. y * d <= 0 - y
    BY <1>4, <1>6
  <2>2. QED
    BY <1>1, <1>3, <1>4, <2>1
<1>7. CASE d = 0
  BY <1>1, <1>3, <1>7
<1>8. QED
  BY <1>4, <1>5, <1>6, <1>7

\* THOR's lines get the year of the report; the rows of its list have no time.
LEMMA ThorOnTime ==
    ASSUME NEW f, f.kind = "thor", Ordered(f), Yearless(f) => f.content.report.mtime \in Int,
           NEW r \in ToSet(Load("thor", f.content).records)
    PROVE  OnTime(r, f)
<1>c. PICK c : c = f.content
  OBVIOUS
<1>0. \/ /\ c.report # None
         /\ \E l \in ToSet(c.report.lines) : \E w \in {l.primary, l.linked} :
               l.kind = "doc" /\ r = ThorRecord(l, YearOf(c.report), w)
      \/ c.report = None /\ c.md5s # None /\ \E e \in ToSet(c.md5s) : e.kind = "doc" /\ r = ThorRow(e)
  BY <1>c, ThorMade DEF Ordered
<1>1. CASE c.report # None
  <2>1. PICK l \in ToSet(c.report.lines) : \E w \in {l.primary, l.linked} :
           l.kind = "doc" /\ r = ThorRecord(l, YearOf(c.report), w)
    BY <1>0, <1>1
  <2>t. PICK t : t = Utc(IF Yearless(f) THEN l.ts.local ELSE c.report.year * YearLength + l.ts.local)
    OBVIOUS
  <2>u. PICK u : u = Utc(YearOf(c.report) * YearLength + l.ts.local)
    OBVIOUS
  <2>2. Stamped(r, l.n, u)
    BY <2>1, <2>u, ThorStamped
  <2>3. <<l.n, t>> \in Clock(f)
    BY <1>1, <1>c, <2>1, <2>t DEF Clock
  <2>4. CASE ~Yearless(f)
    <3>1. u = t
      BY <1>1, <1>c, <2>4, <2>t, <2>u DEF Yearless, YearOf
    <3>2. t \in Stamp(f.kind) => t # None
      BY StampIsTime, SameInstant
    <3>3. QED
      BY <2>2, <2>3, <3>1, <3>2, OnTimeBy
  <2>5. CASE Yearless(f)
    <3>1. ASSUME t \in Stamp(f.kind) PROVE u # None /\ AtInstant(f, u, Instant(t))
      <4>1. t = Utc(l.ts.local) /\ t.local = l.ts.local
        BY <2>5, <2>t DEF Utc
      <4>2. l.ts.local \in Int
        BY <3>1, <4>1, StampIsTime DEF Time
      <4>y. PICK k \in Int : k = YearOf(c.report)
        <5>1. c.report.mtime \in Int /\ c.report.year = None /\ YearLength \in Nat \ {0}
          BY <1>c, <2>5, ClockAssumption DEF Yearless
        <5>2. YearOf(c.report) = c.report.mtime \div YearLength
          BY <5>1 DEF YearOf
        <5>3. ASSUME NEW m \in Int, NEW y \in Nat \ {0} PROVE m \div y \in Int
          OBVIOUS
        <5>4. QED
          BY <5>1, <5>2, <5>3
      <4>3. YearLength \in Nat \ {0}
        BY ClockAssumption
      <4>4. u = Utc(k * YearLength + l.ts.local) /\ k * YearLength + l.ts.local \in Int
        BY <2>u, <4>2, <4>3, <4>y
      <4>5. u # None /\ Instant(u) = k * YearLength + l.ts.local /\ Instant(t) = l.ts.local
        BY <4>1, <4>2, <4>4, UtcInstant
      <4>d. PICK day \in Int, y \in Nat \ {0} : day = l.ts.local /\ y = YearLength
        BY <4>2, <4>3
      <4>r. (k * y + day) % y = day % y
        BY YearsApart
      <4>6. SameDay(Instant(u), Instant(t))
        BY <4>5, <4>d, <4>r DEF SameDay
      <4>7. QED
        BY <2>5, <4>5, <4>6 DEF AtInstant
    <3>2. QED
      BY <2>2, <2>3, <3>1, OnTimeOr
  <2>6. QED
    BY <2>4, <2>5
<1>2. CASE c.report = None
  <2>1. PICK e \in ToSet(c.md5s) : e.kind = "doc" /\ r = ThorRow(e)
    BY <1>0, <1>2
  <2>2. Stamped(r, e.n, None)
    BY <2>1, CleanKeepsEntry DEF ThorRow
  <2>3. <<e.n, None>> \in Clock(f)
    BY <1>0, <1>2, <1>c, <2>1 DEF Clock
  <2>4. None \notin Stamp(f.kind)
    BY StampIsTime, ClockAssumption
  <2>5. QED
    BY <2>2, <2>3, <2>4, OnTimeBy
<1>3. QED
  BY <1>1, <1>2

-----------------------------------------------------------------------------
(* OneClock                                                                 *)

\* Whatever its adapter, a record of a file is of an entry of its clock, and at its time.
LEMMA LoadOnTime ==
    ASSUME NEW f, f.kind \in Kind, Ordered(f), f.kind = "registry" => Export(f.content.lines),
           Yearless(f) => f.content.report.mtime \in Int, NEW r \in ToSet(Read(f).records)
    PROVE  OnTime(r, f)
<1>1. f.fate = "good" /\ r \in ToSet(Load(f.kind, f.content).records)
  <2>1. CASE f.fate # "good"
    <3>1. DOMAIN <<>> = {} /\ r \in ToSet(<<>>)
      BY <2>1 DEF Read, Raised
    <3>2. QED
      BY <3>1 DEF ToSet
  <2>2. QED
    BY <2>1 DEF Read
<1>2. f.kind \in {"evtx", "pcap"} \cup Adapted
  BY DEF Kind
<1>3. QED
  BY <1>1, <1>2, EvtxOnTime, EvtxFullOnTime, PacketOnTime, LogOnTime, RegistryOnTime, HiveOnTime, MftOnTime,
     ThorOnTime, YaraOnTime, OsqueryOnTime, CrowdStrikeOnTime DEF Adapted

\* One clock: however its tool writes a time, the ts_parsed of a record is the
\* instant its entry states, but for a year the file does not say, and only an
\* entry of foreign wording has none; in every build of every request.
THEOREM BuildKeepsOneClock == Spec => []OneClock
<1>1. BuildInv /\ Honest => OneClock
  <2> SUFFICES ASSUME BuildInv, Honest, NEW row \in Rows, NEW w \in Files[row[1]].when, w[1] = row[2].of
               PROVE  IF "ts" \in DOMAIN row[2] THEN AtInstant(Files[row[1]], row[2].ts, w[2])
                      ELSE Foreign(Files[row[1]], w[1])
    BY DEF OneClock
  <2>1. PICK d \in DOMAIN made : made[d] > 0 /\ row \in {<<d[1], r>> : r \in ToSet(RecordsOf(d[1], d[2]))}
    BY DEF Rows
  <2>2. PICK r \in ToSet(RecordsOf(d[1], d[2])) : row = <<d[1], r>>
    BY <2>1
  <2>i. PICK i, t : i = d[1] /\ t = d[2]
    OBVIOUS
  <2>3. i \in DOMAIN Files /\ t \in Tool /\ d = <<i, t>>
    BY <2>1, <2>i DEF BuildInv, TypeInv
  <2>4. Came(i, t)
    BY <2>1, <2>3 DEF Came
  <2>f. PICK f : f = Files[i]
    OBVIOUS
  <2>5. Reads(t, f)
    BY <2>3, <2>4, <2>f DEF Honest
  <2>6. f.kind \in Kind
    BY <2>3, <2>5 DEF Reads, Tool, Kind, Adapted
  <2>7. job \in DOMAIN Request /\ i \in DOMAIN Request[job].files /\ f = Request[job].files[i]
    BY <2>3, <2>f DEF BuildInv, TypeInv, Files
  <2>8. Dated(f)
    BY <2>7, ClockAssumption
  <2>9. Ordered(f) /\ (Yearless(f) => f.content.report.mtime \in Int)
    BY <2>8 DEF Dated
  <2>10. f.kind = "registry" => Export(f.content.lines)
    BY <2>7, ExportAssumption DEF Export
  <2>11. OnTime(r, f)
    <3>1. CASE t = "zeek"
      <4>1. f.kind = "pcap" /\ f.content.zeek # None
        BY <2>5, <3>1 DEF Reads
      <4>2. Logs(f.content.zeek)
        BY <2>7, <4>1, ZeekAssumption
      <4>3. r \in ToSet(Zeek(f.content.zeek))
        BY <2>2, <2>i, <2>f, <3>1 DEF RecordsOf
      <4>4. QED
        BY <4>1, <4>2, <4>3, ConnectionOnTime
    <3>2. CASE t # "zeek"
      <4>1. r \in ToSet(Read(f).records)
        BY <2>2, <2>i, <2>f, <3>2 DEF RecordsOf
      <4>2. QED
        BY <2>6, <2>9, <2>10, <4>1, LoadOnTime
    <3>3. QED
      BY <3>1, <3>2
  <2>12. PICK c \in Clock(f) :
            /\ c[1] # None => r.of = c[1]
            /\ c[2] \in Stamp(f.kind) =>
                  IF "ts" \in DOMAIN r THEN AtInstant(f, r.ts, Instant(c[2])) ELSE Foreign(f, c[1])
    BY <2>11 DEF OnTime
  <2>13. c[1] # None /\ w \in f.when /\ w[1] = r.of
    BY <2>2, <2>8, <2>i, <2>f DEF Dated
  <2>14. c[1] = w[1] /\ c[2] \in Stamp(f.kind) /\ AtInstant(f, c[2], w[2])
    BY <2>8, <2>12, <2>13 DEF Dated
  <2>15. IF "ts" \in DOMAIN r THEN AtInstant(f, r.ts, w[2]) ELSE Foreign(f, w[1])
    BY <2>12, <2>14 DEF AtInstant, SameDay
  <2>16. QED
    BY <2>2, <2>15, <2>i, <2>f
<1>2. QED
  BY <1>1, Invariant, HonestInvariant, PTL

-----------------------------------------------------------------------------
(* What stands around a name                                                *)

\* _clean leaves nothing but what is bare.
LEMMA CleanBare ==
    ASSUME NEW full, "file" \in DOMAIN full => Plain(full.file), "hash" \in DOMAIN full => FileHash(full.hash)
    PROVE  Bare(Clean(full))
BY DEF Bare, Clean, Get, Plain, FileHash

\* None is no name.
LEMMA NoneBare == Plain(None) /\ FileHash(None)
BY DEF Plain, FileHash

\* _first gives what one of the keys says, or nothing.
LEMMA FirstIsOne ==
    ASSUME NEW d, NEW keys, Len(keys) \in Nat, DOMAIN keys = 1..Len(keys)
    PROVE  /\ First(d, keys) = None \/ \E i \in DOMAIN keys : First(d, keys) = Get(d, keys[i])
           /\ (\E i \in DOMAIN keys : Get(d, keys[i]) # None) => First(d, keys) # None
<1>h. PICK held : held = {i \in DOMAIN keys : Get(d, keys[i]) # None}
  OBVIOUS
<1>1. First(d, keys) = IF held = {} THEN None ELSE d[keys[Min(held)]]
  BY <1>h DEF First
<1>2. CASE held # {}
  <2>1. held \subseteq Nat
    BY <1>h
  <2>2. PICK m \in held : \A i \in held : m =< i
    BY <1>2, <2>1, LeastNat
  <2>3. Min(held) \in held
    BY <2>2, Zenon DEF Min
  <2>4. PICK i \in DOMAIN keys : i = Min(held) /\ Get(d, keys[i]) # None
    BY <1>h, <2>3
  <2>5. Get(d, keys[i]) = d[keys[i]]
    BY <2>4 DEF Get
  <2>6. QED
    BY <1>1, <1>2, <2>4, <2>5
<1>3. CASE held = {}
  BY <1>1, <1>3, <1>h
<1>4. QED
  BY <1>2, <1>3

\* _first of what is bare is bare.
LEMMA FirstPlain ==
    ASSUME NEW d, NEW a, NEW b, Plain(Get(d, a)), Plain(Get(d, b)) PROVE Plain(First(d, <<a, b>>))
<1>k. PICK keys : keys = <<a, b>>
  OBVIOUS
<1>1. Len(keys) = 2 /\ DOMAIN keys = 1..2 /\ keys[1] = a /\ keys[2] = b
  BY <1>k
<1>2. First(d, keys) = None \/ \E i \in DOMAIN keys : First(d, keys) = Get(d, keys[i])
  BY <1>1, FirstIsOne
<1>3. QED
  BY <1>1, <1>2, <1>k, NoneBare

\* _first_program strips what stands around a program.
LEMMA FirstProgramBare ==
    ASSUME NEW command, "around" \in DOMAIN command, "extensionless" \notin command.around PROVE Plain(FirstProgram(command))
<1>1. CASE command.around \cap Unreadable # {}
  BY <1>1, NoneBare DEF FirstProgram
<1>2. CASE command.around \cap Unreadable = {}
  <2>1. PICK w : w = FirstProgram(command)
    OBVIOUS
  <2>2. w = [command EXCEPT !.around = command.around \ {"quoted", "args", "nt"}]
    BY <1>2, <2>1 DEF FirstProgram
  <2>3. w.around \subseteq command.around \ {"quoted", "args", "nt"}
    BY <2>2
  <2>4. w.around \cap Wrapper = {}
    BY <1>2, <2>3 DEF Wrapper
  <2>5. QED
    BY <2>1, <2>4 DEF Plain
<1>3. QED
  BY <1>1, <1>2

\* What is put in the data of a value.
Commands(data) ==
    InOrder(data) /\ \A w \in ToSet(data) : "around" \in DOMAIN w /\ "extensionless" \notin w.around

\* program_from_value gives a bare name, or none.
LEMMA ProgramBare ==
    ASSUME NEW category, NEW name, NEW data, Commands(data) PROVE Plain(ProgramFromValue(category, name, data))
<1>p. PICK parts : parts = [i \in DOMAIN data |-> FirstProgram(data[i])]
  OBVIOUS
<1>S. PICK S : S = {i \in DOMAIN data : parts[i] # None}
  OBVIOUS
<1>q. PICK q : q = Selected(parts, S)
  OBVIOUS
<1>1. \A i \in DOMAIN data : Plain(FirstProgram(data[i]))
  BY FirstProgramBare DEF Commands, ToSet
<1>2. InOrder(parts) /\ DOMAIN parts = DOMAIN data
  <2>1. parts = [i \in DOMAIN data |-> parts[i]] /\ InOrder(data)
    BY <1>p DEF Commands
  <2>2. QED
    BY <2>1, MappedSequence
<1>3. Sequence(q) /\ \A k \in DOMAIN q : \E i \in DOMAIN data : q[k] = parts[i]
  BY <1>2, <1>q, SelectedFrom
<1>4. q # <<>> => Plain(Last(q))
  <2> SUFFICES ASSUME q # <<>> PROVE Plain(Last(q))
    OBVIOUS
  <2>1. Len(q) \in DOMAIN q /\ Last(q) = q[Len(q)]
    BY <1>3, SequenceFacts DEF Last
  <2>2. PICK i \in DOMAIN data : Last(q) = parts[i]
    BY <1>3, <2>1
  <2>3. QED
    BY <1>1, <1>p, <2>2
<1>5. data # <<>> => Plain(FirstProgram(data[1]))
  <2>1. InOrder(data)
    BY DEF Commands
  <2>3. data # <<>> => 1 \in DOMAIN data
    BY <2>1 DEF InOrder
  <2>4. QED
    BY <1>1, <2>3
<1>6. ProgramFromValue(category, name, data) \in {None, FirstProgram(data[1]), Last(q)}
      /\ (ProgramFromValue(category, name, data) = None \/ data # <<>>)
      /\ (ProgramFromValue(category, name, data) \in {None, FirstProgram(data[1])} \/ q # <<>>)
  BY <1>p, <1>S, <1>q DEF ProgramFromValue
<1>7. QED
  BY <1>4, <1>5, <1>6, NoneBare

-----------------------------------------------------------------------------

\* A Hayabusa record names no file and no hash, nor does a packet's.
LEMMA HayabusaBare == ASSUME NEW e PROVE Bare(HayabusaRecord(e))
BY CleanBare DEF HayabusaRecord

LEMMA TsharkBare == ASSUME NEW e PROVE Bare(TsharkRecord(e))
BY CleanBare DEF TsharkRecord

\* A file's hash is one of its own algorithms', never the import table's.
LEMMA HashesBare ==
    ASSUME NEW h, Says(h, {}, {"SHA256", "SHA1", "bare"}) PROVE FileHash(Hashes(h).hash)
<1>k. PICK keys : keys = <<"SHA256", "SHA1", "bare">>
  OBVIOUS
<1>1. Len(keys) = 3 /\ DOMAIN keys = 1..3 /\ \A i \in DOMAIN keys : FileHash(Get(h, keys[i]))
  BY <1>k DEF Says
<1>2. First(h, keys) = None \/ \E i \in DOMAIN keys : First(h, keys) = Get(h, keys[i])
  BY <1>1, FirstIsOne
<1>3. Hashes(h).hash = First(h, keys)
  BY <1>k DEF Hashes
<1>4. QED
  BY <1>1, <1>2, <1>3, NoneBare

\* EvtxECmd's file is bare, and of its hashes none is of the import table.
LEMMA EvtxEcmdBare ==
    ASSUME NEW e, Says(e.data, {"TargetFilename", "TargetName"}, {}),
           \A k \in {"Hashes", "Hash"} : Get(e.data, k) # None => Says(Get(e.data, k), {}, {"SHA256", "SHA1", "bare"})
    PROVE  Bare(EvtxEcmdRecord(e))
<1>d. PICK d : d = e.data
  OBVIOUS
<1>h. PICK h : h = First(d, <<"Hashes", "Hash">>)
  OBVIOUS
<1>1. Plain(First(d, <<"TargetFilename", "TargetName">>))
  BY <1>d, FirstPlain DEF Says
<1>2. FileHash(IF h = None THEN None ELSE Hashes(h).hash)
  <2>1. CASE h = None
    BY <2>1, NoneBare
  <2>2. CASE h # None
    <3>k. PICK keys : keys = <<"Hashes", "Hash">>
      OBVIOUS
    <3>0. Len(keys) = 2 /\ DOMAIN keys = 1..2 /\ keys[1] = "Hashes" /\ keys[2] = "Hash"
      BY <3>k
    <3>1. PICK i \in DOMAIN keys : h = Get(d, keys[i])
      BY <1>h, <2>2, <3>k, <3>0, FirstIsOne
    <3>2. Says(h, {}, {"SHA256", "SHA1", "bare"})
      BY <1>d, <2>2, <3>0, <3>1
    <3>3. QED
      BY <2>2, <3>2, HashesBare
  <2>3. QED
    BY <2>1, <2>2
<1>3. QED
  BY <1>1, <1>2, <1>d, <1>h, CleanBare DEF EvtxEcmdRecord

\* The value is what one of the keys says in the line.
Among(fields, keys, v) == \E p \in ToSet(fields) : p[1] \in keys /\ v = p[2]

\* What the last key of a meaning says is what a key of that meaning says.
LEMMA LastSaid ==
    ASSUME NEW fields, InOrder(fields), NEW keys, NEW S, \A i \in S : i \in DOMAIN fields => fields[i][1] \in keys,
           NEW q, q = Selected(fields, S), q # <<>>
    PROVE  Among(fields, keys, Last(q)[2])
<1>1. Sequence(q) /\ \A k \in DOMAIN q : \E i \in S : i \in DOMAIN fields /\ q[k] = fields[i]
  BY SelectedFrom
<1>2. Len(q) \in DOMAIN q /\ Last(q) = q[Len(q)]
  BY <1>1, SequenceFacts DEF Last
<1>3. PICK i \in S : i \in DOMAIN fields /\ Last(q) = fields[i]
  BY <1>1, <1>2
<1>4. fields[i] \in ToSet(fields)
  BY <1>3 DEF ToSet
<1>5. fields[i][1] \in keys /\ Last(q)[2] = fields[i][2]
  BY <1>3
<1>6. QED
  BY <1>4, <1>5 DEF Among

\* A JSON line is bare when what its keys say is.
LEMMA MappingBare ==
    ASSUME NEW l, InOrder(l.fields),
           \A p \in ToSet(l.fields) : (p[1] \in GroupMap.file => Plain(p[2])) /\ (p[1] \in GroupMap.hash => FileHash(p[2]))
    PROVE  Bare(RecordMapping(l))
<1> DEFINE places(f) == {i \in DOMAIN l.fields : l.fields[i][1] \in GroupMap[f] /\ l.fields[i][2] # None}
           said(f)  == Selected(l.fields, places(f))
           value(f) == IF f = "ts" THEN ToUtc(Last(said(f))[2]) ELSE Last(said(f))[2]
           meant    == {f \in DOMAIN GroupMap : said(f) # <<>>}
           code     == IF "http_status" \in meant THEN value("http_status") ELSE None
           full     == [f \in meant \cup {"of", "source", "outcome"} |->
                          CASE f = "of" -> l.n [] f = "source" -> "log" [] f = "outcome" -> OutcomeFromStatus(code)
                            [] OTHER -> value(f)]
<1>1. RecordMapping(l) = Clean(full)
  BY DEF RecordMapping
<1>2. ASSUME NEW g \in {"file", "hash"}, g \in meant
      PROVE  Among(l.fields, GroupMap[g], full[g])
  <2>1. full[g] = Last(said(g))[2]
    <3> HIDE DEF said, code
    <3>1. full[g] = value(g)
      BY <1>2
    <3>2. QED
      BY <3>1
  <2>f. PICK fields, keys, S, q : /\ fields = l.fields /\ keys = GroupMap[g]
                                 /\ S = {i \in DOMAIN fields : fields[i][1] \in keys /\ fields[i][2] # None}
                                 /\ q = Selected(fields, S)
    OBVIOUS
  <2>2. q = said(g)
    BY <2>f
  <2>3. q # <<>> /\ InOrder(fields)
    BY <1>2, <2>2, <2>f
  <2>q. q = Selected(fields, S)
    BY <2>f
  <2>s. \A i \in S : i \in DOMAIN fields => fields[i][1] \in keys
    BY <2>f
  <2>4. Among(fields, keys, Last(q)[2])
    BY <2>3, <2>s, <2>q, LastSaid
  <2>5. QED
    BY <2>1, <2>2, <2>4, <2>f
<1>3. \A g \in {"file", "hash"} : g \in DOMAIN full => g \in meant
  <2> HIDE DEF meant, value, code
  <2>1. DOMAIN full = meant \cup {"of", "source", "outcome"}
    OBVIOUS
  <2>2. QED
    BY <2>1
<1>4. GroupMap["file"] = GroupMap.file /\ GroupMap["hash"] = GroupMap.hash
  OBVIOUS
<1> HIDE DEF full, meant
<1>5. "file" \in DOMAIN full => Plain(full.file)
  BY <1>2, <1>3, <1>4 DEF Among
<1>6. "hash" \in DOMAIN full => FileHash(full.hash)
  BY <1>2, <1>3, <1>4 DEF Among
<1>7. QED
  BY <1>1, <1>5, <1>6, CleanBare

\* A log's records name files and hashes in JSON lines only.
LEMMA LogBare ==
    ASSUME NEW l, NEW shape, shape = "jsonl" => l.kind = "json",
           InOrder(l.fields),
           \A p \in ToSet(l.fields) : (p[1] \in GroupMap.file => Plain(p[2])) /\ (p[1] \in GroupMap.hash => FileHash(p[2]))
    PROVE  Bare(LogRecord(l, shape))
<1>1. Bare(RecordAccess(l))
  BY CleanBare DEF RecordAccess
<1>2. Bare(RecordLine(l))
  BY CleanBare DEF RecordLine
<1>3. Bare(RecordSyslog(l))
  BY CleanBare DEF RecordSyslog
<1>4. LogRecord(l, shape) \in {RecordAccess(l), RecordLine(l), RecordSyslog(l), RecordMapping(l)}
  BY DEF LogRecord
<1>5. QED
  BY <1>1, <1>2, <1>3, <1>4, MappingBare

\* The name in the file table has its extension.
LEMMA MftBare ==
    ASSUME NEW e, NEW ts,
           e.name # None => "around" \in DOMAIN e.name /\ e.name.around \cap Wrapper \subseteq {"extensionless"},
           e.name # None /\ e.extension = None => Plain(e.name)
    PROVE  Bare(Clean([of |-> e.n, source |-> "mft", ts |-> ts, file |-> MftName(e)]))
<1>1. Plain(MftName(e))
  <2>1. CASE e.name = None
    BY <2>1, NoneBare DEF MftName
  <2>2. CASE e.name # None /\ e.extension = None
    BY <2>2 DEF MftName
  <2>3. CASE e.name # None /\ e.extension # None
    <3>1. PICK w : w = MftName(e)
      OBVIOUS
    <3>2. w = [e.name EXCEPT !.around = @ \ {"extensionless"}]
      BY <2>3, <3>1 DEF MftName
    <3>3. w.around \subseteq e.name.around \ {"extensionless"}
      BY <3>2
    <3>4. w.around \cap Wrapper = {}
      BY <2>3, <3>3
    <3>5. QED
      BY <3>1, <3>4 DEF Plain
  <2>4. QED
    BY <2>1, <2>2, <2>3
<1>2. QED
  BY <1>1, CleanBare

\* What is stripped of its path is as bare as before.
LEMMA BasenameBare == ASSUME NEW w, Plain(w) PROVE Plain(Basename(w))
<1>1. CASE w = None
  BY <1>1, NoneBare DEF Basename
<1>2. CASE w # None
  <2>1. PICK b : b = Basename(w)
    OBVIOUS
  <2>2. b.around \subseteq w.around
    BY <1>2, <2>1 DEF Basename
  <2>3. b.around \cap Wrapper = {}
    BY <1>2, <2>2 DEF Plain
  <2>4. QED
    BY <2>1, <2>3 DEF Plain
<1>3. QED
  BY <1>1, <1>2

\* THOR's names lose their path,
LEMMA ThorBare == ASSUME NEW l, NEW year, NEW w, Says(w, {"FILE"}, {"SHA256"}) PROVE Bare(ThorRecord(l, year, w))
<1>1. Plain(Basename(Get(w, "FILE"))) /\ FileHash(Get(w, "SHA256"))
  BY BasenameBare DEF Says
<1>2. QED
  BY <1>1, CleanBare DEF ThorRecord

LEMMA ThorRowBare == ASSUME NEW e, Plain(e.path) PROVE Bare(ThorRow(e))
<1>1. Plain(Basename(e.path))
  BY BasenameBare
<1>2. QED
  BY <1>1, CleanBare DEF ThorRow

\* osquery's and CrowdStrike's names and hashes are as they stand.
LEMMA OsqueryBare == ASSUME NEW e, Says(e.columns, {"target_path"}, {"sha256"}) PROVE Bare(OsqueryRecord(e))
<1>d. PICK d : d = Ports(e.columns)
  OBVIOUS
<1>1. d = [x \in {y \in DOMAIN e.columns : y \in {"port", "remote_port"} => e.columns[y] # 0} |-> e.columns[x]]
  BY <1>d DEF Ports
<1>2. Get(d, "target_path") = Get(e.columns, "target_path") /\ Get(d, "sha256") = Get(e.columns, "sha256")
  BY <1>1 DEF Get
<1>3. Plain(Get(Ports(e.columns), "target_path")) /\ FileHash(Get(Ports(e.columns), "sha256"))
  BY <1>d, <1>2 DEF Says
<1>4. QED
  BY <1>3, CleanBare DEF OsqueryRecord

LEMMA ClipboardBare == ASSUME NEW e, Says(e.d, {"File name", "File path"}, {"SHA 256"}) PROVE Bare(ClipboardRecord(e))
<1>n. PICK name : name = "File name"
  BY Zenon
<1>p. PICK path : path = "File path"
  BY Zenon
<1>s. PICK sha : sha = "SHA 256"
  BY Zenon
<1>2. Plain(Get(e.d, name)) /\ Plain(Get(e.d, path)) /\ FileHash(Get(e.d, sha))
  BY <1>n, <1>p, <1>s, Zenon DEF Says
<1>3. PICK host, user, md5, src :
        ClipboardRecord(e) = Clean([of |-> e.n, source |-> "crowdstrike", ts |-> ClipboardTime(e.ts), host |-> host,
                                    user |-> user, file |-> First(e.d, <<name, path>>), hash |-> Get(e.d, sha),
                                    md5 |-> md5, src_ip |-> src])
  BY <1>n, <1>p, <1>s, Zenon DEF ClipboardRecord
<1>4. Plain(First(e.d, <<name, path>>))
  BY <1>2, FirstPlain
<1>5. QED
  BY <1>2, <1>3, <1>4, CleanBare

LEMMA LogscaleBare == ASSUME NEW e, Says(e.d, {}, {"SHA256HashData"}) PROVE Bare(LogscaleRecord(e))
<1>1. FileHash(Get(e.d, "SHA256HashData"))
  BY DEF Says
<1>2. QED
  BY <1>1, CleanBare DEF LogscaleRecord

-----------------------------------------------------------------------------

\* Commands put on a line of an export, or decoded from its hex, are as bare as
\* they were.
LEMMA DecodedCommands ==
    ASSUME NEW lines, Export(lines), NEW n \in DOMAIN lines, Commands(lines[n].data), NEW l, l = LogicalLines(lines)[n]
    PROVE  Commands(DecodeHexString(l).data)
<1>1. l.data = lines[n].data
  <2>1. l = [lines[n] EXCEPT !.kind = IF Begins(lines, n) THEN @ ELSE "more"]
    BY DEF LogicalLines, Begins
  <2>2. QED
    BY <2>1
<1>2. CASE DecodeHexString(l) = l
  BY <1>1, <1>2
<1>3. CASE l.type \in {"hex(1)", "hex(2)"}
  <2>d. PICK data, q : data = l.data /\ q = DecodeHexString(l).data
    OBVIOUS
  <2>1. q = [i \in DOMAIN data |-> [data[i] EXCEPT !.around = @ \ {"hex"}]]
    BY <1>3, <2>d DEF DecodeHexString
  <2>2. InOrder(data) /\ \A w \in ToSet(data) : "around" \in DOMAIN w /\ "extensionless" \notin w.around
    BY <1>1, <2>d DEF Commands
  <2>3. InOrder(q) /\ DOMAIN q = DOMAIN data
    <3>1. q = [i \in DOMAIN data |-> q[i]]
      BY <2>1
    <3>2. QED
      BY <2>2, <3>1, MappedSequence
  <2>4. ASSUME NEW i \in DOMAIN q PROVE "around" \in DOMAIN q[i] /\ "extensionless" \notin q[i].around
    <3>w. PICK w, v : w = data[i] /\ v = q[i]
      OBVIOUS
    <3>1. w \in ToSet(data)
      BY <2>3, <3>w DEF ToSet
    <3>2. v = [w EXCEPT !.around = w.around \ {"hex"}]
      BY <2>1, <2>3, <3>w
    <3>3. DOMAIN v = DOMAIN w /\ v.around = w.around \ {"hex"}
      BY <2>2, <3>1, <3>2
    <3>4. QED
      BY <2>2, <3>1, <3>3, <3>w
  <2>5. \A w \in ToSet(q) : "around" \in DOMAIN w /\ "extensionless" \notin w.around
    BY <2>4 DEF ToSet
  <2>6. QED
    BY <2>3, <2>5, <2>d DEF Commands
<1>4. QED
  BY <1>2, <1>3 DEF DecodeHexString

\* parse_regfile gives bare programs, or none.
LEMMA ParsedBare ==
    ASSUME NEW lines, Export(lines), \A l \in ToSet(lines) : Commands(l.data), NEW p \in ToSet(ParseRegfile(lines))
    PROVE  Plain(p.program)
<1>o. PICK out : out = ParseRegfile(lines)
  OBVIOUS
<1>1. out \in Seq(RecordsIn(lines))
  BY <1>o, ParseIs
<1>2. p \in RecordsIn(lines)
  BY <1>o, <1>1 DEF ToSet
<1>3. CASE p \in {KeyDeleted(LogicalLines(lines)[i]) : i \in DOMAIN lines}
  <2>1. p.program = None
    BY <1>3 DEF KeyDeleted
  <2>2. QED
    BY <2>1, NoneBare
<1>4. CASE \E key, category : \E n \in DOMAIN lines : p = ValueRecord(key, category, DecodeHexString(LogicalLines(lines)[n]))
  <2>1. PICK key, category, n : n \in DOMAIN lines /\ p = ValueRecord(key, category, DecodeHexString(LogicalLines(lines)[n]))
    BY <1>4
  <2>d. PICK d : d = DecodeHexString(LogicalLines(lines)[n])
    OBVIOUS
  <2>2. Commands(lines[n].data)
    BY <2>1 DEF ToSet
  <2>3. Commands(d.data)
    BY <2>1, <2>2, <2>d, DecodedCommands
  <2>4. PICK cat : p.program \in {None, ProgramFromValue(cat, d.name, d.data)}
    BY <2>1, <2>d DEF ValueRecord
  <2>5. QED
    BY <2>3, <2>4, NoneBare, ProgramBare
<1>5. QED
  BY <1>2, <1>3, <1>4 DEF RecordsIn

\* A record of the registry is as bare as its program.
LEMMA RegisteredBare == ASSUME NEW p, NEW ts, Plain(p.program) PROVE Bare(Registered(p, ts))
BY CleanBare DEF Registered

\* The records of a connection name no file.
LEMMA ZeekBare ==
    ASSUME NEW z, Logs(z), NEW r \in ToSet(Zeek(z))
    PROVE  Bare(r)
<1>r. PICK recs : recs = Zeek(z)
  OBVIOUS
<1>1. PICK k \in DOMAIN recs : r = recs[k]
  BY <1>r DEF ToSet
<1>2. Fileless(r)
  BY <1>r, <1>1, ZeekIsWhole DEF Joined
<1>3. Get(r, "file") = None /\ Get(r, "hash") = None
  BY <1>2 DEF Fileless, Get
<1>4. QED
  BY <1>3, NoneBare DEF Bare

-----------------------------------------------------------------------------
(* KeysBare                                                                 *)

\* What EvtxECmd, a log,
LEMMA EvtxFullKeys ==
    ASSUME NEW f, f.kind = "evtx_full", Ordered(f), Worded(f), NEW r \in ToSet(Load("evtx_full", f.content).records)
    PROVE  Bare(r)
<1>1. PICK e \in ToSet(f.content) : e.kind = "doc" /\ r = EvtxEcmdRecord(e)
  BY EvtxFullMade DEF Ordered
<1>2. /\ Says(e.data, {"TargetFilename", "TargetName"}, {})
      /\ \A k \in {"Hashes", "Hash"} : Get(e.data, k) # None => Says(Get(e.data, k), {}, {"SHA256", "SHA1", "bare"})
  BY <1>1 DEF Worded
<1>3. QED
  BY <1>1, <1>2, EvtxEcmdBare

LEMMA LogKeys ==
    ASSUME NEW f, f.kind = "log", Ordered(f), Worded(f), NEW r \in ToSet(Load("log", f.content).records)
    PROVE  Bare(r)
<1>c. PICK lines, shape : lines = f.content /\ shape = Sniff(lines)
  OBVIOUS
<1>1. InOrder(lines) /\ \A l \in ToSet(lines) : InOrder(l.fields)
  BY <1>c DEF Ordered
<1>2. PICK l \in ToSet(lines) : /\ l.kind # "blank" /\ (shape = "jsonl" => l.kind = "json")
                               /\ r = LogRecord(l, shape)
  BY <1>1, <1>c, LogMade
<1>3. \A p \in ToSet(l.fields) : (p[1] \in GroupMap.file => Plain(p[2])) /\ (p[1] \in GroupMap.hash => FileHash(p[2]))
  BY <1>2, <1>c DEF Worded
<1>4. QED
  BY <1>1, <1>2, <1>3, LogBare

\* an export, a hive,
LEMMA RegistryKeys ==
    ASSUME NEW f, f.kind = "registry", Export(f.content.lines), Worded(f),
           NEW r \in ToSet(Load("registry", f.content).records)
    PROVE  Bare(r)
<1>l. PICK lines : lines = f.content.lines
  OBVIOUS
<1>1. PICK p \in ToSet(ParseRegfile(lines)) : r = Registered(p, f.content.mtime)
  BY <1>l, RegistryMade
<1>2. \A l \in ToSet(lines) : Commands(l.data)
  BY <1>l DEF Worded, Commands
<1>3. Plain(p.program)
  BY <1>l, <1>2, ParsedBare
<1>4. QED
  BY <1>1, <1>3, RegisteredBare

LEMMA HiveKeys ==
    ASSUME NEW f, f.kind = "hive", Ordered(f), Worded(f), NEW r \in ToSet(Load("hive", f.content).records)
    PROVE  Bare(r)
<1>c. PICK c : c = f.content
  OBVIOUS
<1>1. InOrder(c) /\ \A node \in ToSet(c) : InOrder(node.values)
  BY <1>c DEF Ordered
<1>2. \A node \in ToSet(c) : \A v \in ToSet(node.values) : v # None => Commands(v.data)
  BY <1>c DEF Worded, Commands
<1>3. PICK node \in ToSet(c) : \E p : r = Registered(p, NormEzTs(node.time)) /\ Hived(node, p)
  BY <1>1, <1>c, HiveMade
<1>4. PICK p : /\ r = Registered(p, NormEzTs(node.time))
               /\ p.program = None \/ \E v \in ToSet(node.values) \ {None} : \E category :
                                          p.program = ProgramFromValue(category, v.name, v.data)
  BY <1>3 DEF Hived
<1>5. CASE p.program = None
  BY <1>4, <1>5, NoneBare, RegisteredBare
<1>6. CASE \E v \in ToSet(node.values) \ {None} : \E category : p.program = ProgramFromValue(category, v.name, v.data)
  <2>1. PICK v \in ToSet(node.values) \ {None} : \E category : p.program = ProgramFromValue(category, v.name, v.data)
    BY <1>6
  <2>2. PICK category : p.program = ProgramFromValue(category, v.name, v.data)
    BY <2>1
  <2>3. Commands(v.data)
    BY <1>2, <2>1
  <2>4. Plain(p.program)
    BY <2>2, <2>3, ProgramBare
  <2>5. QED
    BY <1>4, <2>4, RegisteredBare
<1>7. QED
  BY <1>4, <1>5, <1>6

\* the file table, THOR,
LEMMA MftKeys ==
    ASSUME NEW f, f.kind = "mft", Ordered(f), Worded(f), NEW r \in ToSet(Load("mft", f.content).records)
    PROVE  Bare(r)
<1>1. PICK e \in ToSet(f.content.entries) :
         e.kind = "doc" /\ r = Clean([of |-> e.n, source |-> "mft", ts |-> NormEzTs(First(e.times, MftTimes)),
                                    file |-> MftName(e)])
  BY MftMade DEF Ordered
<1>2. e.name # None => /\ "around" \in DOMAIN e.name /\ e.name.around \cap Wrapper \subseteq {"extensionless"}
                       /\ e.extension = None => Plain(e.name)
  BY <1>1 DEF Worded
<1>3. QED
  BY <1>1, <1>2, MftBare

LEMMA ThorKeys ==
    ASSUME NEW f, f.kind = "thor", Ordered(f), Worded(f), NEW r \in ToSet(Load("thor", f.content).records)
    PROVE  Bare(r)
<1>c. PICK c : c = f.content
  OBVIOUS
<1>1. \/ /\ c.report # None
         /\ \E l \in ToSet(c.report.lines) : \E w \in {l.primary, l.linked} :
               l.kind = "doc" /\ r = ThorRecord(l, YearOf(c.report), w)
      \/ c.report = None /\ c.md5s # None /\ \E e \in ToSet(c.md5s) : e.kind = "doc" /\ r = ThorRow(e)
  BY <1>c, ThorMade DEF Ordered
<1>2. CASE c.report # None
  <2>1. PICK l \in ToSet(c.report.lines) : \E w \in {l.primary, l.linked} :
           l.kind = "doc" /\ r = ThorRecord(l, YearOf(c.report), w)
    BY <1>1, <1>2
  <2>2. PICK w \in {l.primary, l.linked} : l.kind = "doc" /\ r = ThorRecord(l, YearOf(c.report), w)
    BY <2>1
  <2>3. Says(w, {"FILE"}, {"SHA256"})
    BY <1>2, <1>c, <2>2 DEF Worded
  <2>4. QED
    BY <2>2, <2>3, ThorBare
<1>3. CASE c.report = None
  <2>1. PICK e \in ToSet(c.md5s) : e.kind = "doc" /\ r = ThorRow(e)
    BY <1>1, <1>3
  <2>2. Plain(e.path)
    BY <1>1, <1>3, <1>c, <2>1 DEF Worded
  <2>3. QED
    BY <2>1, <2>2, ThorRowBare
<1>4. QED
  BY <1>2, <1>3

\* the rules, osquery and CrowdStrike name is bare in their records.
LEMMA YaraKeys ==
    ASSUME NEW f, f.kind = "yara", Ordered(f), Worded(f), NEW r \in ToSet(Load("yara", f.content).records)
    PROVE  Bare(r)
<1>1. PICK t \in ToSet(f.content.target) : \E j \in DOMAIN t.matches :
         r = Clean([of |-> t.n, source |-> "yara", ts |-> t.mtime, file |-> t.path, techniques |-> t.matches[j]])
  BY YaraMade DEF Ordered
<1>2. Plain(t.path)
  BY DEF Worded
<1>3. QED
  BY <1>1, <1>2, CleanBare

LEMMA OsqueryKeys ==
    ASSUME NEW f, f.kind = "osquery", Ordered(f), Worded(f), NEW r \in ToSet(Load("osquery", f.content).records)
    PROVE  Bare(r)
<1>1. PICK e \in ToSet(f.content.entries) : /\ e.kind = "doc" /\ e.ts # None /\ e.ts.form = "epoch"
                                            /\ r = OsqueryRecord(e)
  BY OsqueryMade DEF Ordered
<1>2. Says(e.columns, {"target_path"}, {"sha256"})
  BY <1>1 DEF Worded
<1>3. QED
  BY <1>1, <1>2, OsqueryBare

LEMMA CrowdStrikeKeys ==
    ASSUME NEW f, f.kind = "crowdstrike", Ordered(f), Worded(f), NEW r \in ToSet(Load("crowdstrike", f.content).records)
    PROVE  Bare(r)
<1>1. PICK e \in ToSet(f.content.entries) : e.kind = "doc" /\ r \in {ClipboardRecord(e), LogscaleRecord(e)}
  BY CrowdStrikeMade DEF Ordered
<1>2. Detected(e.d)
  BY <1>1 DEF Worded
<1>3. Says(e.d, {"File name", "File path"}, {"SHA 256"}) /\ Says(e.d, {}, {"SHA256HashData"})
  BY <1>2, Zenon DEF Detected, Says
<1>4. Bare(ClipboardRecord(e))
  BY <1>3, Zenon, ClipboardBare
<1>5. Bare(LogscaleRecord(e))
  BY <1>3, Zenon, LogscaleBare
<1>6. QED
  BY <1>1, <1>4, <1>5

\* Whatever its adapter, a record of a file is bare.
LEMMA LoadBare ==
    ASSUME NEW f, f.kind \in Kind, Ordered(f), f.kind = "registry" => Export(f.content.lines), Worded(f),
           NEW r \in ToSet(Read(f).records)
    PROVE  Bare(r)
<1>1. r \in ToSet(Load(f.kind, f.content).records)
  <2>1. CASE f.fate # "good"
    <3>1. DOMAIN <<>> = {} /\ r \in ToSet(<<>>)
      BY <2>1 DEF Read, Raised
    <3>2. QED
      BY <3>1 DEF ToSet
  <2>2. QED
    BY <2>1 DEF Read
<1>2. f.kind \in {"evtx", "pcap"} \cup Adapted
  BY DEF Kind
<1>3. CASE f.kind = "evtx"
  <2>1. \E e \in ToSet(f.content) : e.kind = "doc" /\ r = HayabusaRecord(e)
    BY <1>1, <1>3, EvtxMade DEF Ordered
  <2>2. QED
    BY <2>1, HayabusaBare
<1>4. CASE f.kind = "pcap"
  <2>1. \E e \in ToSet(f.content.packets) : r = TsharkRecord(e)
    BY <1>1, <1>4, PacketMade DEF Ordered
  <2>2. QED
    BY <2>1, TsharkBare
<1>5. QED
  BY <1>1, <1>2, <1>3, <1>4, EvtxFullKeys, LogKeys, RegistryKeys, HiveKeys, MftKeys, ThorKeys, YaraKeys, OsqueryKeys,
     CrowdStrikeKeys DEF Adapted

\* Names of files are bare of quotes, arguments and native prefixes and have
\* their extension, and no hash of a file is of its import table, in the records of
\* every build of every request: what stands around a name is stripped by the
\* adapter of the tool that puts it there.
THEOREM BuildWritesBareKeys == Spec => []KeysBare
<1>1. BuildInv /\ Honest => KeysBare
  <2> SUFFICES ASSUME BuildInv, Honest, NEW row \in Rows PROVE Bare(row[2])
    BY DEF KeysBare
  <2>1. PICK d \in DOMAIN made : made[d] > 0 /\ row \in {<<d[1], r>> : r \in ToSet(RecordsOf(d[1], d[2]))}
    BY DEF Rows
  <2>2. PICK r \in ToSet(RecordsOf(d[1], d[2])) : row = <<d[1], r>>
    BY <2>1
  <2>i. PICK i, t : i = d[1] /\ t = d[2]
    OBVIOUS
  <2>3. i \in DOMAIN Files /\ t \in Tool /\ d = <<i, t>>
    BY <2>1, <2>i DEF BuildInv, TypeInv
  <2>4. Came(i, t)
    BY <2>1, <2>3 DEF Came
  <2>f. PICK f : f = Files[i]
    OBVIOUS
  <2>5. Reads(t, f)
    BY <2>3, <2>4, <2>f DEF Honest
  <2>6. f.kind \in Kind
    BY <2>3, <2>5 DEF Reads, Tool, Kind, Adapted
  <2>7. job \in DOMAIN Request /\ i \in DOMAIN Request[job].files /\ f = Request[job].files[i]
    BY <2>3, <2>f DEF BuildInv, TypeInv, Files
  <2>8. Ordered(f) /\ Worded(f)
    BY <2>7, ClockAssumption, WordAssumption DEF Dated
  <2>9. f.kind = "registry" => Export(f.content.lines)
    BY <2>7, ExportAssumption DEF Export
  <2>10. CASE t = "zeek"
    <3>1. f.kind = "pcap" /\ f.content.zeek # None
      BY <2>5, <2>10 DEF Reads
    <3>2. Logs(f.content.zeek)
      BY <2>7, <3>1, ZeekAssumption
    <3>3. r \in ToSet(Zeek(f.content.zeek))
      BY <2>2, <2>i, <2>f, <2>10 DEF RecordsOf
    <3>4. Bare(r)
      BY <3>2, <3>3, ZeekBare
    <3>5. QED
      BY <2>2, <3>4
  <2>11. CASE t # "zeek"
    <3>1. r \in ToSet(Read(f).records)
      BY <2>2, <2>i, <2>f, <2>11 DEF RecordsOf
    <3>2. Bare(r)
      BY <2>6, <2>8, <2>9, <3>1, LoadBare
    <3>3. QED
      BY <2>2, <3>2
  <2>12. QED
    BY <2>10, <2>11
<1>2. QED
  BY <1>1, Invariant, HonestInvariant, PTL

-----------------------------------------------------------------------------
(* What comes of a file                                                     *)

\* An entry the file owes a record has a number.
Numbered(f) == \A c \in Clock(f) : c[1] # None

\* The records hold one of every entry the file owes one.
Holds(records, f) == \A n \in Due(f) : \E r \in ToSet(records) : r.of = n

\* A record that is Stamped with an entry of the clock is of that entry.
LEMMA OfEntry ==
    ASSUME NEW f, Numbered(f), NEW n, NEW t, <<n, t>> \in Clock(f), NEW r, NEW u, Stamped(r, n, u)
    PROVE  r.of = n
<1>1. PICK c : c = <<n, t>>
  OBVIOUS
<1>2. n # None
  BY <1>1 DEF Numbered
<1>3. QED
  BY <1>2 DEF Stamped

\* A selection from what a JSON file holds that is whole has every entry it asks for.
LEMMA KeptHas ==
    ASSUME NEW json, InOrder(json.entries), ~(json.shape = "document" /\ \E i \in DOMAIN json.entries : json.entries[i].kind = "junk"),
           NEW read, read = Documents(json), NEW S, NEW q, q = Selected(read, S),
           NEW e \in ToSet(json.entries), e.kind = "doc", \A i \in DOMAIN read : read[i] = e => i \in S
    PROVE  \E k \in DOMAIN q : q[k] = e
<1>1. read = Docs(json.entries)
  BY DEF Documents
<1>2. Sequence(read)
  BY DocumentsFrom
<1>3. InOrder(read)
  BY <1>2, SequenceFacts DEF InOrder
<1>4. PICK i \in DOMAIN read : read[i] = e
  BY <1>1, DocsHas
<1>5. i \in S
  BY <1>4
<1>6. QED
  BY <1>3, <1>4, <1>5, SelectedHas

\* Each adapter holds its file's: the alerts of Hayabusa,
LEMMA EvtxHolds ==
    ASSUME NEW f, f.kind = "evtx", Ordered(f), Numbered(f)
    PROVE  Holds(Load("evtx", f.content).records, f)
<1>c. PICK c, q, records : c = f.content /\ q = Docs(c) /\ records = Load("evtx", c).records
  OBVIOUS
<1>1. records = [i \in DOMAIN q |-> HayabusaRecord(q[i])]
  BY <1>c DEF Load, Loaded, Hayabusa, MapSeq
<1>2. ASSUME NEW n \in Due(f) PROVE \E r \in ToSet(records) : r.of = n
  <2>1. PICK e \in ToSet(c) : e.kind = "doc" /\ n = e.n
    BY <1>c DEF Due
  <2>2. <<e.n, e.ts>> \in Clock(f)
    BY <1>c, <2>1 DEF Clock
  <2>3. HayabusaRecord(e).of = n
    BY <2>1, <2>2, HayabusaStamped, OfEntry
  <2>4. PICK k \in DOMAIN q : q[k] = e
    BY <1>c, <2>1, DocsHas DEF Ordered
  <2>5. QED
    BY <1>1, <2>3, <2>4 DEF ToSet
<1>3. QED
  BY <1>c, <1>2 DEF Holds

\* the events of EvtxECmd,
LEMMA EvtxFullHolds ==
    ASSUME NEW f, f.kind = "evtx_full", Ordered(f), Numbered(f)
    PROVE  Holds(Load("evtx_full", f.content).records, f)
<1>c. PICK c, q, records : c = f.content /\ q = Docs(c) /\ records = Load("evtx_full", c).records
  OBVIOUS
<1>1. records = [i \in DOMAIN q |-> EvtxEcmdRecord(q[i])]
  BY <1>c DEF Load, Loaded, EvtxEcmd, MapSeq
<1>2. ASSUME NEW n \in Due(f) PROVE \E r \in ToSet(records) : r.of = n
  <2>1. PICK e \in ToSet(c) : e.kind = "doc" /\ n = e.n
    BY <1>c DEF Due
  <2>2. <<e.n, e.ts>> \in Clock(f)
    BY <1>c, <2>1 DEF Clock
  <2>3. EvtxEcmdRecord(e).of = n
    BY <2>1, <2>2, EvtxEcmdStamped, OfEntry
  <2>4. PICK k \in DOMAIN q : q[k] = e
    BY <1>c, <2>1, DocsHas DEF Ordered
  <2>5. QED
    BY <1>1, <2>3, <2>4 DEF ToSet
<1>3. QED
  BY <1>c, <1>2 DEF Holds

\* the packets with an address or a name,
LEMMA PacketsHold ==
    ASSUME NEW f, f.kind = "pcap", Ordered(f), Numbered(f)
    PROVE  Holds(Load("pcap", f.content).records, f)
<1>c. PICK packets : packets = f.content.packets
  OBVIOUS
<1>w. PICK rows : rows = [i \in DOMAIN packets |-> TsharkRecord(packets[i])]
  OBVIOUS
<1>S. PICK S : S = {i \in DOMAIN rows : {"src_ip", "dst_ip", "dns"} \cap DOMAIN rows[i] # {}}
  OBVIOUS
<1>q. PICK q : q = Selected(rows, S)
  OBVIOUS
<1>1. Load("pcap", f.content).records = q
  BY <1>c, <1>w, <1>S, <1>q DEF Load, Loaded, Tshark, MapSeq
<1>2. InOrder(rows)
  <2>1. rows = [i \in DOMAIN packets |-> rows[i]]
    BY <1>w
  <2>2. QED
    BY <1>c, <2>1, MappedSequence DEF Ordered
<1>3. ASSUME NEW n \in Due(f) PROVE \E r \in ToSet(q) : r.of = n
  <2>1. PICK p \in ToSet(packets) :
           n = p.n /\ \E k \in {"src", "src6", "dst", "dst6", "query"} : Get(p, k) # None
    BY <1>c DEF Due
  <2>2. <<p.n, p.ts>> \in Clock(f)
    BY <1>c, <2>1 DEF Clock
  <2>3. TsharkRecord(p).of = n
    BY <2>1, <2>2, TsharkStamped, OfEntry
  <2>4. First(p, <<"src", "src6">>) # None \/ First(p, <<"dst", "dst6">>) # None \/ p.query # None
    <3>k. PICK src, dst : src = <<"src", "src6">> /\ dst = <<"dst", "dst6">>
      OBVIOUS
    <3>1. /\ Len(src) = 2 /\ DOMAIN src = 1..2 /\ src[1] = "src" /\ src[2] = "src6"
          /\ Len(dst) = 2 /\ DOMAIN dst = 1..2 /\ dst[1] = "dst" /\ dst[2] = "dst6"
      BY <3>k
    <3>2. (Get(p, "src") # None \/ Get(p, "src6") # None) => First(p, src) # None
      BY <3>1, FirstIsOne
    <3>3. (Get(p, "dst") # None \/ Get(p, "dst6") # None) => First(p, dst) # None
      BY <3>1, FirstIsOne
    <3>4. Get(p, "query") # None => p.query # None
      BY DEF Get
    <3>5. QED
      BY <2>1, <3>2, <3>3, <3>4, <3>k
  <2>5. {"src_ip", "dst_ip", "dns"} \cap DOMAIN TsharkRecord(p) # {}
    BY <2>4 DEF TsharkRecord, Clean
  <2>6. PICK i \in DOMAIN packets : packets[i] = p
    BY <2>1 DEF ToSet
  <2>7. i \in DOMAIN rows /\ rows[i] = TsharkRecord(p)
    BY <1>w, <2>6
  <2>8. i \in S
    BY <1>S, <2>5, <2>7
  <2>9. PICK k \in DOMAIN q : q[k] = rows[i]
    BY <1>2, <1>q, <2>7, <2>8, SelectedHas
  <2>10. QED
    BY <2>3, <2>7, <2>9 DEF ToSet
<1>4. QED
  BY <1>1, <1>3 DEF Holds

\* the lines of a log,
LEMMA LogHolds ==
    ASSUME NEW f, f.kind = "log", Ordered(f), Numbered(f), ~Load("log", f.content).raised
    PROVE  Holds(Load("log", f.content).records, f)
<1>c. PICK lines, shape : lines = f.content /\ shape = Sniff(lines)
  OBVIOUS
<1>S. PICK S : S = {i \in DOMAIN lines : lines[i].kind # "blank" /\ (shape = "jsonl" => lines[i].kind = "json")}
  OBVIOUS
<1>q. PICK q : q = Selected(lines, S)
  OBVIOUS
<1>1. Load("log", lines) = Raised \/ Load("log", lines) = Loaded([i \in DOMAIN q |-> LogRecord(q[i], shape)])
  BY <1>c, <1>S, <1>q DEF Load, Logfile, MapSeq
<1>r. PICK records : records = [i \in DOMAIN q |-> LogRecord(q[i], shape)]
  OBVIOUS
<1>2. Load("log", lines).records = records
  BY <1>1, <1>c, <1>r DEF Raised, Loaded
<1>3. ASSUME NEW n \in Due(f) PROVE \E r \in ToSet(records) : r.of = n
  <2>1. PICK l \in ToSet(lines) : n = l.n /\ l.kind # "blank" /\ (shape = "jsonl" => l.kind = "json")
    BY <1>c DEF Due
  <2>2. PICK i \in DOMAIN lines : lines[i] = l
    BY <2>1 DEF ToSet
  <2>3. i \in S
    BY <1>S, <2>1, <2>2
  <2>4. PICK k \in DOMAIN q : q[k] = l
    BY <1>c, <1>q, <2>2, <2>3, SelectedHas DEF Ordered
  <2>5. shape = "jsonl" => l.kind = "json" /\ InOrder(l.fields)
    BY <1>c, <2>1 DEF Ordered
  <2>6. PICK t \in LineTimes(l, shape) :
           Stamped(LogRecord(l, shape), l.n, IF t = None \/ Dateless(l, shape) THEN None ELSE ToUtc(t))
    BY <2>5, LineOnTime
  <2>7. <<l.n, t>> \in Clock(f)
    BY <1>c, <2>1, <2>6 DEF Clock
  <2>8. LogRecord(l, shape).of = n
    BY <2>1, <2>6, <2>7, OfEntry
  <2>9. QED
    BY <1>r, <2>4, <2>8 DEF ToSet
<1>4. QED
  BY <1>2, <1>3, <1>c DEF Holds

\* the values of an export under a key,
LEMMA RegistryHolds ==
    ASSUME NEW f, f.kind = "registry", Export(f.content.lines), ~Load("registry", f.content).raised
    PROVE  Holds(Load("registry", f.content).records, f)
<1>c. PICK c, lines, rows : c = f.content /\ lines = c.lines /\ rows = ToSet(Load("registry", c).records)
  OBVIOUS
<1>1. ~c.torn
  <2>1. c.torn => Load("registry", c) = Raised
    BY DEF Load
  <2>2. QED
    BY <1>c, <2>1 DEF Raised
<1>2. ReadOut(lines, rows)
  BY <1>1, <1>c, RegistryRecord
<1>3. ASSUME NEW n \in Due(f) PROVE \E r \in rows : r.of = n
  <2>1. PICK i \in DOMAIN lines : n = lines[i].n /\ Owned(lines, i)
    BY <1>c DEF Due
  <2>2. Owns(lines, i, Max(KeysTo(lines, i))) /\ Max(KeysTo(lines, i)) \in 1..Len(lines)
    BY <1>c, <2>1, OwnedIs
  <2>3. i \in 1..Len(lines)
    BY <1>c, <2>1 DEF Export
  <2>4. QED
    BY <1>2, <2>1, <2>2, <2>3 DEF ReadOut
<1>4. QED
  BY <1>3, <1>c DEF Holds

\* the values of a hive in a place of persistence,
LEMMA HiveHolds ==
    ASSUME NEW f, f.kind = "hive", Ordered(f), Numbered(f)
    PROVE  Holds(Load("hive", f.content).records, f)
<1>c. PICK c, path : c = f.content /\ path = PathOf(c)
  OBVIOUS
<1>o. InOrder(c) /\ \A node \in ToSet(c) : InOrder(node.values)
  BY <1>c DEF Ordered
<1>p. PICK seqs : seqs = [i \in DOMAIN c |-> FlattenKey(PathOf(c)[i], c[i])]
  OBVIOUS
<1>w. PICK rows : rows = FlattenSeq(seqs)
  OBVIOUS
<1>S. PICK S : S = {i \in DOMAIN rows : rows[i].key # None /\ ClassifyKey(rows[i].key) # None /\ rows[i].time # None}
  OBVIOUS
<1>q. PICK q, out : q = Selected(rows, S) /\ out = RecmdRecords(c)
  OBVIOUS
<1>1. out = [k \in DOMAIN q |-> RecmdRow(q[k])]
  BY <1>p, <1>w, <1>S, <1>q DEF RecmdRecords
<1>2. DOMAIN out = DOMAIN q /\ \A k \in DOMAIN q : out[k].of = IF q[k].v = None THEN 0 ELSE q[k].v.n
  BY <1>1 DEF RecmdRow
<1> DEFINE records == RegistryRecords(out, LAMBDA p : NormEzTs(p.time))
<1>3. records = [k \in DOMAIN out |-> Registered(out[k], NormEzTs(out[k].time))]
  BY DEF RegistryRecords, MapSeq, Registered
<1>4. Load("hive", c) = Loaded(records)
  BY <1>q DEF Load
<1> HIDE DEF records
<1>5. DOMAIN seqs = 1..Len(seqs) /\ Sequence(seqs) /\ \A i \in 1..Len(seqs) : i \in DOMAIN c /\ Sequence(seqs[i])
  BY <1>o, <1>p, HiveRows
<1>6. InOrder(rows)
  <2>1. Sequence(rows)
    BY <1>5, <1>w, FlattenFrom
  <2>2. QED
    BY <2>1, SequenceFacts DEF InOrder
<1>7. ASSUME NEW n \in Due(f) PROVE \E r \in ToSet(records) : r.of = n
  <2>1. PICK i \in DOMAIN c :
           /\ path[i] # None /\ ClassifyKey(path[i]) # None /\ c[i].time # None
           /\ \E v \in ToSet(c[i].values) \ {None} : n = v.n
    BY <1>c DEF Due
  <2>n. PICK node, key : node = c[i] /\ key = path[i]
    OBVIOUS
  <2>2. PICK v \in ToSet(node.values) \ {None} : n = v.n
    BY <2>1, <2>n
  <2>3. node \in ToSet(c) /\ InOrder(node.values)
    BY <1>o, <2>n DEF ToSet
  <2>4. n # None
    <3>1. <<v.n, node.time>> \in {<<x.n, node.time>> : x \in ToSet(node.values) \ {None}} \cup {<<0, node.time>>}
      BY <2>2
    <3>2. <<v.n, node.time>> \in Clock(f)
      BY <1>c, <2>3, <3>1 DEF Clock
    <3>3. PICK w : w = <<v.n, node.time>>
      OBVIOUS
    <3>4. QED
      BY <2>2, <3>2, <3>3 DEF Numbered
  <2>o. PICK objects : objects = ObjectsOf(node.values)
    OBVIOUS
  <2>5. PICK m \in DOMAIN objects : objects[m] = v
    BY <2>2, <2>3, <2>o, ObjectsAre
  <2>6. seqs[i] = [x \in DOMAIN objects |-> [key |-> key, time |-> node.time, v |-> objects[x]]]
    <3>1. node.values # <<>>
      <4>1. DOMAIN <<>> = {}
        OBVIOUS
      <4>2. QED
        BY <2>2, <4>1 DEF ToSet
    <3>2. seqs[i] = FlattenKey(key, node)
      BY <1>c, <1>p, <2>n
    <3>3. QED
      BY <2>o, <3>1, <3>2 DEF FlattenKey, ObjectsOf
  <2>7. m \in DOMAIN seqs[i] /\ seqs[i][m] = [key |-> key, time |-> node.time, v |-> v]
    BY <2>5, <2>6
  <2>8. i \in 1..Len(seqs) /\ m \in 1..Len(seqs[i])
    <3>1. i \in DOMAIN seqs
      BY <1>p
    <3>2. QED
      BY <1>5, <2>7, <3>1, SequenceFacts
  <2>9. PICK j \in DOMAIN rows : rows[j] = seqs[i][m]
    BY <1>5, <1>w, <2>8, FlattenHas
  <2>10. rows[j].key = key /\ rows[j].time = node.time /\ rows[j].v = v
    BY <2>7, <2>9
  <2>11. j \in S
    BY <1>S, <2>1, <2>10, <2>n
  <2>12. PICK k \in DOMAIN q : q[k] = rows[j]
    BY <1>6, <1>q, <2>11, SelectedHas
  <2>13. out[k].of = n /\ k \in DOMAIN out
    BY <1>2, <2>2, <2>10, <2>12
  <2>14. Registered(out[k], NormEzTs(out[k].time)).of = n
    <3>1. Stamped(Registered(out[k], NormEzTs(out[k].time)), out[k].of, NormEzTs(out[k].time))
      BY CleanKeeps DEF Registered
    <3>2. QED
      BY <2>4, <2>13, <3>1 DEF Stamped
  <2>15. QED
    BY <1>3, <2>13, <2>14 DEF ToSet
<1>8. QED
  BY <1>4, <1>7, <1>c DEF Holds, Loaded

\* the entries of the file table, of a file that is whole,
LEMMA MftHolds ==
    ASSUME NEW f, f.kind = "mft", Ordered(f), Numbered(f), ~Unspoken(f)
    PROVE  Holds(Load("mft", f.content).records, f)
<1>c. PICK c, read : c = f.content /\ read = Documents(c)
  OBVIOUS
<1>S. PICK S : S = {i \in DOMAIN read : read[i].entry \notin {None, 0} \/ read[i].name # None}
  OBVIOUS
<1>q. PICK q : q = Selected(read, S)
  OBVIOUS
<1>r. PICK records : records = Load("mft", c).records
  OBVIOUS
<1>1. records = [i \in DOMAIN q |-> Clean([of |-> q[i].n, source |-> "mft",
                                   ts |-> NormEzTs(First(q[i].times, MftTimes)), file |-> MftName(q[i])])]
  <2>c. read = Documents(c)
    BY <1>c
  <2>1. Load("mft", c).records = [i \in DOMAIN q |-> Clean([of |-> q[i].n, source |-> "mft",
                                   ts |-> NormEzTs(First(q[i].times, MftTimes)), file |-> MftName(q[i])])]
    BY <2>c, <1>S, <1>q DEF Load, Loaded, Mft, MapSeq
  <2>2. QED
    BY <1>r, <2>1
<1>2. ~(c.shape = "document" /\ \E i \in DOMAIN c.entries : c.entries[i].kind = "junk")
  BY <1>c DEF Unspoken
<1>3. InOrder(c.entries)
  BY <1>c DEF Ordered
<1>4. ASSUME NEW n \in Due(f) PROVE \E r \in ToSet(records) : r.of = n
  <2>1. PICK e \in ToSet(c.entries) : e.kind = "doc" /\ n = e.n /\ (e.entry \notin {None, 0} \/ e.name # None)
    BY <1>c DEF Due
  <2>2. <<e.n, First(e.times, MftTimes)>> \in Clock(f)
    BY <1>c, <2>1 DEF Clock
  <2>s. \A i \in DOMAIN read : read[i] = e => i \in S
    BY <1>S, <2>1
  <2>3. PICK k \in DOMAIN q : q[k] = e
    BY <1>2, <1>3, <1>c, <1>q, <2>1, <2>s, KeptHas
  <2>r. PICK r : r = Clean([of |-> e.n, source |-> "mft", ts |-> NormEzTs(First(e.times, MftTimes)), file |-> MftName(e)])
    OBVIOUS
  <2>4. r.of = n
    <3>1. Stamped(r, e.n, NormEzTs(First(e.times, MftTimes)))
      BY <2>r, CleanKeeps
    <3>2. QED
      BY <2>1, <2>2, <3>1, OfEntry
  <2>5. k \in DOMAIN records /\ records[k] = r
    BY <1>1, <2>3, <2>r
  <2>6. QED
    BY <2>4, <2>5 DEF ToSet
<1>5. QED
  BY <1>c, <1>r, <1>4 DEF Holds

\* the lines of THOR's report that have a score, and the rows of its list,
LEMMA ThorHolds ==
    ASSUME NEW f, f.kind = "thor", Ordered(f), Numbered(f)
    PROVE  Holds(Load("thor", f.content).records, f)
<1>c. PICK c, records : c = f.content /\ records = Load("thor", c).records
  OBVIOUS
<1>0. Load("thor", c) = Thor(c)
  BY DEF Load
<1>1. ASSUME c.report # None, NEW n \in Due(f) PROVE \E r \in ToSet(records) : r.of = n
  <2>l. PICK lines, year : lines = c.report.lines /\ year = YearOf(c.report)
    OBVIOUS
  <2>m. PICK seqs : seqs = [i \in DOMAIN lines |-> ThorRecords(lines[i], year)]
    OBVIOUS
  <2>1. records = FlattenSeq(seqs)
    BY <1>0, <1>1, <1>c, <2>l, <2>m DEF Thor, Loaded, MapSeq
  <2>2. InOrder(lines)
    BY <1>1, <1>c, <2>l DEF Ordered
  <2>3. Sequence(seqs) /\ DOMAIN seqs = DOMAIN lines /\ DOMAIN seqs = 1..Len(seqs)
    <3>1. seqs = [i \in DOMAIN lines |-> seqs[i]]
      BY <2>m
    <3>2. QED
      BY <2>2, <3>1, MappedSequence, SequenceFacts
  <2>4. \A i \in 1..Len(seqs) : seqs[i] = ThorRecords(lines[i], year) /\ Sequence(seqs[i])
    BY <2>3, <2>m, ThorRecordsAre
  <2>5. PICK l \in ToSet(lines) : l.kind = "doc" /\ l.score # None /\ n = l.n
    BY <1>1, <1>c, <2>l DEF Due
  <2>6. PICK i \in 1..Len(seqs) : lines[i] = l
    BY <2>3, <2>5 DEF ToSet
  <2>7. PICK j \in DOMAIN seqs[i] : seqs[i][j] = ThorRecord(l, year, l.primary)
    BY <2>4, <2>5, <2>6, ThorRecordsAre
  <2>8. j \in 1..Len(seqs[i])
    BY <2>4, <2>7, SequenceFacts
  <2>9. PICK k \in DOMAIN records : records[k] = seqs[i][j]
    BY <2>1, <2>3, <2>4, <2>8, FlattenHas
  <2>t. PICK t : t = Utc(IF Yearless(f) THEN l.ts.local ELSE c.report.year * YearLength + l.ts.local)
    OBVIOUS
  <2>10. <<l.n, t>> \in Clock(f)
    BY <1>1, <1>c, <2>l, <2>5, <2>t DEF Clock
  <2>11. ThorRecord(l, year, l.primary).of = n
    BY <2>5, <2>10, ThorStamped, OfEntry
  <2>12. QED
    BY <2>7, <2>9, <2>11 DEF ToSet
<1>2. ASSUME c.report = None, c.md5s # None, NEW n \in Due(f) PROVE \E r \in ToSet(records) : r.of = n
  <2>S. PICK S : S = {i \in DOMAIN c.md5s : c.md5s[i].kind = "doc" /\ c.md5s[i].md5 # None}
    OBVIOUS
  <2>q. PICK q : q = Selected(c.md5s, S)
    OBVIOUS
  <2>1. records = [i \in DOMAIN q |-> ThorRow(q[i])]
    <3>1. Load("thor", c) = Loaded(ThorCsv(c.md5s))
      BY <1>0, <1>2 DEF Thor
    <3>2. ThorCsv(c.md5s) = [i \in DOMAIN q |-> ThorRow(q[i])]
      BY <2>S, <2>q DEF ThorCsv, MapSeq, ThorRow
    <3>3. Load("thor", c).records = ThorCsv(c.md5s)
      BY <3>1 DEF Loaded
    <3>4. QED
      BY <1>c, <3>2, <3>3
  <2>2. PICK e \in ToSet(c.md5s) : e.kind = "doc" /\ e.md5 # None /\ n = e.n
    BY <1>2, <1>c DEF Due
  <2>3. PICK i \in DOMAIN c.md5s : c.md5s[i] = e
    BY <2>2 DEF ToSet
  <2>4. i \in S /\ InOrder(c.md5s)
    BY <1>2, <1>c, <2>2, <2>3, <2>S DEF Ordered
  <2>5. PICK k \in DOMAIN q : q[k] = e
    BY <2>3, <2>4, <2>q, SelectedHas
  <2>6. <<e.n, None>> \in Clock(f)
    BY <1>2, <1>c, <2>2 DEF Clock
  <2>7. ThorRow(e).of = n
    <3>1. Stamped(ThorRow(e), e.n, None)
      BY CleanKeepsEntry DEF ThorRow
    <3>2. QED
      BY <2>2, <2>6, <3>1, OfEntry
  <2>8. k \in DOMAIN records /\ records[k] = ThorRow(e)
    BY <2>1, <2>5
  <2>9. QED
    BY <2>7, <2>8 DEF ToSet
<1>3. ASSUME c.report = None, c.md5s = None PROVE Due(f) = {}
  BY <1>3, <1>c DEF Due
<1>4. QED
  BY <1>c, <1>1, <1>2, <1>3 DEF Holds

\* the targets a rule matches, where rules and targets can be read,
LEMMA YaraHolds ==
    ASSUME NEW f, f.kind = "yara", Ordered(f), Numbered(f), ~Load("yara", f.content).raised, ~Unspoken(f)
    PROVE  Holds(Load("yara", f.content).records, f)
<1>c. PICK c, records : c = f.content /\ records = Load("yara", c).records
  OBVIOUS
<1>S. PICK S : S = {i \in DOMAIN c.target : ~c.target[i].unreadable}
  OBVIOUS
<1>d. PICK read : read = Selected(c.target, S)
  OBVIOUS
<1> DEFINE match(t) == [i \in DOMAIN t.matches |->
                           Clean([of |-> t.n, source |-> "yara", ts |-> t.mtime, file |-> t.path,
                                  techniques |-> t.matches[i]])]
<1>m. PICK seqs : seqs = [i \in DOMAIN read |-> match(read[i])]
  OBVIOUS
<1>1. c.library
  <2>1. ~c.library => Load("yara", c) = Raised
    BY DEF Load, Yara
  <2>2. QED
    BY <1>c, <2>1 DEF Raised
<1>2. c.rules = "good" /\ \A i \in DOMAIN c.target : ~c.target[i].unreadable
  BY <1>1, <1>c DEF Unspoken
<1>3. records = FlattenSeq(seqs)
  <2>1. Load("yara", c) = Loaded(FlattenSeq(seqs))
    BY <1>S, <1>d, <1>m, <1>1, <1>2 DEF Load, Yara, MapSeq
  <2>2. QED
    BY <1>c, <2>1 DEF Loaded
<1>4. InOrder(c.target) /\ \A t \in ToSet(c.target) : InOrder(t.matches)
  BY <1>c DEF Ordered
<1>5. Sequence(read) /\ \A i \in DOMAIN read : read[i] \in ToSet(c.target)
  BY <1>4, <1>d, SelectedFrom DEF ToSet
<1>6. InOrder(read)
  BY <1>5, SequenceFacts DEF InOrder
<1>7. Sequence(seqs) /\ DOMAIN seqs = DOMAIN read /\ DOMAIN seqs = 1..Len(seqs)
  <2>1. seqs = [i \in DOMAIN read |-> seqs[i]]
    BY <1>m
  <2>2. QED
    BY <1>6, <2>1, MappedSequence, SequenceFacts
<1>8. ASSUME NEW i \in 1..Len(seqs) PROVE Sequence(seqs[i])
  <2>s. PICK s, t : s = seqs[i] /\ t = read[i]
    OBVIOUS
  <2>1. s = match(t) /\ t \in ToSet(c.target)
    BY <1>5, <1>7, <1>m, <2>s
  <2>2. s = [x \in DOMAIN t.matches |-> s[x]] /\ InOrder(t.matches)
    BY <1>4, <2>1
  <2> HIDE DEF match
  <2>3. QED
    BY <2>2, <2>s, MappedSequence
<1>9. ASSUME NEW n \in Due(f) PROVE \E r \in ToSet(records) : r.of = n
  <2>1. PICK t \in ToSet(c.target) : n = t.n /\ t.matches # <<>>
    BY <1>c DEF Due
  <2>2. PICK x \in DOMAIN c.target : c.target[x] = t
    BY <2>1 DEF ToSet
  <2>3. x \in S
    BY <1>2, <1>S, <2>2
  <2>4. PICK i \in DOMAIN read : read[i] = t
    BY <1>4, <1>d, <2>2, <2>3, SelectedHas
  <2>5. 1 \in DOMAIN t.matches
    BY <1>4, <2>1 DEF InOrder
  <2>s. PICK s : s = seqs[i]
    OBVIOUS
  <2>6. s = match(t)
    BY <1>m, <2>4, <2>s
  <2>7. 1 \in DOMAIN s /\ s[1] = Clean([of |-> t.n, source |-> "yara", ts |-> t.mtime, file |-> t.path,
                                       techniques |-> t.matches[1]])
    BY <2>5, <2>6
  <2> HIDE DEF match
  <2>8. i \in 1..Len(seqs) /\ 1 \in 1..Len(seqs[i])
    BY <1>7, <1>8, <2>4, <2>7, <2>s, SequenceFacts
  <2>9. PICK k \in DOMAIN records : records[k] = s[1]
    BY <1>3, <1>7, <1>8, <2>8, <2>s, FlattenHas
  <2>10. Stamped(s[1], t.n, t.mtime)
    BY <2>7, CleanKeeps
  <2>11. <<t.n, t.mtime>> \in Clock(f)
    BY <1>c, <2>1 DEF Clock
  <2>12. s[1].of = n
    BY <2>1, <2>10, <2>11, OfEntry
  <2>13. QED
    BY <2>9, <2>12 DEF ToSet
<1>10. QED
  BY <1>c, <1>9 DEF Holds

\* osquery's rows that have an epoch, of a file that is whole,
LEMMA OsqueryHolds ==
    ASSUME NEW f, f.kind = "osquery", Ordered(f), Numbered(f), ~Unspoken(f)
    PROVE  Holds(Load("osquery", f.content).records, f)
<1>c. PICK c, read : c = f.content /\ read = Documents(c)
  OBVIOUS
<1>S. PICK S : S = {i \in DOMAIN read : read[i].ts # None /\ read[i].ts.form = "epoch"}
  OBVIOUS
<1>q. PICK q, records : q = Selected(read, S) /\ records = Load("osquery", c).records
  OBVIOUS
<1>1. records = [i \in DOMAIN q |-> OsqueryRecord(q[i])]
  BY <1>c, <1>S, <1>q DEF Load, Loaded, Osquery, MapSeq
<1>2. ~(c.shape = "document" /\ \E i \in DOMAIN c.entries : c.entries[i].kind = "junk")
  BY <1>c DEF Unspoken
<1>3. InOrder(c.entries)
  BY <1>c DEF Ordered
<1>4. ASSUME NEW n \in Due(f) PROVE \E r \in ToSet(records) : r.of = n
  <2>1. PICK e \in ToSet(c.entries) : e.kind = "doc" /\ n = e.n /\ e.ts # None /\ e.ts.form = "epoch"
    BY <1>c DEF Due
  <2>2. <<e.n, e.ts>> \in Clock(f)
    BY <1>c, <2>1 DEF Clock
  <2>s. \A i \in DOMAIN read : read[i] = e => i \in S
    BY <1>S, <2>1
  <2>3. PICK k \in DOMAIN q : q[k] = e
    BY <1>2, <1>3, <1>c, <1>q, <2>1, <2>s, KeptHas
  <2>4. OsqueryRecord(e).of = n
    BY <2>1, <2>2, OsqueryStamped, OfEntry
  <2>5. QED
    BY <1>1, <2>3, <2>4 DEF ToSet
<1>5. QED
  BY <1>c, <1>q, <1>4 DEF Holds

\* and what CrowdStrike copied or exported, of a file that is whole.
LEMMA CrowdStrikeHolds ==
    ASSUME NEW f, f.kind = "crowdstrike", Ordered(f), Numbered(f), ~Unspoken(f)
    PROVE  Holds(Load("crowdstrike", f.content).records, f)
<1>c. PICK c, records : c = f.content /\ records = Load("crowdstrike", c).records
  OBVIOUS
<1>1. InOrder(c.entries)
  BY <1>c DEF Ordered
<1>2. ~(c.shape = "document" /\ \E i \in DOMAIN c.entries : c.entries[i].kind = "junk")
  BY <1>c DEF Unspoken
<1>3. ASSUME c.shape = "clipboard", NEW n \in Due(f) PROVE \E r \in ToSet(records) : r.of = n
  <2>r. PICK read : read = Docs(c.entries)
    OBVIOUS
  <2>S. PICK S : S = {i \in DOMAIN read : DOMAIN read[i].d # {} \/ ClipboardTime(read[i].ts) # None}
    OBVIOUS
  <2>q. PICK q : q = Selected(read, S)
    OBVIOUS
  <2>1. records = [i \in DOMAIN q |-> ClipboardRecord(q[i])]
    BY <1>c, <1>3, <2>r, <2>S, <2>q DEF Load, Loaded, CrowdStrike, MapSeq
  <2>2. PICK e \in ToSet(c.entries) : e.kind = "doc" /\ n = e.n /\ (DOMAIN e.d # {} \/ ClipboardTime(e.ts) # None)
    BY <1>c, <1>3 DEF Due
  <2>3. <<e.n, e.ts>> \in Clock(f)
    BY <1>c, <2>2 DEF Clock
  <2>4. InOrder(read)
    <3>1. Sequence(read)
      BY <1>1, <2>r, DocsFrom
    <3>2. QED
      BY <3>1, SequenceFacts DEF InOrder
  <2>5. PICK i \in DOMAIN read : read[i] = e
    BY <1>1, <2>r, <2>2, DocsHas
  <2>6. i \in S
    BY <2>S, <2>2, <2>5
  <2>7. PICK k \in DOMAIN q : q[k] = e
    BY <2>4, <2>5, <2>6, <2>q, SelectedHas
  <2>8. ClipboardRecord(e).of = n
    BY <2>2, <2>3, ClipboardStamped, OfEntry
  <2>9. QED
    BY <2>1, <2>7, <2>8 DEF ToSet
<1>4. ASSUME c.shape # "clipboard", NEW n \in Due(f) PROVE \E r \in ToSet(records) : r.of = n
  <2>q. PICK q : q = Documents(c)
    OBVIOUS
  <2>1. records = [i \in DOMAIN q |-> LogscaleRecord(q[i])]
    BY <1>c, <1>4, <2>q DEF Load, Loaded, CrowdStrike, MapSeq
  <2>2. PICK e \in ToSet(c.entries) : e.kind = "doc" /\ n = e.n
    BY <1>c DEF Due
  <2>3. <<e.n, e.ts>> \in Clock(f)
    BY <1>c, <2>2 DEF Clock
  <2>4. q = Docs(c.entries)
    BY <1>2, <2>q DEF Documents
  <2>5. PICK k \in DOMAIN q : q[k] = e
    BY <1>1, <2>2, <2>4, DocsHas
  <2>6. LogscaleRecord(e).of = n
    BY <2>2, <2>3, LogscaleStamped, OfEntry
  <2>7. QED
    BY <2>1, <2>5, <2>6 DEF ToSet
<1>5. QED
  BY <1>c, <1>3, <1>4 DEF Holds

\* What load_records makes of a file that it reads and that is whole.
LEMMA LoadHolds ==
    ASSUME NEW f, f.kind \in Kind, Ordered(f), Numbered(f), f.kind = "registry" => Export(f.content.lines),
           ~Load(f.kind, f.content).raised, ~Unspoken(f)
    PROVE  Holds(Load(f.kind, f.content).records, f)
<1>1. f.kind \in {"evtx", "pcap"} \cup Adapted
  BY DEF Kind
<1>2. QED
  BY <1>1, EvtxHolds, EvtxFullHolds, PacketsHold, LogHolds, RegistryHolds, HiveHolds, MftHolds, ThorHolds, YaraHolds,
     OsqueryHolds, CrowdStrikeHolds DEF Adapted

\* At the end of a request every file is in records, with one of each entry it
\* owes one, or told, except what is in the files of Unspoken and what Hayabusa
\* skipped while its log could not be read.
THEOREM NothingIsLost == Spec => []NothingLostSilently
<1>1. BuildInv /\ Honest => NothingLostSilently
  <2> SUFFICES ASSUME BuildInv, Honest, pc = "done", Listed, NEW i \in DOMAIN Files
               PROVE  /\ \/ Came(i, ToolOf(Files[i].kind)) /\ (Unspoken(Files[i]) \/ Whole(i, ToolOf(Files[i].kind)))
                         \/ Told(Files[i].kind, Files[i].name)
                         \/ i \in unread
                      /\ Files[i].kind = "pcap" /\ Came(i, "tshark") =>
                           Came(i, "zeek") \/ Told("zeek", Files[i].name) \/ Told("no zeek", None)
    BY DEF NothingLostSilently
  <2>1. i \in 1..Len(Files) /\ Len(Files) \in Nat /\ next \in Nat /\ next > Len(Files) /\ ~noZeek
    BY RequestFacts DEF BuildInv, TypeInv, Nothing
  <2>2. i < next
    BY <2>1
  <2>3. Handled(i) /\ ZeekHandled(i)
    BY <2>1, <2>2 DEF BuildInv, Nothing
  <2>f. PICK f, t : f = Files[i] /\ t = ToolOf(f.kind)
    OBVIOUS
  <2>4. ASSUME Came(i, t), ~Unspoken(f) PROVE Whole(i, t)
    <3>1. f.kind \in Kind
      BY <2>f, RequestFacts DEF BuildInv, TypeInv
    <3>2. t \in Tool /\ t # "zeek"
      BY <2>f, <3>1 DEF ToolOf, Tool, Kind, Adapted
    <3>3. Reads(t, f)
      BY <2>4, <2>f, <3>2 DEF Honest
    <3>4. Read(f) = Load(f.kind, f.content) /\ ~Load(f.kind, f.content).raised
      <4>1. CASE f.kind \in {"evtx", "pcap"}
        <5>1. f.fate = "good"
          BY <2>f, <3>3, <4>1 DEF Reads, ToolOf
        <5>2. ~Load(f.kind, f.content).raised
          BY <4>1 DEF Load, Loaded
        <5>3. QED
          BY <5>1, <5>2 DEF Read
      <4>2. CASE f.kind \notin {"evtx", "pcap"}
        <5>1. t = f.kind /\ t \notin {"hayabusa", "tshark", "zeek"}
          BY <2>f, <3>1, <4>2 DEF ToolOf, Kind, Adapted
        <5>2. ~Read(f).raised
          BY <3>3, <5>1 DEF Reads
        <5>3. QED
          BY <5>2 DEF Read, Raised
      <4>3. QED
        BY <4>1, <4>2
    <3>5. job \in DOMAIN Request /\ i \in DOMAIN Request[job].files /\ f = Request[job].files[i]
      BY <2>f DEF BuildInv, TypeInv, Files
    <3>6. Ordered(f) /\ Numbered(f)
      BY <3>5, ClockAssumption DEF Dated, Numbered
    <3>7. f.kind = "registry" => Export(f.content.lines)
      BY <3>5, ExportAssumption DEF Export
    <3>8. Holds(Read(f).records, f)
      BY <2>4, <3>1, <3>4, <3>6, <3>7, LoadHolds
    <3>9. RecordsOf(i, t) = Read(f).records
      BY <2>f, <3>2 DEF RecordsOf
    <3>10. QED
      BY <2>f, <3>8, <3>9 DEF Whole, Holds
  <2>5. QED
    BY <2>1, <2>3, <2>4, <2>f DEF Handled, ZeekHandled
<1>2. QED
  BY <1>1, Invariant, HonestInvariant, PTL

=============================================================================
