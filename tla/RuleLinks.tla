------------------------------ MODULE RuleLinks ------------------------------
(***************************************************************************)
(* The link to the supplementary Sigma rules inside Hayabusa's rules/      *)
(* directory, as _ensure_rule_links (engine/hayabusa_runner.py) keeps it:  *)
(* one directory on disk, shared by every thread and every process that is *)
(* about to run Hayabusa, with one system call per step and no lock.  The  *)
(* function does the same for each of its link names in turn.              *)
(***************************************************************************)
CONSTANTS
    Runner      \* the threads that run Hayabusa

VARIABLES
    link,   \* rules/sigma-community
    step    \* where each runner is in _ensure_rule_links

linkVars == <<link, step>>

\* "right": it points at the rules; "stale": elsewhere, or nowhere;
\* "own": a real directory of that name.
LinkState == {"missing", "right", "stale", "own"}

Step == {"idle", "is_symlink", "exists", "readlink", "unlink", "symlink_to", "linked", "failed"}

LinkInit == link \in LinkState /\ step = [r \in Runner |-> "idle"]

Advance(r, from, to) == step[r] = from /\ step' = [step EXCEPT ![r] = to]

EnterLinks(r) == Advance(r, "idle", "is_symlink") /\ UNCHANGED link

IsSymlink(r) ==
    /\ Advance(r, "is_symlink", IF link \in {"right", "stale"} THEN "readlink" ELSE "exists")
    /\ UNCHANGED link

\* A real file or directory is left alone, and so is a link someone has made
\* since.  exists() follows the link: it says no to a dangling one.
Exists(r) ==
    /\ \/ link # "missing" /\ Advance(r, "exists", "linked")
       \/ link \in {"missing", "stale"} /\ Advance(r, "exists", "symlink_to")
    /\ UNCHANGED link

\* An error of readlink is a reason to make the link anew.
Readlink(r) ==
    /\ Advance(r, "readlink", IF link = "right" THEN "linked" ELSE "unlink")
    /\ UNCHANGED link

\* Mutant: unlink(missing_ok=True), and the link is not made.
UnlinkOnly(r) ==
    /\ Advance(r, "unlink", "linked")
    /\ link' = "missing"

\* FileNotFoundError, if someone else has taken it away.
Unlink(r) ==
    IF link = "missing"
    THEN Advance(r, "unlink", "failed") /\ UNCHANGED link
    ELSE Advance(r, "unlink", "symlink_to") /\ link' = "missing"

\* FileExistsError, if someone else has made it.
SymlinkTo(r) ==
    IF link = "missing"
    THEN Advance(r, "symlink_to", "linked") /\ link' = "right"
    ELSE Advance(r, "symlink_to", "failed") /\ UNCHANGED link

EnsureLinks(r) == IsSymlink(r) \/ Exists(r) \/ Readlink(r) \/ Unlink(r) \/ SymlinkTo(r)

\* Hayabusa runs with what the directory holds, and the runner is done.
LeaveLinks(r) == step[r] \in {"linked", "failed"} /\ step' = [step EXCEPT ![r] = "idle"] /\ UNCHANGED link

LinkNext == \E r \in Runner : EnterLinks(r) \/ EnsureLinks(r) \/ LeaveLinks(r)

LinkSpec == LinkInit /\ [][LinkNext]_linkVars

-----------------------------------------------------------------------------
(* Properties                                                               *)

LinkTypeOK == link \in LinkState /\ step \in [Runner -> Step]

\* The link is never lost, whatever the races between runners and however
\* many of them fail: when one has come through and none is on its way
\* through _ensure_rule_links, the link is there and is right, or is the
\* analyst's own directory.
LinkSettles ==
    /\ \A r \in Runner : step[r] \in {"idle", "linked", "failed"}
    /\ \E r \in Runner : step[r] \in {"linked", "failed"}
    => link \in {"right", "own"}

=============================================================================
