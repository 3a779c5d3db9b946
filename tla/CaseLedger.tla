----------------------------- MODULE CaseLedger -----------------------------
(***************************************************************************)
(* What the case store promises to whoever calls it, one call at a time: a *)
(* case is a ledger of the batches it accepted, the analyst's notes and    *)
(* the declared infrastructure; every call takes effect whole or not at    *)
(* all, and an exact repeat of a batch is refused unless it is forced.     *)
(* Opening, analyzing or migrating a case changes nothing of that.         *)
(***************************************************************************)
EXTENDS Naturals, Sequences

CONSTANTS Batch, SizeOf, Text, IpList, ForceAllowed

VARIABLES
    open,       \* is there a case
    stored,     \* how many times each batch's records are kept
    sources,    \* the batches accepted, in order
    notes, infrastructure_ips

vars == <<open, stored, sources, notes, infrastructure_ips>>

Blank ==
    /\ stored = [b \in Batch |-> 0]
    /\ sources = <<>> /\ notes = <<>> /\ infrastructure_ips = {}

Copies(b, kept) == IF SizeOf[b] = 0 THEN 0 ELSE kept

Init ==
    \/ open = FALSE /\ Blank
    \/ \E b \in Batch :
         /\ open = TRUE
         /\ stored = [c \in Batch |-> IF c = b THEN Copies(b, 1) ELSE 0]
         /\ sources = <<b>> /\ notes = <<>> /\ infrastructure_ips = {}

Create ==
    /\ ~open /\ open' = TRUE
    /\ UNCHANGED <<stored, sources, notes, infrastructure_ips>>

Accept(b, force) ==
    /\ open
    /\ SizeOf[b] > 0 /\ ~force => \A i \in 1..Len(sources) : sources[i] # b
    /\ stored' = [stored EXCEPT ![b] = Copies(b, @ + 1)]
    /\ sources' = Append(sources, b)
    /\ UNCHANGED <<open, notes, infrastructure_ips>>

AddNote(text) ==
    /\ open /\ notes' = Append(notes, text)
    /\ UNCHANGED <<open, stored, sources, infrastructure_ips>>

SetInfrastructureIps(ips) ==
    /\ open /\ infrastructure_ips' = ips
    /\ UNCHANGED <<open, stored, sources, notes>>

Delete ==
    /\ open /\ open' = FALSE
    /\ Blank'

Next ==
    \/ Create \/ Delete
    \/ \E b \in Batch, force \in {FALSE, ForceAllowed} : Accept(b, force)
    \/ \E text \in Text : AddNote(text)
    \/ \E ips \in IpList : SetInfrastructureIps(ips)

Spec == Init /\ [][Next]_vars

=============================================================================
