----------------------------- MODULE MCCaseStore -----------------------------
(***************************************************************************)
(* Small instances of the case store.                                      *)
(***************************************************************************)
EXTENDS CaseStoreProperties

CONSTANTS w1, w2, gui, cli, b1, b2, none, n1, n2, gw, c1, c2, c3

\* Two batches, of two records and of one, and one that parsed to nothing.
MCSizeOf == [b \in Batch |-> IF b = b1 THEN 2 ELSE IF b = b2 THEN 1 ELSE 0]
MCIpList  == {{}, {gw}}
OnlyEmpty == {{}}

\* Threads of the GUI, or the GUI and a CLI run.
OneProcess   == [w \in Worker |-> gui]
TwoProcesses == [w \in Worker |-> IF w = w1 THEN gui ELSE cli]

\* One version of the code.  An older layout lacks one of its columns; a
\* wider one has a column that was dropped since.
SameVersion   == [p \in Process |-> {c1, c2}]
OlderLayout   == {{c1}}
WiderLayout   == {{c1, c2}, {c1, c2, c3}}
AnyLayout     == OlderLayout \cup WiderLayout

=============================================================================
