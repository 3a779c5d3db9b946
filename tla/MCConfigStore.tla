---------------------------- MODULE MCConfigStore ----------------------------
(***************************************************************************)
(* Small instances of the configuration store: one service, one setting.   *)
(***************************************************************************)
EXTENDS ConfigStore

CONSTANTS w1, w2, virustotal, allow_egress, v1, v2, i1, i2, i3, i4

\* A document that has both keys; files that are no document.
Configured   == Whole([key \in Key |-> v1])
SoundFiles   == {Configured}
EditedFiles  == {Configured, Other("garbled"), Other("undecodable")}

=============================================================================
