--------------------------- MODULE MCAnalyzeStream ---------------------------
(***************************************************************************)
(* Small instances of the analysis requests.                               *)
(***************************************************************************)
EXTENDS AnalyzeStream

CONSTANTS f1, f2

=============================================================================
