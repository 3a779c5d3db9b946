----------------------------- MODULE MCGuiSession -----------------------------
(***************************************************************************)
(* Small instances of the browser sessions.                                *)
(***************************************************************************)
EXTENDS GuiSession

CONSTANTS t1, t2, f1, f2

=============================================================================
