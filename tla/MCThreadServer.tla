--------------------------- MODULE MCThreadServer ---------------------------
(* ThreadServer for TLC.                                                   *)
EXTENDS ThreadServer
=============================================================================
