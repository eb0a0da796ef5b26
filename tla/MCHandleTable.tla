--------------------------- MODULE MCHandleTable ---------------------------
(* Small instances of HandleTable. *)
EXTENDS HandleTable

CONSTANTS pen, win
=============================================================================
