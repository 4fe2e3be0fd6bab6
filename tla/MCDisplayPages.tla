--------------------------- MODULE MCDisplayPages ---------------------------
(* One menu page, drawn at any time of any page of the display task.        *)
EXTENDS DisplayPages
=============================================================================
