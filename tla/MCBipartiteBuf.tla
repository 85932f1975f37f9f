--------------------------- MODULE MCBipartiteBuf ---------------------------
(* The ring on a small array; see BipartiteBuf.cfg for the bounds.         *)
EXTENDS BipartiteBuf
=============================================================================
