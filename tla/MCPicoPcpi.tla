----------------------------- MODULE MCPicoPcpi -----------------------------
(* Small instances of the core with its co-processors for TLC. *)
EXTENDS PicoPcpi
=============================================================================
