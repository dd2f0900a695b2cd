----------------------------- MODULE MCPicoCore -----------------------------
(* Small instances of the core for TLC. *)
EXTENDS PicoCoreProps
=============================================================================
