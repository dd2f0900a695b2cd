---------------------------- MODULE MCNativeBuses ----------------------------
(* A small memory, and the DE2 memory map, for TLC. *)
EXTENDS NativeBuses
=============================================================================
