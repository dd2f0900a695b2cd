------------------------- MODULE MCPicoSocFirmware --------------------------
(* Small instances of the demonstration firmware. *)
EXTENDS PicoSocFirmware

Keys   == {"enter", "0", "1", "2", "3", "4", "5", "6", "7", "9", "M", "S", "e", "!", "\n"}
Memory == [b \in BOARDS |-> IF b = "HX8KDEMO" THEN 8 ELSE 64]
=============================================================================
