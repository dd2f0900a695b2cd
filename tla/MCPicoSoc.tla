----------------------------- MODULE MCPicoSoc ------------------------------
(* PicoSoC with the settings of the configuration register the README calls *)
(* valid; leaving Dual I/O with CRM is the subject of a run of its own.     *)
EXTENDS PicoSoc

\* cmd_benchmark_all of ICEBREAKER: every mode, without Dual I/O with CRM.
BenchmarkModes ==
    {set_flash_mode_spi, set_flash_mode_dual, set_flash_mode_quad, set_flash_mode_qddr,
     enable_flash_crm(set_flash_mode_quad), enable_flash_crm(set_flash_mode_qddr)}

Sends == <<<<0, 1>>, <<1, 1>>>>
Types == <<<<1, 0>>, <<0, 0>>>>

ValidModes == BenchmarkModes \cup {enable_flash_crm(set_flash_mode_dual)}
=============================================================================
