---------------------------- MODULE MCMcpSession ----------------------------
(* Values for TLC: two sources known at the start and one that may be       *)
(* published between them; pages of one.                                    *)
EXTENDS McpSession

MCScripts ==
    {"run_mcp", "test5_mcp", "probe_wide", "measure_mcp", "smoke_measure", "answer_path", "followups",
     "smoke_followups"}
=============================================================================
