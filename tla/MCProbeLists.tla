----------------------------- MODULE MCProbeLists -----------------------------
(* The three probe buffers for TLC, with a few sets and ways. *)
EXTENDS ProbeLists

AllBuffers == {"L1", "L1I", "L3"}
===============================================================================
