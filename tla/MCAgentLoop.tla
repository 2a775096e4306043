---------------------------- MODULE MCAgentLoop ----------------------------
(***************************************************************************)
(* Instances of AgentLoop: turns that are stopped, interrupted, compacted  *)
(* and cut short, with interrupts where the repair expects them            *)
(* (AgentLoop_turns) and anywhere (AgentLoop_interrupt).                   *)
(***************************************************************************)
EXTENDS AgentLoop
=============================================================================
