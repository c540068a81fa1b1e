---------------------------- MODULE MCAgentConfirm ----------------------------
(***************************************************************************)
(* Instances of AgentConfirm for TLC.                                      *)
(***************************************************************************)
EXTENDS AgentConfirm
================================================================================
