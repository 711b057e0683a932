--------------------------- MODULE MCWebSession ----------------------------
(***************************************************************************)
(* WebSession for TLC: two tabs, a driver and an enforcement agent.        *)
(***************************************************************************)
EXTENDS WebSession, TLC

CONSTANTS driver, agent

MCBackendRole == driver :> "driver" @@ agent :> "enforcement_agent"
=============================================================================
