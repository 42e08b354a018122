--------------------------- MODULE MCAgentSessions ---------------------------
(***************************************************************************)
(* Two sessions, two operations, two ApproveStep or ResumeAgent calls and  *)
(* two approval requests per session.                                      *)
(***************************************************************************)
EXTENDS AgentSessions

CONSTANTS s1, s2, o1, o2, c1, c2

MCSessions == {s1, s2}
MCOps == {o1, o2}
MCCallers == {c1, c2}

OneSession == {s1}

=============================================================================
