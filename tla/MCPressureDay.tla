----------------------------- MODULE MCPressureDay -----------------------------
(* A whole day, and a quota of ten that is used up and overdrawn. *)
EXTENDS PressureDay

MCSkill == "authority_scope_expansion"
=============================================================================
