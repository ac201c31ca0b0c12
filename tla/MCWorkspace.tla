----------------------------- MODULE MCWorkspace -----------------------------
(* Two observations of the workspace. *)
EXTENDS Workspace

CONSTANTS o1, o2

MCRuns == {o1, o2}

PostBody(mode, scenario_id, max_iterations, messages) ==
    [readable |-> TRUE, surfaces |-> FALSE, mode |-> mode,
     scenario_id |-> scenario_id, max_iterations |-> max_iterations,
     messages |-> messages]

(* The workspace posts fixed runs; its list of scenarios may be out of     *)
(* date.                                                                   *)
MCBodies ==
    {PostBody("fixed", "known", 1, <<>>), PostBody("fixed", "unheard_of", 1, <<>>)}
=============================================================================
