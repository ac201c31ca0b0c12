------------------------------ MODULE MCRunHost ------------------------------
(* Two runs of the host; the runs are interchangeable. *)
EXTENDS RunHost, TLC

CONSTANTS r1, r2

MCRuns == {r1, r2}
Symmetry == Permutations(MCRuns)

PostBody(mode, scenario_id, max_iterations, messages) ==
    [readable |-> TRUE, surfaces |-> FALSE, mode |-> mode,
     scenario_id |-> scenario_id, max_iterations |-> max_iterations,
     messages |-> messages]

Said(role, content) == [role |-> role, content |-> content]

(* One that is accepted in each mode; a scenario nobody knows, too many    *)
(* iterations, a history that ends with the agent and a blank turn.        *)
MCBodies ==
    {PostBody("fixed", "known", 1, <<>>),
     PostBody("prompt_loop", NoScenario, 3, <<Said("user", "text")>>),
     PostBody("fixed", "unheard_of", 1, <<>>),
     PostBody("prompt_loop", NoScenario, 4, <<Said("user", "text")>>),
     PostBody("prompt_loop", NoScenario, 1,
              <<Said("user", "text"), Said("assistant", "text")>>),
     PostBody("prompt_loop", NoScenario, 1, <<Said("user", "blank")>>)}
=============================================================================
