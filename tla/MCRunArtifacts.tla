---------------------------- MODULE MCRunArtifacts ----------------------------
(* Two jobs that start within a second or two. *)
EXTENDS RunArtifacts

CONSTANTS j1, j2

MCJobs == {j1, j2}

Ask(command, scenarios, live, from_history) ==
    [command |-> command, scenarios |-> scenarios, live |-> live,
     from_history |-> from_history]

MCRequests ==
    {Ask("run", 2, FALSE, FALSE), Ask("run-loop", 0, FALSE, FALSE),
     Ask("detect-contract", 0, TRUE, FALSE),
     Ask("run-prompt-loop", 0, FALSE, FALSE),
     Ask("run-prompt-loop", 0, TRUE, FALSE),
     Ask("agui-fixed", 1, FALSE, FALSE),
     Ask("agui-prompt-loop", 0, TRUE, TRUE)}

(* A scenario out of scope and one that is checked. *)
MCFixedGroups ==
    {<<"classification">>,
     <<"classification", "response", "trace", "state_trace", "checker">>}
=============================================================================
