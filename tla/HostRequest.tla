------------------------------ MODULE HostRequest ------------------------------
(***************************************************************************)
(* What the AG-UI host makes of the body of a POST /agui (agui_host.py,    *)
(* history_adapter.py): it is refused, or becomes the request of a run.    *)
(* A content is "text", "blank" after stripping, or "other" than a string. *)
(***************************************************************************)
EXTENDS Integers, Sequences

CONSTANTS
    KnownScenarios,     \* ids of the scenario files
    ScenariosLoad,      \* whether every one of these files can be loaded
    Bodies              \* the bodies that are posted

MAX_API_ITERATIONS == 3
NoScenario == "no_scenario"

SupportedRoles == {"user", "assistant", "tool", "system"}

(* readable: JSON and a RunAgentInput; surfaces: tools, context or         *)
(* forwarded properties of the client.                                     *)
Body ==
    [readable : BOOLEAN, surfaces : BOOLEAN,
     mode : STRING, scenario_id : KnownScenarios \cup {NoScenario, "unheard_of"},
     max_iterations : Int,
     messages : Seq([role : SupportedRoles \cup {"developer"},
                     content : {"text", "blank", "other"}])]

ASSUME ScenariosLoadAssumption == ScenariosLoad \in BOOLEAN
ASSUME BodiesAssumption == \A b \in Bodies : b \in Body

(* WhoseAgentOptions *)
ValidOptions(b) ==
    /\ b.mode \in {"fixed", "prompt_loop"}
    /\ b.max_iterations \in 1 .. MAX_API_ITERATIONS
    /\ b.mode = "fixed" <=> b.scenario_id # NoScenario

(* _canonical_messages_from_agui: some turns, none of them blank.  The     *)
(* host draws the message ids itself.                                      *)
CanonicalTurns(messages) ==
    /\ messages # <<>>
    /\ \A i \in DOMAIN messages :
          messages[i].role \in SupportedRoles /\ messages[i].content = "text"

(* current_principal_prompt *)
EndsWithThePrincipal(messages) == messages[Len(messages)].role = "user"

(* _execution_request_from_input.  A fixed run ignores the messages; it    *)
(* looks for its scenario in all of the files, and one that cannot be      *)
(* loaded refuses every fixed run.  Whatever fails, nothing is registered. *)
Acceptable(b) ==
    /\ b.readable /\ ~b.surfaces /\ ValidOptions(b)
    /\ b.mode = "fixed" => ScenariosLoad /\ b.scenario_id \in KnownScenarios
    /\ b.mode = "prompt_loop" =>
          CanonicalTurns(b.messages) /\ EndsWithThePrincipal(b.messages)
=============================================================================
