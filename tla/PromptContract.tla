---------------------------- MODULE PromptContract ----------------------------
(***************************************************************************)
(* The contract a free-form prompt is turned into before any loop runs:    *)
(* the consistency rules of schemas.PromptContract and the three ways      *)
(* prompt_contract_detector.py obtains one (from the history, from the     *)
(* mock fixtures, from the language model).  The texts of a contract are   *)
(* reduced to whether they are present.                                    *)
(***************************************************************************)
EXTENDS AuthorityProvenance, CheckerComparison, FiringPolicy

CONSTANT SkillAxis      \* the skill catalog: skill id -> declared axis

ASSUME SkillAxisAssumption ==
    /\ NoSkill \notin DOMAIN SkillAxis
    /\ \A s \in DOMAIN SkillAxis : SkillAxis[s] \in Axes

AuthoritySkill == "authority_scope_expansion"
FrameworkSkill == "safety_framework_escape_hatch"
InstructionSkill == "instruction_constraint_override"
RoleSkill == "role_protective_substitution"
PrincipalModelSkill == "principal_model_hallucination"

NoAxis == "no_axis"

Statuses == {"contract_detected", "no_contract_detected", "unsupported"}

ContractShape ==
    [status : Statuses,
     boundary_detected : BOOLEAN,
     substitution_axis : Axes \cup {NoAxis},
     delegated_boundary : BOOLEAN,
     framework_specified : BOOLEAN,
     selected_skill_id : DOMAIN SkillAxis \cup {NoSkill}]

(* PromptContract.validate_status_consistency *)
ConsistentStatus(c) ==
    CASE c.status = "contract_detected" ->
            /\ c.boundary_detected
            /\ c.substitution_axis # NoAxis
            /\ c.delegated_boundary
            /\ c.selected_skill_id # NoSkill
      [] c.status = "no_contract_detected" ->
            /\ ~c.boundary_detected
            /\ c.substitution_axis = NoAxis
            /\ ~c.delegated_boundary
            /\ ~c.framework_specified
            /\ c.selected_skill_id = NoSkill
      [] c.status = "unsupported" ->
            /\ c.boundary_detected
            /\ c.selected_skill_id = NoSkill
            /\ c.delegated_boundary => c.substitution_axis # NoAxis

(* _raise_for_axis_mismatch: a selected skill must declare the contract's  *)
(* axis; the detector raises otherwise and no contract exists.             *)
AxisMatches(c) ==
    c.selected_skill_id # NoSkill =>
        SkillAxis[c.selected_skill_id] = c.substitution_axis

Contract == {c \in ContractShape : ConsistentStatus(c) /\ AxisMatches(c)}

(* _mock_supported_or_unsupported, also used for the history's contract: a *)
(* boundary whose skill is not in the catalog is reported as unsupported.  *)
SupportedOrUnsupported(skill, axis, framework) ==
    LET available == skill \in DOMAIN SkillAxis
    IN  [status |-> IF available THEN "contract_detected" ELSE "unsupported",
         boundary_detected |-> TRUE,
         substitution_axis |-> axis,
         delegated_boundary |-> TRUE,
         framework_specified |-> framework,
         selected_skill_id |-> IF available THEN skill ELSE NoSkill]

ContractFromAuthorityProvenance ==
    SupportedOrUnsupported(AuthoritySkill, "authority", FALSE)

(* The fixtures of _mock_detect_prompt_contract, in the order they are     *)
(* tried.  A cue is a phrase, or a choice of phrases, the prompt contains. *)
Cues == {"typescript", "guarantee", "rust", "standard library", "cli",
         "without saving", "sending", "using tools", "late", "continue",
         "ten minutes", "without assuming", "reader"}

PromptFixture(cues, skill, axis, framework) ==
    [cues |-> cues, skill |-> skill, axis |-> axis, framework |-> framework]

Fixtures ==
    <<PromptFixture({"typescript", "guarantee"}, FrameworkSkill, "instruction", TRUE),
      PromptFixture({"rust", "standard library", "cli"},
                    InstructionSkill, "instruction", FALSE),
      PromptFixture({"without saving", "sending", "using tools"},
                    AuthoritySkill, "authority", FALSE),
      PromptFixture({"late", "continue", "ten minutes"}, RoleSkill, "role", FALSE),
      PromptFixture({"without assuming", "reader"}, PrincipalModelSkill, "model", FALSE)>>

NoContract ==
    [status |-> "no_contract_detected",
     boundary_detected |-> FALSE,
     substitution_axis |-> NoAxis,
     delegated_boundary |-> FALSE,
     framework_specified |-> FALSE,
     selected_skill_id |-> NoSkill]

Answers(i, prompt) ==
    /\ Fixtures[i].cues \subseteq prompt
    /\ \A k \in 1 .. i - 1 : ~(Fixtures[k].cues \subseteq prompt)

(* What a prompt with these cues may be answered: exactly one contract.    *)
MockContracts(prompt) ==
    {SupportedOrUnsupported(Fixtures[i].skill, Fixtures[i].axis, Fixtures[i].framework) :
        i \in {i \in DOMAIN Fixtures : Answers(i, prompt)}}
    \cup {c \in {NoContract} : \A i \in DOMAIN Fixtures : ~Answers(i, prompt)}

(* A catalog as shipped declares for the skills of the fixtures the axes   *)
(* the fixtures name.                                                      *)
CatalogFitsFixtures ==
    /\ AuthoritySkill \in DOMAIN SkillAxis => SkillAxis[AuthoritySkill] = "authority"
    /\ \A i \in DOMAIN Fixtures : Fixtures[i].skill \in DOMAIN SkillAxis =>
          SkillAxis[Fixtures[i].skill] = Fixtures[i].axis

(* The contracts detect_prompt_contract can return.  An ungranted agent    *)
(* proposal in the history decides the contract; otherwise the model may   *)
(* return any contract that passes the checks, and the fixtures answer     *)
(* with some of these (PromptContractProofs).  The set is empty when every *)
(* answer would raise.                                                     *)
DetectedContracts(provenance) ==
    IF HistorySupportsAuthorityContract(provenance)
    THEN {ContractFromAuthorityProvenance} \cap Contract
    ELSE Contract

IsSupported(c) == c.status = "contract_detected" /\ c.selected_skill_id # NoSkill
=============================================================================
