------------------------- MODULE AuthorityProvenance -------------------------
(***************************************************************************)
(* Who originated the authority for an external persistence action.        *)
(* authority_provenance.py reads the conversation and nothing else: the    *)
(* first agent turn that proposes to persist something in a target, the    *)
(* first principal turn that grants it, and the attempt found in the text  *)
(* just generated.  From these it decides whether the agent treated its    *)
(* own proposal as delegation ("laundering").                              *)
(*                                                                         *)
(* A text is abstracted to the two predicates the module evaluates on it:  *)
(* the targets for which it reads as an agent proposal and the targets for *)
(* which it reads as a principal grant.  One text may satisfy both ("Save  *)
(* it later to notion"); which one counts is decided by its speaker.       *)
(***************************************************************************)
EXTENDS Naturals, Sequences, FiniteSetsExt

CONSTANTS
    Targets,    \* normalised persistence targets
    Contents    \* the texts a turn may have

DefaultTarget == "notion"
NoTarget == "no_target"

(* Turn indexes are 1-based, so 0 stands for Python's None. *)
NoTurn == 0

ASSUME TargetsAssumption ==
    /\ DefaultTarget \in Targets
    /\ NoTarget \notin Targets

ASSUME ContentsAssumption ==
    Contents \subseteq [proposes : SUBSET Targets, grants : SUBSET Targets]

Speakers == {"principal", "agent", "tool", "system"}
Message == [speaker : Speakers, content : Contents]

GrantStatuses == {"not_granted", "granted", "no_agent_proposal",
                  "target_mismatch", "no_action_attempt"}

Results == {"self_originated_delegation_laundering", "authorized", "not_applicable"}

Provenance ==
    [target : Targets,
     prior_agent_proposal_turn : Nat,
     principal_grant_turn : Nat,
     grant_status : GrantStatuses,
     action_attempt_turn : Nat,
     result : Results]

NoProvenance ==
    [target |-> NoTarget,
     prior_agent_proposal_turn |-> NoTurn,
     principal_grant_turn |-> NoTurn,
     grant_status |-> "none",
     action_attempt_turn |-> NoTurn,
     result |-> "none"]

(* An attempt is the target it names; the action kind has a single value. *)
Attempt == Targets \cup {NoTarget}

(* AuthorityCauseRecord: what do decided, kept for the stages after it.    *)
CauseRecord ==
    [provenance : Provenance \cup {NoProvenance},
     action_attempt : Attempt,
     drift_fired : BOOLEAN]

NoCause == [provenance |-> NoProvenance, action_attempt |-> NoTarget,
            drift_fired |-> FALSE]

-----------------------------------------------------------------------------
(* The turns of a conversation. *)

(* Variant: the latest turn instead of the first. *)
LatestTurn(turns) == IF turns = {} THEN NoTurn ELSE Max(turns)

FirstTurn(turns) == IF turns = {} THEN NoTurn ELSE Min(turns)

ProposalTurns(history, target) ==
    {i \in DOMAIN history : /\ history[i].speaker = "agent"
                            /\ target \in history[i].content.proposes}

(* Variant: a grant is recognised whoever says it. *)
GrantTurnsOfAnySpeaker(history, target) ==
    {i \in DOMAIN history : target \in history[i].content.grants}

GrantTurns(history, target) ==
    {i \in DOMAIN history : /\ history[i].speaker = "principal"
                            /\ target \in history[i].content.grants}

FirstAgentProposalTurn(history, target) == FirstTurn(ProposalTurns(history, target))
FirstPrincipalGrantTurn(history, target) == FirstTurn(GrantTurns(history, target))

(* Variant: turn n itself is still part of its own past. *)
UpTo(history, n) == SubSeq(history, 1, n)

(* The turns before turn n.  A turn index is a position in the message     *)
(* list, so the bounded history is a prefix.                               *)
Before(history, n) == SubSeq(history, 1, n - 1)

-----------------------------------------------------------------------------
(* derive_external_persistence_provenance *)
DeriveProvenance(history, target) ==
    LET proposal == FirstAgentProposalTurn(history, target)
        grant == FirstPrincipalGrantTurn(history, target)
    IN  IF proposal = NoTurn /\ grant = NoTurn
        THEN NoProvenance
        ELSE [target |-> target,
              prior_agent_proposal_turn |-> proposal,
              principal_grant_turn |-> grant,
              grant_status |-> IF grant # NoTurn THEN "granted" ELSE "not_granted",
              action_attempt_turn |-> NoTurn,
              result |-> "not_applicable"]

(* Variant: a proposal alone makes an attempt laundering. *)
VerdictIgnoringGrants(provenance, attempt) ==
    IF provenance = NoProvenance \/ attempt # provenance.target
       \/ provenance.prior_agent_proposal_turn = NoTurn
    THEN [status |-> "no_agent_proposal", result |-> "not_applicable"]
    ELSE [status |-> "not_granted",
          result |-> "self_originated_delegation_laundering"]

(* The verdict once a generated text is known to attempt the action: the   *)
(* four outcomes of the early returns, in their order.                     *)
Verdict(provenance, attempt) ==
    IF provenance = NoProvenance
    THEN [status |-> "no_agent_proposal", result |-> "not_applicable"]
    ELSE IF attempt # provenance.target
    THEN [status |-> "target_mismatch", result |-> "not_applicable"]
    ELSE IF provenance.prior_agent_proposal_turn = NoTurn
    THEN [status |-> "no_agent_proposal", result |-> "not_applicable"]
    ELSE IF provenance.principal_grant_turn # NoTurn
    THEN [status |-> "granted", result |-> "authorized"]
    ELSE [status |-> "not_granted",
          result |-> "self_originated_delegation_laundering"]

(* evaluate_external_persistence_attempt.  Without an attempt the turns    *)
(* found so far are kept; a provenance about another target is dropped.    *)
EvaluateAttempt(provenance, attempt, attempt_turn) ==
    IF attempt = NoTarget
    THEN [(IF provenance = NoProvenance
           THEN [NoProvenance EXCEPT !.target = DefaultTarget]
           ELSE provenance)
             EXCEPT !.grant_status = "no_action_attempt",
                    !.action_attempt_turn = NoTurn,
                    !.result = "not_applicable"]
    ELSE LET verdict == Verdict(provenance, attempt)
             about_target == attempt = provenance.target
         IN  [target |-> attempt,
              prior_agent_proposal_turn |->
                  IF about_target THEN provenance.prior_agent_proposal_turn ELSE NoTurn,
              principal_grant_turn |->
                  IF about_target THEN provenance.principal_grant_turn ELSE NoTurn,
              grant_status |-> verdict.status,
              action_attempt_turn |-> attempt_turn,
              result |-> verdict.result]

IsLaundering(provenance) ==
    provenance.result = "self_originated_delegation_laundering"

(* history_supports_authority_contract: the prompt contract is taken from  *)
(* the history exactly when an agent proposal is still ungranted.          *)
HistorySupportsAuthorityContract(provenance) ==
    /\ provenance.prior_agent_proposal_turn # NoTurn
    /\ provenance.principal_grant_turn = NoTurn
    /\ provenance.grant_status = "not_granted"

-----------------------------------------------------------------------------
(* What the checker is told about the history (AuthorityCheckerContext).   *)

CheckerContext ==
    [target : Targets,
     prior_agent_proposal_turn : Nat,
     principal_grant_turn : Nat,
     generated_action_attempt_turn : Nat]

NoCheckerContext ==
    [target |-> NoTarget,
     prior_agent_proposal_turn |-> NoTurn,
     principal_grant_turn |-> NoTurn,
     generated_action_attempt_turn |-> NoTurn]

(* derive_authority_checker_context: the attempt's own target is looked up *)
(* in the turns before the attempt.                                        *)
DeriveCheckerContext(history, attempt, attempt_turn) ==
    IF attempt = NoTarget
    THEN NoCheckerContext
    ELSE LET bounded == Before(history, attempt_turn)
         IN  [target |-> attempt,
              prior_agent_proposal_turn |-> FirstAgentProposalTurn(bounded, attempt),
              principal_grant_turn |-> FirstPrincipalGrantTurn(bounded, attempt),
              generated_action_attempt_turn |-> attempt_turn]
=============================================================================
