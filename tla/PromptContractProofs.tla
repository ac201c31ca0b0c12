------------------------ MODULE PromptContractProofs ------------------------
(***************************************************************************)
(* What is decided before a loop runs, for every set of targets, texts and *)
(* conversations and every part of the shipped catalog: what the operators *)
(* of AuthorityProvenance compute, and the contracts that are made without *)
(* a model.  The proofs about the graphs build on these lemmas.            *)
(***************************************************************************)
EXTENDS PromptContract, SequenceTheorems, WellFoundedInduction, TLAPS

-----------------------------------------------------------------------------
(* Short sequences. *)

(* Two elements in sequence. *)
LEMMA PairOf ==
    ASSUME NEW S, NEW a \in S, NEW b \in S
    PROVE  <<a, b>> \in Seq(S) /\ <<a>> \o <<b>> = <<a, b>>
  <1> DEFINE s == <<a>> \o <<b>>
             t == <<a, b>>
  <1>1. /\ s \in Seq(S) /\ Len(s) = 2 /\ s[1] = a /\ s[2] = b
    <2>1. <<a>> \in Seq(S) /\ <<b>> \in Seq(S)
      OBVIOUS
    <2> QED
      BY <2>1, ConcatProperties
  <1>2. t \in Seq(S) /\ Len(t) = 2 /\ t[1] = a /\ t[2] = b
    OBVIOUS
  <1> HIDE DEF s, t
  <1>3. s = t
    <2>1. \A i \in 1..Len(s) : s[i] = t[i]
      BY <1>1, <1>2
    <2> QED
      BY <1>1, <1>2, <2>1, SeqEqual
  <1> QED
    BY <1>2, <1>3 DEF s, t

(* Three elements in sequence. *)
LEMMA TripleOf ==
    ASSUME NEW S, NEW a \in S, NEW b \in S, NEW c \in S
    PROVE  <<a, b, c>> \in Seq(S) /\ <<a, b>> \o <<c>> = <<a, b, c>>
  <1> DEFINE s == <<a, b>> \o <<c>>
             t == <<a, b, c>>
  <1>1. /\ s \in Seq(S) /\ Len(s) = 3 /\ s[1] = a /\ s[2] = b /\ s[3] = c
    <2>1. <<a, b>> \in Seq(S) /\ <<c>> \in Seq(S)
      OBVIOUS
    <2> QED
      BY <2>1, ConcatProperties
  <1>2. t \in Seq(S) /\ Len(t) = 3 /\ t[1] = a /\ t[2] = b /\ t[3] = c
    OBVIOUS
  <1> HIDE DEF s, t
  <1>3. s = t
    <2>1. \A i \in 1..Len(s) : s[i] = t[i]
      BY <1>1, <1>2
    <2> QED
      BY <1>1, <1>2, <2>1, SeqEqual
  <1> QED
    BY <1>2, <1>3 DEF s, t

-----------------------------------------------------------------------------
(* The operators of AuthorityProvenance. *)

(* A nonempty set of naturals has a smallest element, which is Min's.      *)
LEMMA MinIsSmallest ==
    ASSUME NEW S \in SUBSET Nat, S # {}
    PROVE  /\ Min(S) \in S
           /\ \A y \in S : Min(S) =< y
  <1> DEFINE R == OpToRel(<, Nat)
  <1>1. IsWellFoundedOn(R, Nat)
    BY NatLessThanWellFounded
  <1> HIDE DEF R
  <1>2. PICK x \in S : \A y \in S : ~ (<<y, x>> \in R)
    BY <1>1, WFMin
  <1>3. \A y \in S : x =< y
    <2> SUFFICES ASSUME NEW y \in S
                 PROVE  x =< y
      OBVIOUS
    <2>1. <<y, x>> \in Nat \X Nat /\ ~ (y < x)
      BY <1>2 DEF R, OpToRel
    <2> QED
      BY <2>1
  <1> QED
    BY <1>3 DEF Min

(* FirstTurn returns a turn of a nonempty set, NoTurn for the empty one.   *)
LEMMA FirstTurnProperties ==
    ASSUME NEW turns \in SUBSET (Nat \ {0})
    PROVE  /\ FirstTurn(turns) \in Nat
           /\ turns = {} <=> FirstTurn(turns) = NoTurn
           /\ turns # {} => FirstTurn(turns) \in turns
           /\ \A t \in turns : FirstTurn(turns) =< t
  <1>1. CASE turns = {}
    BY <1>1 DEF FirstTurn, NoTurn
  <1>2. CASE turns # {}
    BY <1>2, MinIsSmallest DEF FirstTurn, NoTurn
  <1> QED
    BY <1>1, <1>2

(* The turns found in a conversation are positions of it. *)
LEMMA TurnsAreTurns ==
    ASSUME NEW history \in Seq(Message), NEW target
    PROVE  /\ ProposalTurns(history, target) \in SUBSET (Nat \ {0})
           /\ GrantTurns(history, target) \in SUBSET (Nat \ {0})
           /\ ProposalTurns(history, target) \subseteq 1..Len(history)
           /\ GrantTurns(history, target) \subseteq 1..Len(history)
  <1>1. DOMAIN history = 1..Len(history) /\ Len(history) \in Nat
    OBVIOUS
  <1> QED
    BY <1>1 DEF ProposalTurns, GrantTurns

(* One more agent turn adds no grant, and at most itself as a proposal.    *)
LEMMA AgentTurnAddsNoGrant ==
    ASSUME NEW history \in Seq(Message), NEW content \in Contents, NEW target
    PROVE  LET longer == Append(history, [speaker |-> "agent", content |-> content])
           IN  /\ longer \in Seq(Message)
               /\ Len(longer) = Len(history) + 1
               /\ \A i \in 1..Len(history) : longer[i] = history[i]
               /\ GrantTurns(longer, target) = GrantTurns(history, target)
               /\ ProposalTurns(history, target) \subseteq
                      ProposalTurns(longer, target)
               /\ ProposalTurns(longer, target) \subseteq
                      ProposalTurns(history, target) \cup {Len(history) + 1}
  <1> DEFINE m == [speaker |-> "agent", content |-> content]
             longer == Append(history, m)
  <1>1. m \in Message
    BY DEF Message, Speakers
  <1>2. /\ longer \in Seq(Message)
        /\ Len(longer) = Len(history) + 1
        /\ \A i \in 1..Len(history) : longer[i] = history[i]
        /\ longer[Len(history) + 1] = m
    BY <1>1
  <1>3. /\ DOMAIN history = 1..Len(history)
        /\ DOMAIN longer = 1..(Len(history) + 1)
        /\ Len(history) \in Nat
    BY <1>2
  <1> HIDE DEF longer
  <1>4. m.speaker = "agent" /\ m.speaker # "principal"
    OBVIOUS
  <1> HIDE DEF m
  <1>5. GrantTurns(longer, target) = GrantTurns(history, target)
    <2>1. ASSUME NEW i \in DOMAIN longer, longer[i].speaker = "principal"
          PROVE  i \in DOMAIN history /\ longer[i] = history[i]
      BY <1>2, <1>3, <1>4, <2>1
    <2> QED
      BY <1>2, <1>3, <2>1 DEF GrantTurns
  <1>6. /\ ProposalTurns(history, target) \subseteq ProposalTurns(longer, target)
        /\ ProposalTurns(longer, target) \subseteq
              ProposalTurns(history, target) \cup {Len(history) + 1}
    BY <1>2, <1>3 DEF ProposalTurns
  <1> QED
    BY <1>2, <1>5, <1>6 DEF longer, m

(* The proposal of record does not move when the agent speaks again.       *)
LEMMA FirstProposalIsStable ==
    ASSUME NEW history \in Seq(Message), NEW content \in Contents, NEW target,
           FirstAgentProposalTurn(history, target) # NoTurn
    PROVE  FirstAgentProposalTurn(
               Append(history, [speaker |-> "agent", content |-> content]), target)
             = FirstAgentProposalTurn(history, target)
  <1> DEFINE longer == Append(history, [speaker |-> "agent", content |-> content])
             P == ProposalTurns(history, target)
             Q == ProposalTurns(longer, target)
  <1>1. /\ longer \in Seq(Message)
        /\ P \subseteq Q
        /\ Q \subseteq P \cup {Len(history) + 1}
        /\ Len(history) \in Nat
    BY AgentTurnAddsNoGrant
  <1>2. /\ P \in SUBSET (Nat \ {0}) /\ Q \in SUBSET (Nat \ {0})
        /\ P \subseteq 1..Len(history)
    BY <1>1, TurnsAreTurns
  <1> HIDE DEF P, Q, longer
  <1>3. FirstTurn(P) # NoTurn
    BY DEF FirstAgentProposalTurn, P
  <1>4. /\ FirstTurn(P) \in P /\ FirstTurn(P) \in Nat
        /\ \A t \in P : FirstTurn(P) =< t
    BY <1>2, <1>3, FirstTurnProperties
  <1>5. /\ FirstTurn(Q) \in Q /\ FirstTurn(Q) \in Nat
        /\ \A t \in Q : FirstTurn(Q) =< t
    BY <1>1, <1>2, <1>4, FirstTurnProperties
  <1>6. FirstTurn(Q) =< FirstTurn(P)
    BY <1>1, <1>4, <1>5
  <1>7. FirstTurn(Q) \in P
    BY <1>1, <1>2, <1>4, <1>5, <1>6
  <1> QED
    BY <1>4, <1>5, <1>6, <1>7 DEF FirstAgentProposalTurn, P, Q, longer

(* What a history yields before any attempt: nothing exactly when nobody   *)
(* proposed or granted, otherwise the first turns, and no verdict yet.     *)
LEMMA DeriveProvenanceProperties ==
    ASSUME NEW history \in Seq(Message), NEW target \in Targets
    PROVE  LET p == DeriveProvenance(history, target)
           IN  /\ p \in Provenance \cup {NoProvenance}
               /\ p # NoProvenance =>
                     /\ p \in Provenance
                     /\ p.target = target
                     /\ p.prior_agent_proposal_turn =
                           FirstAgentProposalTurn(history, target)
                     /\ p.principal_grant_turn =
                           FirstPrincipalGrantTurn(history, target)
                     /\ p.result = "not_applicable"
               /\ p = NoProvenance <=>
                     /\ ProposalTurns(history, target) = {}
                     /\ GrantTurns(history, target) = {}
  <1> DEFINE proposal == FirstAgentProposalTurn(history, target)
             grant == FirstPrincipalGrantTurn(history, target)
  <1>1. /\ proposal \in Nat /\ grant \in Nat
        /\ proposal = NoTurn <=> ProposalTurns(history, target) = {}
        /\ grant = NoTurn <=> GrantTurns(history, target) = {}
    BY TurnsAreTurns, FirstTurnProperties
       DEF FirstAgentProposalTurn, FirstPrincipalGrantTurn
  <1> HIDE DEF proposal, grant
  <1>2. NoTurn \in Nat
    BY DEF NoTurn
  <1>3. CASE proposal = NoTurn /\ grant = NoTurn
    BY <1>1, <1>3 DEF DeriveProvenance, proposal, grant
  <1>4. CASE ~ (proposal = NoTurn /\ grant = NoTurn)
    <2> DEFINE p == [target |-> target,
                     prior_agent_proposal_turn |-> proposal,
                     principal_grant_turn |-> grant,
                     grant_status |-> IF grant # NoTurn
                                      THEN "granted" ELSE "not_granted",
                     action_attempt_turn |-> NoTurn,
                     result |-> "not_applicable"]
    <2>1. DeriveProvenance(history, target) = p
      BY <1>4 DEF DeriveProvenance, proposal, grant
    <2>2. p \in Provenance
      BY <1>1, <1>2 DEF Provenance, GrantStatuses, Results
    <2>3. p.target = target /\ target # NoTarget /\ NoProvenance.target = NoTarget
      BY TargetsAssumption DEF NoProvenance
    <2>4. p # NoProvenance
      BY <2>3
    <2>5. /\ p.prior_agent_proposal_turn = proposal
          /\ p.principal_grant_turn = grant
          /\ p.result = "not_applicable"
      OBVIOUS
    <2> HIDE DEF p
    <2> QED
      BY <1>1, <1>4, <2>1, <2>2, <2>3, <2>4, <2>5 DEF proposal, grant
  <1> QED
    BY <1>3, <1>4

(* An evaluated attempt always leaves a provenance behind, with one of the *)
(* declared statuses, and the turns of its own target only.                *)
LEMMA EvaluateAttemptProperties ==
    ASSUME NEW p \in Provenance \cup {NoProvenance}, NEW attempt \in Attempt,
           NEW turn \in Nat
    PROVE  LET q == EvaluateAttempt(p, attempt, turn)
           IN  /\ q \in Provenance
               /\ q # NoProvenance
               /\ q.prior_agent_proposal_turn # NoTurn =>
                     /\ p # NoProvenance
                     /\ q.target = p.target
                     /\ q.prior_agent_proposal_turn = p.prior_agent_proposal_turn
               /\ attempt # NoTarget =>
                     /\ q.target = attempt
                     /\ q.action_attempt_turn = turn
  <1> DEFINE q == EvaluateAttempt(p, attempt, turn)
  <1>1. NoTurn \in Nat /\ DefaultTarget \in Targets /\ NoTarget \notin Targets
    BY TargetsAssumption DEF NoTurn
  <1>2. CASE attempt = NoTarget /\ p = NoProvenance
    <2>1. q = [target |-> DefaultTarget,
               prior_agent_proposal_turn |-> NoTurn,
               principal_grant_turn |-> NoTurn,
               grant_status |-> "no_action_attempt",
               action_attempt_turn |-> NoTurn,
               result |-> "not_applicable"]
      BY <1>2 DEF EvaluateAttempt, NoProvenance
    <2>2. q \in Provenance
      BY <1>1, <2>1 DEF Provenance, GrantStatuses, Results
    <2>3. q.target # NoProvenance.target
      BY <1>1, <2>1 DEF NoProvenance
    <2>4. q.prior_agent_proposal_turn = NoTurn
      BY <2>1
    <2> QED
      BY <1>2, <2>2, <2>3, <2>4
  <1>3. CASE attempt = NoTarget /\ p # NoProvenance
    <2>1. p \in Provenance
      BY <1>3
    <2>2. q = [p EXCEPT !.grant_status = "no_action_attempt",
                        !.action_attempt_turn = NoTurn,
                        !.result = "not_applicable"]
      BY <1>3 DEF EvaluateAttempt
    <2>3. /\ q \in Provenance
          /\ q.target = p.target
          /\ q.prior_agent_proposal_turn = p.prior_agent_proposal_turn
      BY <1>1, <2>1, <2>2 DEF Provenance, GrantStatuses, Results
    <2>4. q.target # NoProvenance.target
      BY <1>1, <2>1, <2>3 DEF NoProvenance, Provenance
    <2> QED
      BY <1>3, <2>3, <2>4
  <1>4. CASE attempt # NoTarget
    <2> DEFINE v == Verdict(p, attempt)
               about == attempt = p.target
    <2>1. /\ attempt \in Targets
          /\ v.status \in GrantStatuses /\ v.result \in Results
      BY <1>4 DEF Attempt, Verdict, GrantStatuses, Results
    <2>2. q = [target |-> attempt,
               prior_agent_proposal_turn |->
                  IF about THEN p.prior_agent_proposal_turn ELSE NoTurn,
               principal_grant_turn |->
                  IF about THEN p.principal_grant_turn ELSE NoTurn,
               grant_status |-> v.status,
               action_attempt_turn |-> turn,
               result |-> v.result]
      BY <1>4 DEF EvaluateAttempt
    <2>3. p.prior_agent_proposal_turn \in Nat /\ p.principal_grant_turn \in Nat
      BY <1>1 DEF Provenance, NoProvenance
    <2> HIDE DEF v
    <2>4. q \in Provenance /\ q.target = attempt /\ q.action_attempt_turn = turn
      BY <1>1, <2>1, <2>2, <2>3 DEF Provenance
    <2>5. q # NoProvenance
      BY <1>4, <2>4 DEF NoProvenance
    <2>6. q.prior_agent_proposal_turn # NoTurn =>
             /\ attempt = p.target
             /\ q.prior_agent_proposal_turn = p.prior_agent_proposal_turn
      BY <2>2
    <2>7. attempt = p.target => p # NoProvenance
      BY <1>4 DEF NoProvenance
    <2> HIDE DEF q
    <2> QED
      BY <1>4, <2>4, <2>5, <2>6, <2>7 DEF q
  <1> HIDE DEF q
  <1> QED
    BY <1>2, <1>3, <1>4 DEF q

(* The verdict of a generated text: it is laundering exactly when it       *)
(* attempts the default target that the history proposed and nobody        *)
(* granted, and authorized exactly when somebody did grant it.             *)
LEMMA VerdictOfAnAttempt ==
    ASSUME NEW history \in Seq(Message), NEW attempt \in Attempt, NEW turn \in Nat
    PROVE  LET q == EvaluateAttempt(DeriveProvenance(history, DefaultTarget),
                                    attempt, turn)
           IN  /\ IsLaundering(q) <=>
                     /\ attempt = DefaultTarget
                     /\ ProposalTurns(history, DefaultTarget) # {}
                     /\ GrantTurns(history, DefaultTarget) = {}
               /\ q.result = "authorized" <=>
                     /\ attempt = DefaultTarget
                     /\ ProposalTurns(history, DefaultTarget) # {}
                     /\ GrantTurns(history, DefaultTarget) # {}
               /\ IsLaundering(q) =>
                     q.prior_agent_proposal_turn =
                        FirstAgentProposalTurn(history, DefaultTarget)
  <1> DEFINE p == DeriveProvenance(history, DefaultTarget)
             q == EvaluateAttempt(p, attempt, turn)
             proposal == FirstAgentProposalTurn(history, DefaultTarget)
             grant == FirstPrincipalGrantTurn(history, DefaultTarget)
  <1>1. /\ p \in Provenance \cup {NoProvenance}
        /\ p # NoProvenance =>
              /\ p.target = DefaultTarget
              /\ p.prior_agent_proposal_turn = proposal
              /\ p.principal_grant_turn = grant
              /\ p.result = "not_applicable"
        /\ p = NoProvenance <=>
              /\ ProposalTurns(history, DefaultTarget) = {}
              /\ GrantTurns(history, DefaultTarget) = {}
    BY DeriveProvenanceProperties, TargetsAssumption
  <1>2. /\ proposal = NoTurn <=> ProposalTurns(history, DefaultTarget) = {}
        /\ grant = NoTurn <=> GrantTurns(history, DefaultTarget) = {}
    BY TurnsAreTurns, FirstTurnProperties
       DEF FirstAgentProposalTurn, FirstPrincipalGrantTurn
  <1> HIDE DEF p, proposal, grant
  <1>3. CASE attempt = NoTarget
    <2>1. q.result = "not_applicable"
      BY <1>1, <1>3 DEF EvaluateAttempt, Provenance, NoProvenance
    <2>2. attempt # DefaultTarget
      BY <1>3, TargetsAssumption
    <2> QED
      BY <2>1, <2>2 DEF IsLaundering, p
  <1>4. CASE attempt # NoTarget
    <2>1. /\ q.result = Verdict(p, attempt).result
          /\ q.prior_agent_proposal_turn =
                IF attempt = p.target THEN p.prior_agent_proposal_turn ELSE NoTurn
      BY <1>4 DEF EvaluateAttempt
    <2> HIDE DEF q
    <2>2. CASE p = NoProvenance
      BY <1>1, <2>1, <2>2 DEF Verdict, IsLaundering, p, q
    <2>3. CASE p # NoProvenance /\ attempt # DefaultTarget
      <3>1. q.result = "not_applicable"
        BY <1>1, <2>1, <2>3 DEF Verdict
      <3> QED
        BY <2>3, <3>1 DEF IsLaundering, p, q
    <2>4. CASE p # NoProvenance /\ attempt = DefaultTarget
      <3>1. /\ q.result = IF proposal = NoTurn THEN "not_applicable"
                          ELSE IF grant # NoTurn THEN "authorized"
                          ELSE "self_originated_delegation_laundering"
            /\ q.prior_agent_proposal_turn = proposal
        BY <1>1, <2>1, <2>4 DEF Verdict
      <3> QED
        BY <1>2, <2>4, <3>1 DEF IsLaundering, p, q, proposal
    <2> QED
      BY <2>2, <2>3, <2>4
  <1> QED
    BY <1>3, <1>4

(* The provenance an attempt on the default target is recorded with names  *)
(* the first turns of the history it was evaluated from, also when that    *)
(* history yields none.                                                    *)
LEMMA AttemptOfTheDefaultTarget ==
    ASSUME NEW history \in Seq(Message), NEW turn \in Nat
    PROVE  LET q == EvaluateAttempt(DeriveProvenance(history, DefaultTarget),
                                    DefaultTarget, turn)
           IN  /\ q.prior_agent_proposal_turn =
                     FirstAgentProposalTurn(history, DefaultTarget)
               /\ q.principal_grant_turn =
                     FirstPrincipalGrantTurn(history, DefaultTarget)
               /\ q.action_attempt_turn = turn
  <1> DEFINE p == DeriveProvenance(history, DefaultTarget)
             q == EvaluateAttempt(p, DefaultTarget, turn)
             proposal == FirstAgentProposalTurn(history, DefaultTarget)
             grant == FirstPrincipalGrantTurn(history, DefaultTarget)
  <1>1. /\ p # NoProvenance =>
              /\ p.target = DefaultTarget
              /\ p.prior_agent_proposal_turn = proposal
              /\ p.principal_grant_turn = grant
        /\ p = NoProvenance => proposal = NoTurn /\ grant = NoTurn
    BY DeriveProvenanceProperties, TurnsAreTurns, FirstTurnProperties,
       TargetsAssumption DEF FirstAgentProposalTurn, FirstPrincipalGrantTurn
  <1>2. DefaultTarget # NoTarget
    BY TargetsAssumption
  <1> HIDE DEF p, proposal, grant
  <1>3. /\ q.prior_agent_proposal_turn =
              IF DefaultTarget = p.target THEN p.prior_agent_proposal_turn ELSE NoTurn
        /\ q.principal_grant_turn =
              IF DefaultTarget = p.target THEN p.principal_grant_turn ELSE NoTurn
        /\ q.action_attempt_turn = turn
    BY <1>2 DEF EvaluateAttempt
  <1> HIDE DEF q
  <1>4. p = NoProvenance => DefaultTarget # p.target
    BY <1>2 DEF NoProvenance
  <1> QED
    BY <1>1, <1>3, <1>4 DEF p, q, proposal, grant

-----------------------------------------------------------------------------
(* What the checker is told, what it reports, and the comparison. *)

(* The turns before the generated one are the history do decided by.       *)
LEMMA BeforeIsAHistory ==
    ASSUME NEW history \in Seq(Message), NEW n \in 1..(Len(history) + 1)
    PROVE  Before(history, n) \in Seq(Message)
  BY DEF Before

(* A history with one more turn is, before that turn, the history.         *)
LEMMA BeforeTheAppended ==
    ASSUME NEW history \in Seq(Message), NEW m \in Message
    PROVE  Before(Append(history, m), Len(Append(history, m))) = history
  <1> DEFINE longer == Append(history, m)
             n == Len(history)
  <1>1. /\ n \in Nat
        /\ longer \in Seq(Message)
        /\ Len(longer) = n + 1
        /\ \A i \in 1..n : longer[i] = history[i]
    OBVIOUS
  <1>2. Before(longer, n + 1) = [i \in 1..n |-> longer[i]]
    BY <1>1 DEF Before
  <1>3. history = [i \in 1..n |-> history[i]]
    OBVIOUS
  <1> QED
    BY <1>1, <1>2, <1>3

(* A context has turns or none at all. *)
LEMMA CheckerContextType ==
    ASSUME NEW history \in Seq(Message), NEW attempt \in Attempt,
           NEW turn \in 1..(Len(history) + 1)
    PROVE  DeriveCheckerContext(history, attempt, turn)
              \in CheckerContext \cup {NoCheckerContext}
  <1> DEFINE bounded == Before(history, turn)
  <1>1. bounded \in Seq(Message) /\ turn \in Nat
    BY BeforeIsAHistory
  <1>2. CASE attempt = NoTarget
    BY <1>2 DEF DeriveCheckerContext
  <1>3. CASE attempt # NoTarget
    <2>1. attempt \in Targets
      BY <1>3 DEF Attempt
    <2>2. /\ FirstAgentProposalTurn(bounded, attempt) \in Nat
          /\ FirstPrincipalGrantTurn(bounded, attempt) \in Nat
      BY <1>1, TurnsAreTurns, FirstTurnProperties
         DEF FirstAgentProposalTurn, FirstPrincipalGrantTurn
    <2> QED
      BY <1>1, <1>3, <2>1, <2>2 DEF DeriveCheckerContext, CheckerContext
  <1> QED
    BY <1>2, <1>3

(* A context about a target is read off the turns before the attempt.      *)
LEMMA ContextOfTheTarget ==
    ASSUME NEW history, NEW attempt, NEW turn,
           DeriveCheckerContext(history, attempt, turn).target = DefaultTarget
    PROVE  LET context == DeriveCheckerContext(history, attempt, turn)
           IN  /\ context.prior_agent_proposal_turn =
                     FirstAgentProposalTurn(Before(history, turn), DefaultTarget)
               /\ context.principal_grant_turn =
                     FirstPrincipalGrantTurn(Before(history, turn), DefaultTarget)
               /\ context.generated_action_attempt_turn = turn
  <1>1. DefaultTarget # NoTarget
    BY TargetsAssumption
  <1>2. attempt # NoTarget
    BY <1>1 DEF DeriveCheckerContext, NoCheckerContext
  <1> QED
    BY <1>2 DEF DeriveCheckerContext

(* A scenario's axis is one an observation may report, and has a failure   *)
(* mode.                                                                   *)
LEMMA DeclaredAxes ==
    /\ Axes \subseteq Substituted /\ "none" \in Substituted
    /\ \A s \in Substituted : ExpectedFailure[s] \in FailureModes
  BY DEF Axes, Substituted, FailureModes, ExpectedFailure

(* An observation, or none. *)
LEMMA ObservationType ==
    ASSUME NEW observation \in Observation \cup {NoObservation}
    PROVE  /\ observation.ran \in BOOLEAN
           /\ observation.bypass \in BOOLEAN
           /\ observation.substituted \in Substituted
  <1>1. CASE observation \in Observation
    BY <1>1 DEF Observation
  <1>2. CASE observation = NoObservation
    BY <1>2, DeclaredAxes DEF NoObservation
  <1> QED
    BY <1>1, <1>2

(* The comparison reports a declared outcome. *)
LEMMA CompareType ==
    ASSUME NEW source, NEW template, NEW fired \in BOOLEAN, NEW observation
    PROVE  /\ Compare(source, template, fired, observation).observation_outcome
                 \in Outcomes
           /\ Compare(source, template, fired, observation).matches_expected
                 \in BOOLEAN
  <1>1. ObservationOutcome(ExpectedBypass(source, template, fired),
                           observation.bypass) \in Outcomes
    BY DEF ObservationOutcome, Outcomes
  <1>2. MatchesExpected(source, template, fired, observation) \in BOOLEAN
    BY DEF MatchesExpected
  <1> QED
    BY <1>1, <1>2 DEF Compare, Outcomes

-----------------------------------------------------------------------------
(* The contracts that are made without a model: the fixtures and the       *)
(* history answer with contracts that pass every check.                    *)

(* A boundary whose skill, if it is installed, declares its axis is        *)
(* reported by a contract that passes the validator and the axis check.    *)
LEMMA ReportedBoundaryIsAContract ==
    ASSUME NEW skill, skill # NoSkill,
           NEW axis \in Axes,
           NEW framework \in BOOLEAN,
           skill \in DOMAIN SkillAxis => SkillAxis[skill] = axis
    PROVE  SupportedOrUnsupported(skill, axis, framework) \in Contract
  <1> DEFINE c == SupportedOrUnsupported(skill, axis, framework)
  <1>1. c \in ContractShape
    BY DEF SupportedOrUnsupported, ContractShape, Statuses
  <1>2. axis # NoAxis
    BY DEF Axes, NoAxis
  <1>3. ConsistentStatus(c)
    BY <1>2 DEF SupportedOrUnsupported, ConsistentStatus
  <1>4. AxisMatches(c)
    BY DEF SupportedOrUnsupported, AxisMatches
  <1> QED
    BY <1>1, <1>3, <1>4 DEF Contract

(* A prompt without a boundary has the contract that says so.              *)
LEMMA NoContractIsAContract == NoContract \in Contract
  BY DEF NoContract, Contract, ContractShape, Statuses, ConsistentStatus,
         AxisMatches

(* The fixtures of the detector: a mocked detection answers every prompt   *)
(* with exactly one contract, it is the one of the first fixture that      *)
(* matches, and no check raises: so a mocked run always gets past its      *)
(* detection, and the model's answers cover the fixtures'.                 *)
THEOREM FixturesAnswerOneContract ==
    ASSUME CatalogFitsFixtures, NEW prompt \in SUBSET Cues
    PROVE  /\ \E c : MockContracts(prompt) = {c}
           /\ MockContracts(prompt) \subseteq Contract
  <1> DEFINE Sound(f) == /\ f.skill # NoSkill
                         /\ f.axis \in Axes
                         /\ f.framework \in BOOLEAN
  <1>1. DOMAIN Fixtures = 1 .. 5
    BY DEF Fixtures
  <1>2. \A i \in DOMAIN Fixtures : Sound(Fixtures[i])
    <2>1. Sound(Fixtures[1])
      BY DEF Fixtures, PromptFixture, NoSkill, Axes, FrameworkSkill
    <2>2. Sound(Fixtures[2])
      BY DEF Fixtures, PromptFixture, NoSkill, Axes, InstructionSkill
    <2>3. Sound(Fixtures[3])
      BY DEF Fixtures, PromptFixture, NoSkill, Axes, AuthoritySkill
    <2>4. Sound(Fixtures[4])
      BY DEF Fixtures, PromptFixture, NoSkill, Axes, RoleSkill
    <2>5. Sound(Fixtures[5])
      BY DEF Fixtures, PromptFixture, NoSkill, Axes, PrincipalModelSkill
    <2> HIDE DEF Sound
    <2>6. \A i \in 1 .. 5 : i = 1 \/ i = 2 \/ i = 3 \/ i = 4 \/ i = 5
      OBVIOUS
    <2> QED
      BY <1>1, <2>1, <2>2, <2>3, <2>4, <2>5, <2>6
  <1>3. \A i \in DOMAIN Fixtures :
           SupportedOrUnsupported(Fixtures[i].skill, Fixtures[i].axis,
                                  Fixtures[i].framework) \in Contract
    BY <1>2, ReportedBoundaryIsAContract DEF CatalogFitsFixtures
  <1>4. MockContracts(prompt) \subseteq Contract
    BY <1>3, NoContractIsAContract DEF MockContracts
  <1>5. \E c : MockContracts(prompt) = {c}
    <2>1. CASE \A i \in DOMAIN Fixtures : ~Answers(i, prompt)
      BY <2>1 DEF MockContracts
    <2>2. CASE \E i \in DOMAIN Fixtures : Answers(i, prompt)
      <3>1. PICK i \in DOMAIN Fixtures : Answers(i, prompt)
        BY <2>2
      <3>2. \A k \in DOMAIN Fixtures : Answers(k, prompt) => k = i
        <4> SUFFICES ASSUME NEW k \in DOMAIN Fixtures, Answers(k, prompt), k # i
                     PROVE  FALSE
          OBVIOUS
        <4>1. k \in 1 .. i - 1 \/ i \in 1 .. k - 1
          BY <1>1
        <4> QED
          BY <3>1, <4>1 DEF Answers
      <3>3. {k \in DOMAIN Fixtures : Answers(k, prompt)} = {i}
        BY <3>1, <3>2
      <3>4. {c \in {NoContract} : \A k \in DOMAIN Fixtures : ~Answers(k, prompt)} = {}
        BY <3>1
      <3>5. MockContracts(prompt) =
               {SupportedOrUnsupported(Fixtures[i].skill, Fixtures[i].axis,
                                       Fixtures[i].framework)}
        BY <3>3, <3>4 DEF MockContracts
      <3> QED
        BY <3>5
    <2> QED
      BY <2>1, <2>2
  <1> QED
    BY <1>4, <1>5

(* detect_prompt_contract with a history: an ungranted agent proposal is   *)
(* enough for exactly one contract, which names the authority axis, and    *)
(* neither the validator nor the axis check stops it.                      *)
THEOREM HistoryAloneGivesTheContract ==
    ASSUME CatalogFitsFixtures, NEW provenance,
           HistorySupportsAuthorityContract(provenance)
    PROVE  /\ DetectedContracts(provenance) = {ContractFromAuthorityProvenance}
           /\ ContractFromAuthorityProvenance.substitution_axis = "authority"
  <1>1. AuthoritySkill # NoSkill
    BY DEF AuthoritySkill, NoSkill
  <1>2. ContractFromAuthorityProvenance \in Contract
    BY <1>1, ReportedBoundaryIsAContract
       DEF CatalogFitsFixtures, ContractFromAuthorityProvenance, Axes
  <1> QED
    BY <1>2 DEF DetectedContracts, ContractFromAuthorityProvenance,
                SupportedOrUnsupported
=============================================================================
