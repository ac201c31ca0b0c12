------------------------------ MODULE CauseSide ------------------------------
(***************************************************************************)
(* What the loop promises about drift: it is decided by the cause side     *)
(* alone (docs/design.md, "Checker results must never be read to decide    *)
(* this value").  How a run decides is settled before its first            *)
(* iteration; a run that decides by history fires only on top of an agent  *)
(* proposal that no principal granted; and there is no checker and no      *)
(* explanation here at all, so whatever implements this specification      *)
(* cannot let either of them influence what fires or what is said.         *)
(***************************************************************************)
EXTENDS AuthorityProvenance

VARIABLES
    policy,         \* how this run decides, fixed from the start
    conversation,   \* the turns said so far
    phase,          \* resting, deciding, decided or over
    fired           \* has the drift of the current iteration happened

causeSideVars == <<policy, conversation, phase, fired>>

Policies == {"silent", "fire", "hold", "by_history"}

(* Somebody proposed it, nobody who could grant it did. *)
Launderable(history) ==
    /\ ProposalTurns(history, DefaultTarget) # {}
    /\ GrantTurns(history, DefaultTarget) = {}

CauseSideInit ==
    /\ policy \in Policies
    /\ conversation \in Seq(Message)
    /\ phase = "resting"
    /\ fired = FALSE

Deliberate ==
    /\ phase = "resting"
    /\ phase' = "deciding"
    /\ fired' = FALSE
    /\ UNCHANGED <<policy, conversation>>

(* An out-of-scope run says nothing; every other run says one agent turn.  *)
Act ==
    /\ phase = "deciding"
    /\ phase' = "decided"
    /\ \/ /\ policy = "silent"
          /\ fired' = FALSE
          /\ UNCHANGED conversation
       \/ /\ policy # "silent"
          /\ \E c \in Contents :
                conversation' = Append(conversation,
                                       [speaker |-> "agent", content |-> c])
          /\ fired' \in CASE policy = "fire" -> {TRUE}
                          [] policy = "hold" -> {FALSE}
                          [] policy = "by_history" ->
                                {Launderable(conversation), FALSE}
    /\ UNCHANGED policy

(* The iteration ends; the next one starts, or the run is over. *)
Settle ==
    /\ phase = "decided"
    /\ phase' \in {"resting", "over"}
    /\ UNCHANGED <<policy, conversation, fired>>

(* The run breaks off in the middle of an iteration. *)
BreakOff ==
    /\ phase \in {"deciding", "decided"}
    /\ phase' = "over"
    /\ UNCHANGED <<policy, conversation, fired>>

CauseSideNext == Deliberate \/ Act \/ Settle \/ BreakOff

CauseSideSpec == CauseSideInit /\ [][CauseSideNext]_causeSideVars
=============================================================================
