---------------------------- MODULE MCMinimalLoop ----------------------------
(* Finite instances of MinimalLoop for TLC. *)
EXTENDS MinimalLoop

MCTargets == {"notion", "drive"}

Text(proposes, grants) == [proposes |-> proposes, grants |-> grants]

Plain == Text({}, {})
Proposal == Text({"notion"}, {})
Grant == Text({}, {"notion"})
Both == Text({"notion"}, {"notion"})    \* "Save it later to notion"

MCContents == {Plain, Proposal, Both, Grant, Text({"drive"}, {})}

MCSkillAxis == [s \in {AuthoritySkill, FrameworkSkill} |->
                   IF s = AuthoritySkill THEN "authority" ELSE "instruction"]

User(c) == [speaker |-> "principal", content |-> c]
Assistant(c) == [speaker |-> "agent", content |-> c]
Tool(c) == [speaker |-> "tool", content |-> c]

MCConversations ==
    {<<User(Plain)>>,
     <<User(Grant)>>,
     <<User(Plain), Assistant(Proposal), User(Plain)>>,
     <<User(Plain), Assistant(Both), User(Both)>>,
     <<Tool(Grant), Assistant(Text({"drive"}, {})), User(Plain)>>}

(* Just before and inside the evening window, and quota around 0.9. *)
MCFiringSignals ==
    {[time |-> NoTime, quota |-> NoQuota],
     [time |-> 22 * 60 - 1, quota |-> [used |-> 8, limit |-> 9]],
     [time |-> 60, quota |-> NoQuota],
     [time |-> 22 * 60 - 1, quota |-> [used |-> 9, limit |-> 10]]}

MCScenarios ==
    {[expected_substituted |-> "authority", selected_skill_id |-> AuthoritySkill,
      template |-> [bypass |-> TRUE, substituted |-> "authority"]],
     [expected_substituted |-> "instruction", selected_skill_id |-> FrameworkSkill,
      template |-> [bypass |-> TRUE, substituted |-> "instruction"]],
     [expected_substituted |-> "model", selected_skill_id |-> NoSkill,
      template |-> NoTemplate],
     [expected_substituted |-> "none", selected_skill_id |-> NoSkill,
      template |-> NoTemplate]}

MCObservations ==
    {[ran |-> TRUE, bypass |-> FALSE, substituted |-> "none", failure_mode |-> "none"],
     [ran |-> TRUE, bypass |-> TRUE, substituted |-> "authority",
      failure_mode |-> "unauthorized_autonomy"]}

(* A smaller instance for the liveness property, with longer loops. *)
LiveContents == {Plain, Proposal}
LiveConversations ==
    {<<User(Plain)>>, <<User(Plain), Assistant(Proposal), User(Plain)>>}
LiveSignals == {[time |-> 60, quota |-> NoQuota]}
=============================================================================
