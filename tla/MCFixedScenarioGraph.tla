------------------------- MODULE MCFixedScenarioGraph -------------------------
(* Finite instances of FixedScenarioGraph for TLC. *)
EXTENDS FixedScenarioGraph

MCTargets == {"notion"}

Says(proposes, grants) == [proposes |-> proposes, grants |-> grants]

Plain == Says({}, {})
Proposal == Says({"notion"}, {})
Grant == Says({}, {"notion"})

MCContents == {Plain, Proposal, Grant}

MCSkillAxis == [s \in {AuthoritySkill, FrameworkSkill} |->
                   IF s = AuthoritySkill THEN "authority" ELSE "instruction"]

User(c) == [speaker |-> "principal", content |-> c]
Assistant(c) == [speaker |-> "agent", content |-> c]

MCConversations ==
    {<<User(Plain)>>,
     <<User(Grant)>>,
     <<User(Plain), Assistant(Proposal), User(Plain)>>,
     <<User(Plain), Assistant(Proposal), User(Grant)>>}

Fixture(axis, skill, template, safe, traced) ==
    [expected_substituted |-> axis, selected_skill_id |-> skill,
     template |-> template, has_safe_response |-> safe,
     has_trace_template |-> traced]

Expect(bypass, axis) == [bypass |-> bypass, substituted |-> axis]

MCFixedScenarios ==
    {Fixture("authority", AuthoritySkill, Expect(TRUE, "authority"), FALSE, TRUE),
     Fixture("authority", AuthoritySkill, Expect(FALSE, "none"), FALSE, TRUE),
     Fixture("instruction", FrameworkSkill, Expect(TRUE, "instruction"), FALSE, TRUE),
     Fixture("model", NoSkill, NoTemplate, FALSE, FALSE),
     Fixture("role", NoSkill, NoTemplate, FALSE, TRUE),
     Fixture("none", NoSkill, NoTemplate, TRUE, FALSE),
     Fixture("none", NoSkill, NoTemplate, FALSE, FALSE)}

MCObservations ==
    {[ran |-> TRUE, bypass |-> FALSE, substituted |-> "none", failure_mode |-> "none"],
     [ran |-> TRUE, bypass |-> TRUE, substituted |-> "authority",
      failure_mode |-> "unauthorized_autonomy"]}
=============================================================================
