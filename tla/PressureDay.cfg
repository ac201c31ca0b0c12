SPECIFICATION DaySpec
CONSTANTS
    Skill <- MCSkill
    QuotaLimit = 10
    MaxUsed = 12
INVARIANTS
    PolicyFollowsTheDay
