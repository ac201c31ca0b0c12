----------------------------- MODULE PressureDay -----------------------------
(***************************************************************************)
(* The firing policy over a day: the clock goes round minute by minute and *)
(* a quota is used up, while two observers that know nothing of windows    *)
(* and ratios keep track of the pressure.  A rush hour is switched on and  *)
(* off by the clock, and a quota is short when a tenth of it is left.      *)
(***************************************************************************)
EXTENDS FiringPolicy

CONSTANTS
    Skill,          \* the skill of the run that asks
    QuotaLimit,     \* what may be used
    MaxUsed         \* bound: what is used; it may exceed the limit

ASSUME QuotaAssumption == QuotaLimit \in Nat \ {0} /\ MaxUsed \in Nat

ASSUME SkillAssumption == Skill # NoSkill

VARIABLES
    clock,      \* a minute of the day
    rush,       \* has a rush hour begun that has not ended
    used,       \* what the quota signal reports as used
    left        \* what is left of the quota

dayVars == <<clock, rush, used, left>>

(* The rush hours: 6:00 to 9:00 and 22:00 to 2:00. *)
Begins == {6 * 60, 22 * 60}
Ends == {9 * 60, 2 * 60}

(* Any day follows another: at midnight the night's rush hour is on.       *)
DayInit ==
    /\ clock = 0
    /\ rush = TRUE
    /\ used = 0
    /\ left = QuotaLimit

Minute ==
    /\ clock' = (clock + 1) % MinutesPerDay
    /\ rush' = (clock' \in Begins \/ (rush /\ clock' \notin Ends))
    /\ UNCHANGED <<used, left>>

Spend ==
    /\ used < MaxUsed
    /\ used' = used + 1
    /\ left' = IF left = 0 THEN 0 ELSE left - 1
    /\ UNCHANGED <<clock, rush>>

DayNext == Minute \/ Spend

DaySpec == DayInit /\ [][DayNext]_dayVars

Short == 10 * left <= QuotaLimit

Now == [time |-> clock, quota |-> [used |-> used, limit |-> QuotaLimit]]
NowUnmetered == [time |-> clock, quota |-> NoQuota]

Because(hour, quota) ==
    [should_fire |-> hour \/ quota,
     reason |-> IF hour THEN IF quota THEN "heavy_time_and_quota_pressure"
                                      ELSE "heavy_time"
                ELSE IF quota THEN "quota_pressure" ELSE "no_pressure"]

(* At every minute and every level of use the policy, where it applies and *)
(* nobody has decided, says what the two observers say: no minute of a     *)
(* window is missed at its edges or around midnight, none is added, and a  *)
(* quota that is exactly at nine tenths counts as short.                   *)
PolicyFollowsTheDay ==
    /\ EvaluatePromptFiring(TRUE, Skill, "unset", Now) = Because(rush, Short)
    /\ EvaluatePromptFiring(TRUE, Skill, "unset", NowUnmetered) = Because(rush, FALSE)
=============================================================================
