--------------------------- MODULE PressureDayProofs ---------------------------
(***************************************************************************)
(* The firing policy agrees with the day for any quota, any skill and any  *)
(* amount of use.                                                          *)
(***************************************************************************)
EXTENDS PressureDay, TLAPS

(* What the observers know at a minute: the rush hours as ranges, and what *)
(* is left as a difference.                                                *)
RushIsOn == rush <=> (clock < 120 \/ (360 =< clock /\ clock < 540) \/ 1320 =< clock)

LeftIsTheRest == left = IF used < QuotaLimit THEN QuotaLimit - used ELSE 0

DayTyped ==
    /\ clock \in 0 .. 1439
    /\ rush \in BOOLEAN
    /\ used \in Nat
    /\ left \in Nat

DayInv == DayTyped /\ RushIsOn /\ LeftIsTheRest

(* A day begins in the rush hour of the night before.                      *)
LEMMA DayInvInitially == DayInit => DayInv
  <1> SUFFICES ASSUME DayInit PROVE DayInv
    OBVIOUS
  <1>1. DayTyped
    BY QuotaAssumption DEF DayInit, DayTyped
  <1>2. RushIsOn
    <2>1. clock < 120 /\ rush
      BY DEF DayInit
    <2> QED
      BY <2>1 DEF RushIsOn
  <1>3. LeftIsTheRest
    BY QuotaAssumption DEF DayInit, LeftIsTheRest
  <1> QED
    BY <1>1, <1>2, <1>3 DEF DayInv

(* A minute passes: the clock meets each edge of a range, or none.         *)
LEMMA MinuteKeeps == ASSUME DayInv, Minute PROVE DayInv'
  <1>1. clock' \in 0 .. 1439 /\ (clock' = clock + 1 \/ (clock = 1439 /\ clock' = 0))
    BY DEF DayInv, DayTyped, Minute, MinutesPerDay
  <1>2. clock' \in Begins <=> clock' = 360 \/ clock' = 1320
    BY DEF Begins
  <1>3. clock' \in Ends <=> clock' = 540 \/ clock' = 120
    BY DEF Ends
  <1>4. rush' <=> (clock' = 360 \/ clock' = 1320)
                  \/ (rush /\ ~(clock' = 540 \/ clock' = 120))
    <2>1. rush' <=> clock' \in Begins \/ (rush /\ clock' \notin Ends)
      BY Zenon DEF Minute
    <2> QED
      BY <1>2, <1>3, <2>1
  <1>5. rush' \in BOOLEAN
    BY Zenon DEF Minute
  <1>6. RushIsOn'
    <2> DEFINE on(t) == t < 120 \/ (360 =< t /\ t < 540) \/ 1320 =< t
    <2>1. rush <=> on(clock)
      BY DEF DayInv, RushIsOn
    <2>2. clock \in 0 .. 1439
      BY DEF DayInv, DayTyped
    <2>3. on(clock') <=> (clock' = 360 \/ clock' = 1320)
                         \/ (on(clock) /\ ~(clock' = 540 \/ clock' = 120))
      BY <1>1, <2>2
    <2> QED
      BY <1>4, <2>1, <2>3 DEF RushIsOn
  <1>7. LeftIsTheRest' /\ used' \in Nat /\ left' \in Nat
    BY DEF DayInv, DayTyped, Minute, LeftIsTheRest
  <1> QED
    BY <1>1, <1>5, <1>6, <1>7 DEF DayInv, DayTyped

(* One more is used, of what is left or over the limit.                    *)
LEMMA SpendKeeps == ASSUME DayInv, Spend PROVE DayInv'
  BY QuotaAssumption DEF DayInv, DayTyped, RushIsOn, LeftIsTheRest, Spend

(* The invariant is inductive.                                             *)
LEMMA DayInvInductive == DayInv /\ [DayNext]_dayVars => DayInv'
  <1> SUFFICES ASSUME DayInv, [DayNext]_dayVars PROVE DayInv'
    OBVIOUS
  <1>1. CASE UNCHANGED dayVars
    BY <1>1 DEF dayVars, DayInv, DayTyped, RushIsOn, LeftIsTheRest
  <1> QED
    BY <1>1, MinuteKeeps, SpendKeeps DEF DayNext

(* The windows are the rush hours: half-open, and one goes around          *)
(* midnight.                                                               *)
LEMMA WindowsAreRushHours ==
    ASSUME DayInv PROVE IsHeavyTime(clock) = rush
  <1> USE DEF DayInv, DayTyped, RushIsOn
  <1>1. clock # NoTime
    BY DEF NoTime, MinutesPerDay
  <1>2. TimeIsInWindow(clock, 6 * 60, 9 * 60) <=> 360 =< clock /\ clock < 540
    BY DEF TimeIsInWindow
  <1>3. TimeIsInWindow(clock, 22 * 60, 2 * 60) <=> clock >= 1320 \/ clock < 120
    BY DEF TimeIsInWindow
  <1>4. (\E w \in HeavyTimeWindows : TimeIsInWindow(clock, w.start, w.end))
        <=> TimeIsInWindow(clock, 6 * 60, 9 * 60)
            \/ TimeIsInWindow(clock, 22 * 60, 2 * 60)
    BY DEF HeavyTimeWindows
  <1>5. IsHeavyTime(clock) <=>
            clock < 120 \/ (360 =< clock /\ clock < 540) \/ 1320 =< clock
    BY <1>1, <1>2, <1>3, <1>4 DEF IsHeavyTime
  <1>6. IsHeavyTime(clock) \in BOOLEAN
    BY DEF IsHeavyTime
  <1> QED
    BY <1>5, <1>6

(* Nine tenths are used exactly when a tenth or less is left.              *)
LEMMA QuotaIsShort ==
    ASSUME DayInv
    PROVE  /\ IsQuotaPressure([used |-> used, limit |-> QuotaLimit]) = Short
           /\ IsQuotaPressure(NoQuota) = FALSE
  BY QuotaAssumption
  DEF DayInv, DayTyped, LeftIsTheRest, IsQuotaPressure, NoQuota, Short

(* At every moment of the day the policy says what the observers say.      *)
LEMMA DayInvImpliesPolicy == ASSUME DayInv PROVE PolicyFollowsTheDay
  <1> DEFINE metered == [used |-> used, limit |-> QuotaLimit]
  <1>1. rush \in BOOLEAN /\ Short \in BOOLEAN
    BY DEF DayInv, DayTyped, Short
  <1>2. Now.time = clock /\ Now.quota = metered
    BY DEF Now
  <1>3. NowUnmetered.time = clock /\ NowUnmetered.quota = NoQuota
    BY DEF NowUnmetered
  <1>4. IsHeavyTime(clock) = rush
    BY WindowsAreRushHours
  <1>5. IsQuotaPressure(metered) = Short /\ IsQuotaPressure(NoQuota) = FALSE
    BY QuotaIsShort
  <1>6. \A hour \in BOOLEAN, quota \in BOOLEAN :
            [should_fire |-> hour \/ quota, reason |-> PressureReason(hour, quota)]
            = Because(hour, quota)
    BY DEF PressureReason, Because
  <1>7. EvaluatePromptFiring(TRUE, Skill, "unset", Now)
        = [should_fire |-> rush \/ Short, reason |-> PressureReason(rush, Short)]
    BY <1>2, <1>4, <1>5, SkillAssumption DEF EvaluatePromptFiring
  <1>8. EvaluatePromptFiring(TRUE, Skill, "unset", NowUnmetered)
        = [should_fire |-> rush \/ FALSE, reason |-> PressureReason(rush, FALSE)]
    BY <1>3, <1>4, <1>5, SkillAssumption DEF EvaluatePromptFiring
  <1> QED
    BY <1>1, <1>6, <1>7, <1>8 DEF PolicyFollowsTheDay

(* For every quota, every skill and every amount of use, at every minute   *)
(* of any number of days: no edge of a window and no edge of the quota is  *)
(* off by one.                                                             *)
THEOREM PolicyAlwaysFollowsTheDay == DaySpec => []PolicyFollowsTheDay
  <1>1. DayInv => PolicyFollowsTheDay
    BY DayInvImpliesPolicy
  <1> QED
    BY <1>1, DayInvInitially, DayInvInductive, PTL DEF DaySpec
=============================================================================
