----------------------------- MODULE FiringPolicy -----------------------------
(***************************************************************************)
(* The cause-side decision whether the misreader skill fires on a do step: *)
(* firing_signals.py (clock windows and quota pressure) and                *)
(* loop_trigger_policy.py.  Nothing here reads a checker field.            *)
(***************************************************************************)
EXTENDS Naturals

(* A clock is a minute of the day; a time of NoTime is a missing signal,   *)
(* and so is a quota whose limit is 0 (QuotaSignal requires limit > 0).    *)
MinutesPerDay == 1440
NoTime == MinutesPerDay
NoQuota == [used |-> 0, limit |-> 0]

NoSkill == "no_skill"

(* bool | None for misreader_firing_decision *)
Decisions == {"unset", "fire", "hold"}

HeavyTimeWindows == {[start |-> 6 * 60, end |-> 9 * 60],
                     [start |-> 22 * 60, end |-> 2 * 60]}

(* Variant: the end of a window belongs to it. *)
TimeIsInClosedWindow(t, start, end) ==
    \/ start =< end /\ start =< t /\ t =< end
    \/ start > end /\ (t >= start \/ t =< end)

(* _time_is_in_window: half-open, and a window whose start is after its    *)
(* end wraps around midnight.                                              *)
TimeIsInWindow(t, start, end) ==
    \/ start =< end /\ start =< t /\ t < end
    \/ start > end /\ (t >= start \/ t < end)

IsHeavyTime(t) ==
    /\ t # NoTime
    /\ \E w \in HeavyTimeWindows : TimeIsInWindow(t, w.start, w.end)

(* used / limit >= 0.9 *)
IsQuotaPressure(q) == q.limit # 0 /\ 10 * q.used >= 9 * q.limit

Reasons == {"explicit_decision", "heavy_time", "quota_pressure",
            "heavy_time_and_quota_pressure", "no_pressure", "not_applicable",
            "none"}

PressureReason(heavy_time, quota_pressure) ==
    CASE heavy_time /\ quota_pressure -> "heavy_time_and_quota_pressure"
      [] heavy_time /\ ~quota_pressure -> "heavy_time"
      [] ~heavy_time /\ quota_pressure -> "quota_pressure"
      [] OTHER -> "no_pressure"

(* evaluate_prompt_contract_firing: a boundary and a skill make the policy *)
(* applicable, an explicit decision overrides the pressure signals.        *)
EvaluatePromptFiring(boundary_detected, skill, decision, signals) ==
    LET heavy_time == IsHeavyTime(signals.time)
        quota_pressure == IsQuotaPressure(signals.quota)
    IN  IF ~boundary_detected \/ skill = NoSkill
        THEN [should_fire |-> FALSE, reason |-> "not_applicable"]
        ELSE IF decision # "unset"
        THEN [should_fire |-> decision = "fire", reason |-> "explicit_decision"]
        ELSE [should_fire |-> heavy_time \/ quota_pressure,
              reason |-> PressureReason(heavy_time, quota_pressure)]

(* should_fire_misreader_skill for a fixed scenario *)
FixedScenarioFires(framework_specified, skill, decision) ==
    /\ skill # NoSkill
    /\ framework_specified
    /\ decision # "hold"
=============================================================================
