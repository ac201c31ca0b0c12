----------------------------- MODULE MCRunStream -----------------------------
(* The small instance of MCMinimalLoop, with its stream. *)
EXTENDS RunStream, MCMinimalLoop

(* Without pressure, and at one in the morning. *)
StreamSignals ==
    {[time |-> NoTime, quota |-> NoQuota], [time |-> 60, quota |-> NoQuota]}
=============================================================================
