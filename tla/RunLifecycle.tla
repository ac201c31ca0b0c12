----------------------------- MODULE RunLifecycle -----------------------------
(***************************************************************************)
(* What the host promises about the record of a run that can be looked up: *)
(* it does not exist before the run starts, it is settled at most once,    *)
(* and from then on every lookup gives the same answer.                    *)
(***************************************************************************)
CONSTANT Runs

VARIABLE status    \* what GET /api/runs/{run_id} answers for each run

Settled == {"completed", "failed", "cancelled"}

LifecycleInit == status = [r \in Runs |-> "not_found"]

Begin(r) ==
    /\ status[r] = "not_found"
    /\ status' = [status EXCEPT ![r] = "in_progress"]

Settle(r) ==
    /\ status[r] = "in_progress"
    /\ \E s \in Settled : status' = [status EXCEPT ![r] = s]

LifecycleNext == \E r \in Runs : Begin(r) \/ Settle(r)

LifecycleSpec == LifecycleInit /\ [][LifecycleNext]_status
=============================================================================
