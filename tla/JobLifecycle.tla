---------------------------- MODULE JobLifecycle ----------------------------
(***************************************************************************)
(* What the persisted job queue promises about a job, whatever the runner, *)
(* the timers, the crashes and the sweeps do: a job moves only along the   *)
(* edges of `After`, a finished job never moves again, and one lane of one *)
(* user never has two running rows.                                        *)
(*                                                                         *)
(* One step may move several jobs: in the code the call that ends one job  *)
(* also claims the next ones before it returns.                            *)
(*                                                                         *)
(* Source: extension/kb/migrations/0055_jobs.sql (the state CHECK and the  *)
(* partial unique index) and extension/kb/job-queue.mjs.                   *)
(***************************************************************************)
CONSTANTS
    Jobs,       \* the ids a client may ever submit
    LaneOf      \* LaneOf[j]: the (user, lane) pair of job j, the key of the lane lock

VARIABLE state  \* state[j]: the `state` column of row j, "absent" while there is no row

Terminal == {"succeeded", "failed", "cancelled", "interrupted"}
States == {"absent", "queued", "running"} \cup Terminal

(* The states a row may be in one atomic step later.                       *)
(* queued -> failed is a claim of a kind no handler serves: it is claimed  *)
(* and settled inside one pump.  running -> queued is the boot sweep.      *)
After(s) ==
    CASE s = "absent"  -> {"absent", "queued", "running", "failed"}
      [] s = "queued"  -> {"queued", "running", "failed", "cancelled"}
      [] s = "running" -> {"running", "queued"} \cup Terminal
      [] OTHER         -> {s}

OneRunningPerLane(st) ==
    \A j, k \in Jobs :
        st[j] = "running" /\ st[k] = "running" /\ LaneOf[j] = LaneOf[k] => j = k

Init == state = [j \in Jobs |-> "absent"]

Next == /\ state' \in [Jobs -> States]
        /\ \A j \in Jobs : state'[j] \in After(state[j])
        /\ OneRunningPerLane(state')

Spec == Init /\ [][Next]_state
=============================================================================
