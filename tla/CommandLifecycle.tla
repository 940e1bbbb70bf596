--------------------------- MODULE CommandLifecycle ---------------------------
(***************************************************************************)
(* What the command bus promises the clients that watch a command: the     *)
(* state they are shown moves along the edges of `After`, a final state is *)
(* final until the command is purged, and the event log ends with at most  *)
(* one terminal event, which says what became of the command.              *)
(*                                                                         *)
(* The state shown is bus_commands.state, or the job's for an enqueued     *)
(* command (shapeRow); the event is the row of job_events with terminal=1. *)
(***************************************************************************)
CONSTANT Cmds

VARIABLES
    shown,  \* shown[c]: the state GET /bus/commands/:id answers, "purged" once dropped
    told    \* told[c]: the verdict of the terminal event, "nothing" while there is none

Final == {"succeeded", "failed", "cancelled", "interrupted", "denied", "expired"}
States == {"absent", "awaiting_approval", "queued", "running", "purged"} \cup Final

(* A command may be purged in the very sweep that ends it, when the server *)
(* was off for longer than the retention.                                  *)
After(s) ==
    CASE s = "absent" -> {"absent", "awaiting_approval", "queued", "running"}
      [] s = "awaiting_approval" ->
            {"awaiting_approval", "queued", "running", "denied", "expired", "cancelled", "purged"}
      [] s = "queued" -> {"queued", "running", "cancelled"}
      [] s = "running" ->
            {"running", "succeeded", "failed", "cancelled", "interrupted", "purged"}
      [] s \in Final -> {s, "purged"}
      [] OTHER -> {s}

(* What the terminal event may say of a command that ended in state s.  A  *)
(* run aborted because the server quit is a cancelled row, told as         *)
(* server_restarted.                                                       *)
Verdicts(s) ==
    CASE s = "cancelled" -> {"cancelled", "server_restarted"}
      [] s = "denied" -> {"tier_denied"}
      [] s \in Final \ {"cancelled", "denied"} -> {s}
      [] OTHER -> {}

Init == shown = [c \in Cmds |-> "absent"] /\ told = [c \in Cmds |-> "nothing"]

Next ==
    /\ shown' \in [Cmds -> States]
    /\ \A c \in Cmds :
           /\ shown'[c] \in After(shown[c])
           /\ \/ told'[c] = told[c]
              \/ told[c] = "nothing" /\ told'[c] \in Verdicts(shown'[c])
    /\ told' = [c \in Cmds |-> told'[c]]

Spec == Init /\ [][Next]_<<shown, told>>
=============================================================================
