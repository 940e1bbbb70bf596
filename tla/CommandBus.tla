----------------------------- MODULE CommandBus -----------------------------
(***************************************************************************)
(* One user's commands on the command bus: received, gated, approved by    *)
(* the desktop or by a schedule's standing approval, handed to the job     *)
(* queue, re-checked before they work, told to their readers, purged       *)
(* (extension/routes/bus/executor.mjs, registry.mjs, schedules.mjs and     *)
(* extension/kb/bus-store.mjs, bus-schedules.mjs).                         *)
(*                                                                         *)
(* A command's life is spread over three tables (bus_commands, jobs and    *)
(* job_events) that several separate transactions keep in step: the steps  *)
(* of `DiesIn` are the points between two of them where the process may    *)
(* die, or where one of the writes may throw.                              *)
(*                                                                         *)
(* Node runs a request, a timer callback or a settled handler, with the    *)
(* pump() at its end, to completion: each is one action.  The runner is    *)
(* module JobRunner seen from here: a pump claims a set of queued jobs     *)
(* with free lanes that leaves nothing claimable; which set JobRunner      *)
(* decides by age, this module leaves open.  Deadlines appear as failures. *)
(*                                                                         *)
(* Abstractions: one user; args, results, engines and nonces are left out; *)
(* the non-terminal events are left out; ids name commands from the start, *)
(* so a resend of a known idempotency key is a step that changes nothing.  *)
(* The desktop's scheduler is external to the bus but for its key: it      *)
(* reads the clock, then asks (ui/screens/shell/approvals/scheduler.ts).   *)
(***************************************************************************)
EXTENDS Integers, FiniteSets

CONSTANTS
    Cmds, Schedules, Projects,
    KindOf, ClientOf,  \* bus_commands.kind and origin_client
    ProjectOf,         \* args.projectId, or None
    SlotOf,            \* the schedule whose `sched:<id>:<slot>` key c carries, or None
    InScope,           \* commands with the kind and the args of that schedule
    LaneOf,            \* laneFor(info, kind, args)
    Ttl,               \* ttlMs of the command
    StandingFor,       \* StandingFor[s]: how long s may approve by itself, 0 = never
    Interval,          \* intervalMs of the schedules
    Retention,         \* BUS_LIMITS.retentionDays (7)
    MaxPending,        \* BUS_LIMITS.maxPendingApprovals (20)
    MaxActive,         \* BUS_LIMITS.maxActiveCommands (20)
    PerUserLimit,      \* userLimit, the runner's share of one user (2)
    MaxNow,            \* bound of this model: the last instant
    DiesIn,            \* where a chain of writes may break, see Breaks:
                       \* a write throws, or the process dies before it
    None

Kinds == {"review", "sources.update"}
Clients == {"phone-pwa", "extension", "ios-native", "desktop-ui"}
Breaks == {"finish", "hook", "settle", "cancel", "expire", "boot", "sweep"}

ASSUME CommandAssumption ==
    /\ KindOf \in [Cmds -> Kinds] /\ ClientOf \in [Cmds -> Clients]
    /\ ProjectOf \in [Cmds -> Projects \cup {None}] /\ None \notin Projects
    /\ SlotOf \in [Cmds -> Schedules \cup {None}] /\ None \notin Schedules
    /\ InScope \subseteq Cmds /\ IsFiniteSet(Cmds)
ASSUME TimeAssumption ==
    /\ Ttl \in [Cmds -> Nat \ {0}] /\ StandingFor \in [Schedules -> Nat]
    /\ Interval \in Nat \ {0} /\ Retention \in Nat /\ MaxNow \in Nat
    /\ Interval <= Retention  \* SCHEDULE_LIMITS.maxIntervalMs is the retention, 7 days
ASSUME LimitAssumption ==
    /\ MaxPending \in Nat /\ MaxActive \in Nat /\ PerUserLimit \in Nat \ {0}
ASSUME BreakAssumption == DiesIn \subseteq Breaks

VARIABLES
    \* bus_commands
    cmd,        \* the state column; "absent" before and "purged" after the row
    approved,   \* commands with approved_by set
    via,        \* schedule_id: the schedule that approved the command, or None
    createdAt,
    slotAsked,  \* the slot in c's key, by the desktop's clock; -1 before
    decidedAt,  \* decided_at; nothing reads it, it is kept for schedules' runs only
    \* jobs; kept as it was when the row is purged
    job,        \* the state column, "absent" while there is no row
    cancelRequested,
    quit,       \* cancelled rows whose error is server_quit
    \* job_events
    told,       \* what the command's terminal event says
    \* bus_kind_flags, bus_schedules, the user's registered projects
    enabled, sched, until, lastRun, registered,
    \* the process
    phase,      \* "off", "on", or "stopping" after stop()
    held,       \* keys of the runner's `active` map
    doomed,     \* held jobs whose re-check failed: settled before any other callback
    now

commands == <<cmd, approved, via, createdAt, slotAsked, decidedAt>>
jobs == <<job, cancelRequested, quit>>
settings == <<enabled, sched, until, lastRun, registered>>
process == <<phase, held, doomed>>
vars == <<commands, jobs, told, settings, process, now>>

Terminal == {"succeeded", "failed", "cancelled", "interrupted"}
InJob(jb, s) == {c \in Cmds : jb[c] = s}
InCmd(s) == {c \in Cmds : cmd[c] = s}

Init ==
    /\ cmd = [c \in Cmds |-> "absent"] /\ approved = {}
    /\ via = [c \in Cmds |-> None]
    /\ createdAt = [c \in Cmds |-> 0] /\ decidedAt = [c \in Cmds |-> 0]
    /\ slotAsked = [c \in Cmds |-> -1]
    /\ job = [c \in Cmds |-> "absent"] /\ cancelRequested = {} /\ quit = {}
    /\ told = [c \in Cmds |-> "nothing"]
    /\ enabled = {} /\ registered = Projects
    /\ sched = [s \in Schedules |-> "new"]
    /\ until = [s \in Schedules |-> 0] /\ lastRun = [s \in Schedules |-> -1]
    /\ phase = "off" /\ held = {} /\ doomed = {} /\ now = 0

-----------------------------------------------------------------------------
(* The registry and the gates.                                             *)

TierOf(k) == IF k = "review" THEN "T0" ELSE "T1"
MayStart(client) ==
    CASE client = "phone-pwa" -> {"R"}
      [] client = "extension" -> {"R", "C"}
      [] client = "ios-native" -> {"R", "C", "T0", "T1", "T2"}
      [] OTHER -> {"R", "C", "T0", "T1", "T2", "D"}

(* decideReceipt, for the kinds this server can run.                       *)
DecideReceipt(client, kind, flagEnabled) ==
    CASE TierOf(kind) \notin MayStart(client) -> "tier_denied"
      [] TierOf(kind) \in MayStart(client)
            /\ (TierOf(kind) # "T0" \/ (client # "desktop-ui" /\ ~flagEnabled)) -> "needs_approval"
      [] OTHER -> "run"

Standing(s) == sched[s] = "live" /\ until[s] > now

(* Mutant: the re-check forgets the schedule behind the approval.          *)
MayWorkUnscheduled(c) ==
    /\ now <= createdAt[c] + Ttl[c]
    /\ TierOf(KindOf[c]) \in MayStart(ClientOf[c])
    /\ TierOf(KindOf[c]) # "T0" => c \in approved
    /\ TierOf(KindOf[c]) = "T0" /\ ClientOf[c] # "desktop-ui" /\ c \notin approved
           => KindOf[c] \in enabled
    /\ ProjectOf[c] # None => ProjectOf[c] \in registered

(* execute(): the permission re-check right before a handler works.        *)
MayWork(c) ==
    /\ now <= createdAt[c] + Ttl[c]
    /\ TierOf(KindOf[c]) \in MayStart(ClientOf[c])
    /\ TierOf(KindOf[c]) # "T0" => c \in approved
    /\ via[c] # None => Standing(via[c])
    /\ TierOf(KindOf[c]) = "T0" /\ ClientOf[c] # "desktop-ui" /\ c \notin approved
           => KindOf[c] \in enabled
    /\ ProjectOf[c] # None => ProjectOf[c] \in registered

-----------------------------------------------------------------------------
(* What the callbacks share.                                               *)

(* A pump() over the job rows jb: it leaves nothing claimable behind.      *)
IsDrain(jb, C) ==
    LET running == InJob(jb, "running") \cup C
    IN  /\ C \subseteq InJob(jb, "queued") /\ Cardinality(running) <= PerUserLimit
        /\ \A c \in C, d \in running : LaneOf[c] = LaneOf[d] => c = d
        /\ \A c \in InJob(jb, "queued") \ C :
               \/ Cardinality(running) = PerUserLimit
               \/ \E d \in running : LaneOf[d] = LaneOf[c]

(* The runner claims C out of the rows jb, holding hd; of these, what may  *)
(* not work once this callback is over (hence the prime) is doomed.        *)
Claim(C, jb, hd) ==
    /\ job' = [c \in Cmds |-> IF c \in C THEN "running" ELSE jb[c]]
    /\ held' = hd \cup C
    /\ doomed' = (doomed \cap hd) \cup {c \in C : ~MayWork(c)'}

Pump(jb, hd) ==
    \E C \in SUBSET Cmds :
        /\ IF phase = "on" THEN IsDrain(jb, C) ELSE C = {}
        /\ Claim(C, jb, hd)

ProcessGone == phase' = "off" /\ held' = {} /\ doomed' = {}

(* expireStale: the approvals nobody gave in time, with their events.      *)
Overdue == {c \in InCmd("awaiting_approval") : createdAt[c] + Ttl[c] < now}
CmdExpired(S) == [c \in Cmds |-> IF c \in S THEN "expired" ELSE cmd[c]]
ToldExpired(S) == [c \in Cmds |-> IF c \in S THEN "expired" ELSE told[c]]

(* terminalFor: what the terminal event says of a job that ended in s.     *)
TerminalFor(s, byQuit) == IF s = "cancelled" /\ byQuit THEN "server_restarted" ELSE s

(* Mutant: ensureTerminal that also speaks for a job asked to stop.        *)
EnsuredEarly(c, jb, tl) ==
    IF cmd[c] = "enqueued" /\ tl = "nothing" /\ (jb \in Terminal \/ c \in cancelRequested)
    THEN IF jb \in Terminal THEN TerminalFor(jb, c \in quit) ELSE "cancelled" ELSE tl

(* ensureTerminal: the event of command c, whose job is in state jb and    *)
(* whose log so far says tl.                                               *)
Ensured(c, jb, tl) ==
    IF cmd[c] = "enqueued" /\ jb \in Terminal /\ tl = "nothing"
    THEN TerminalFor(jb, c \in quit) ELSE tl

Serving == phase # "off" /\ doomed = {}

-----------------------------------------------------------------------------
(* Requests.                                                               *)

(* The scheduler's tick reads the clock, and with it the slot its key will *)
(* name.  The request follows any time later, after the list of the        *)
(* schedules and whatever held the desktop up, or never.                   *)
Ask(c) ==
    /\ SlotOf[c] # None /\ slotAsked[c] = -1
    /\ slotAsked' = [slotAsked EXCEPT ![c] = now \div Interval]
    /\ UNCHANGED <<cmd, approved, via, createdAt, decidedAt, jobs, told, settings, process, now>>

SameKey(c, d) ==
    SlotOf[c] # None /\ SlotOf[c] = SlotOf[d] /\ slotAsked[c] = slotAsked[d]

(* Mutant: an ended command no longer answers for its idempotency key.     *)
KnownKeyWhileOpen(c) ==
    \E d \in Cmds \ {c} : cmd[d] \in {"awaiting_approval", "enqueued"} /\ SameKey(c, d)

(* A row of the same schedule slot, found by its idempotency key: the      *)
(* request answers with that row and changes nothing.                      *)
KnownKey(c) == \E d \in Cmds \ {c} : cmd[d] \notin {"absent", "purged"} /\ SameKey(c, d)

(* Mutant: the approvals still waiting are left out of the active count.   *)
QuotaAllowsMorePending(needsApproval) ==
    /\ needsApproval => Cardinality(InCmd("awaiting_approval")) < MaxPending
    /\ Cardinality(InJob(job, "queued") \cup InJob(job, "running")) < MaxActive

(* createCommand's two quotas.                                             *)
QuotaAllows(needsApproval) ==
    LET pending == Cardinality(InCmd("awaiting_approval"))
    IN  /\ needsApproval => pending < MaxPending
        /\ Cardinality(InJob(job, "queued") \cup InJob(job, "running")) + pending < MaxActive

(* receive(): the gate, the project, the quotas, then the row and, when    *)
(* nobody has to approve it, its job in the same transaction and a pump.   *)
(* (The last conjunct keeps every deadline inside the model's time.)       *)
Receive(c) ==
    LET gate == DecideReceipt(ClientOf[c], KindOf[c], KindOf[c] \in enabled)
        needsApproval == gate = "needs_approval"
    IN  /\ Serving /\ cmd[c] = "absent" /\ gate # "tier_denied"
        /\ SlotOf[c] # None => slotAsked[c] # -1 /\ sched[SlotOf[c]] # "new"
        /\ ProjectOf[c] # None => ProjectOf[c] \in registered
        /\ ~KnownKey(c) /\ QuotaAllows(needsApproval)
        /\ now + Ttl[c] < MaxNow
        /\ createdAt' = [createdAt EXCEPT ![c] = now]
        /\ UNCHANGED <<approved, via, slotAsked, decidedAt>>
        /\ UNCHANGED <<cancelRequested, quit, told, settings, phase, now>>
        /\ IF needsApproval
           THEN cmd' = [cmd EXCEPT ![c] = "awaiting_approval"] /\ UNCHANGED <<job, held, doomed>>
           ELSE /\ cmd' = [cmd EXCEPT ![c] = "enqueued"]
                /\ Pump([job EXCEPT ![c] = "queued"], held)

(* Mutant: the run is not recorded on its schedule.                        *)
EnqueueUnrecorded(c, s) ==
    /\ Serving /\ c \in InCmd("awaiting_approval") \ Overdue
    /\ cmd' = [CmdExpired(Overdue) EXCEPT ![c] = "enqueued"]
    /\ approved' = approved \cup {c} /\ via' = [via EXCEPT ![c] = s]
    /\ decidedAt' = IF s = None THEN decidedAt ELSE [decidedAt EXCEPT ![c] = now]
    /\ told' = ToldExpired(Overdue)
    /\ UNCHANGED <<createdAt, slotAsked, cancelRequested, quit, settings, phase, now>>
    /\ Pump([job EXCEPT ![c] = "queued"], held)

(* approve() past its refusals: overdue approvals expire first; a command  *)
(* still waiting is enqueued for whoever approved it, and a schedule's run *)
(* is recorded on the schedule, in one transaction; then a pump.           *)
Enqueue(c, s) ==
    /\ Serving /\ c \in InCmd("awaiting_approval") \ Overdue
    /\ cmd' = [CmdExpired(Overdue) EXCEPT ![c] = "enqueued"]
    /\ approved' = approved \cup {c} /\ via' = [via EXCEPT ![c] = s]
    /\ decidedAt' = IF s = None THEN decidedAt ELSE [decidedAt EXCEPT ![c] = now]
    /\ lastRun' = IF s = None THEN lastRun ELSE [lastRun EXCEPT ![s] = now]
    /\ told' = ToldExpired(Overdue)
    /\ UNCHANGED <<createdAt, slotAsked, cancelRequested, quit>>
    /\ UNCHANGED <<enabled, sched, until, registered, phase, now>>
    /\ Pump([job EXCEPT ![c] = "queued"], held)

(* A click on the desktop.                                                 *)
Approve(c) == Enqueue(c, None)

(* The desktop's scheduler, on schedule s: standingRefusal finds nothing.  *)
ApproveStanding(c, s) ==
    /\ Standing(s)
    /\ ClientOf[c] = "desktop-ui" /\ TierOf(KindOf[c]) = "T1"
    /\ c \in InScope /\ SlotOf[c] = s
    /\ lastRun[s] # -1 => 2 * (now - lastRun[s]) >= Interval
    /\ Enqueue(c, s)

(* deny(), on the desktop.                                                 *)
Deny(c) ==
    /\ Serving /\ cmd[c] = "awaiting_approval"
    /\ cmd' = [cmd EXCEPT ![c] = "denied"]
    /\ approved' = approved \cup {c}  \* the column holds whoever decided
    /\ told' = [told EXCEPT ![c] = "tier_denied"]
    /\ UNCHANGED <<via, createdAt, slotAsked, decidedAt, jobs, settings, process, now>>

(* Mutant: the cancel of a waiting command does not look at its state.     *)
CancelPendingAnyState(c) ==
    /\ Serving /\ cmd[c] \in {"awaiting_approval", "enqueued"}
    /\ cmd' = [cmd EXCEPT ![c] = "cancelled"]
    /\ told' = [told EXCEPT ![c] = "cancelled"]
    /\ UNCHANGED <<approved, via, createdAt, slotAsked, decidedAt, jobs, settings, process, now>>

(* cancel() of a command that still waits.                                 *)
CancelPending(c) ==
    /\ Serving /\ cmd[c] = "awaiting_approval"
    /\ cmd' = [cmd EXCEPT ![c] = "cancelled"]
    /\ told' = [told EXCEPT ![c] = "cancelled"]
    /\ UNCHANGED <<approved, via, createdAt, slotAsked, decidedAt, jobs, settings, process, now>>

(* cancel() of a queued job: the row, then the event, in two transactions. *)
(* The second may throw; a process that dies between them is this step and *)
(* then Crash or Exit.                                                     *)
CancelQueued(c) ==
    /\ Serving /\ cmd[c] = "enqueued" /\ job[c] = "queued"
    /\ job' = [job EXCEPT ![c] = "cancelled"]
    /\ \/ told' = [told EXCEPT ![c] = Ensured(c, "cancelled", told[c])]
       \/ "cancel" \in DiesIn /\ UNCHANGED told
    /\ UNCHANGED <<commands, cancelRequested, quit, settings, process, now>>

(* cancel() of a running job: asked to stop, its end will tell.            *)
CancelRunning(c) ==
    /\ Serving /\ cmd[c] = "enqueued" /\ job[c] = "running"
    /\ cancelRequested' = cancelRequested \cup {c}
    /\ UNCHANGED <<commands, job, quit, told, settings, process, now>>

(* A reader looks at command c (its row, or a tick of its event stream):   *)
(* overdue approvals expire and a missing terminal event is written.       *)
Read(c) ==
    /\ Serving /\ cmd[c] \notin {"absent", "purged"}
    /\ cmd' = CmdExpired(Overdue)
    /\ told' = [ToldExpired(Overdue) EXCEPT ![c] =
                    IF c \in Overdue THEN "expired" ELSE Ensured(c, job[c], told[c])]
    /\ UNCHANGED <<approved, via, createdAt, slotAsked, decidedAt, jobs, settings, process, now>>

-----------------------------------------------------------------------------
(* The end of a job.                                                       *)

(* How a held job may end.  A deadline makes it fail whatever was asked.   *)
Outcomes(c) ==
    IF c \in doomed THEN {"failed"}
    ELSE IF c \in cancelRequested \/ phase = "stopping" THEN {"cancelled", "failed"}
    ELSE {"succeeded", "failed"}

(* settle: finishJobSystem, then onSettled appends the event, then a pump. *)
(* The ending write may throw (the row stays running), the hook may throw  *)
(* (the row has no event), the process may die between the two.            *)
HandlerEnds(c) ==
    /\ c \in held /\ (doomed # {} => c \in doomed)
    /\ UNCHANGED <<commands, cancelRequested, settings, now>>
    /\ \/ \E s \in Outcomes(c) :
              LET byQuit == s = "cancelled" /\ phase = "stopping"
                  finished == [job EXCEPT ![c] = s]
              IN  /\ quit' = IF byQuit THEN quit \cup {c} ELSE quit
                  /\ \/ /\ told' = [told EXCEPT ![c] = IF @ = "nothing" THEN TerminalFor(s, byQuit) ELSE @]
                        /\ UNCHANGED phase /\ Pump(finished, held \ {c})
                     \/ /\ "hook" \in DiesIn
                        /\ UNCHANGED <<told, phase>> /\ Pump(finished, held \ {c})
                     \/ /\ "settle" \in DiesIn
                        /\ UNCHANGED told /\ job' = finished /\ ProcessGone
       \/ /\ "finish" \in DiesIn
          /\ UNCHANGED <<quit, told, phase>> /\ Pump(job, held \ {c})

-----------------------------------------------------------------------------
(* The server process and its minute sweep.                                *)

(* purgeOldCommandsSystem, after the expiry, over the job rows jb.         *)
Old(jb) ==
    {c \in Cmds : /\ createdAt[c] + Retention < now
                  /\ \/ cmd[c] \in {"denied", "expired", "cancelled"} \/ c \in Overdue
                     \/ cmd[c] = "enqueued" /\ jb[c] \in Terminal}

(* Mutant: the sweep writes no missing terminal events.                    *)
LogWithoutBackfill(jb) ==
    [c \in Cmds |-> IF c \in Old(jb) THEN told[c]
                    ELSE IF c \in Overdue THEN "expired" ELSE told[c]]

(* The log after expiring, purging and backfillTerminalsSystem (the events *)
(* of a purged command are gone; `told` keeps what they said).             *)
LogRepaired(jb) ==
    [c \in Cmds |-> IF c \in Old(jb) THEN told[c]
                    ELSE IF c \in Overdue THEN "expired" ELSE Ensured(c, jb[c], told[c])]

(* The tail of sweep(): expire, purge, backfill.                           *)
Maintain(jb) ==
    /\ cmd' = [c \in Cmds |-> IF c \in Old(jb) THEN "purged" ELSE CmdExpired(Overdue)[c]]
    /\ told' = LogRepaired(jb)
    /\ UNCHANGED <<approved, via, createdAt, slotAsked, decidedAt>>

(* Mutant: the reaper does not ask the runner what it holds.               *)
OrphansAndHeld == InJob(job, "running")

(* reapOrphanedRunningSystem: the running rows this process does not hold. *)
Orphans == InJob(job, "running") \ held
Reaped(stale) == [c \in Cmds |-> IF c \in stale THEN "interrupted" ELSE job[c]]
ReapAndPump(stale) ==
    IF stale = {} THEN UNCHANGED <<job, held, doomed>> ELSE Pump(Reaped(stale), held)

(* sweep(): reap the running rows nobody holds and have been so for long   *)
(* enough, pump if there was one, then expire, purge and backfill.         *)
Sweep ==
    /\ phase = "on" /\ doomed = {}
    /\ \E stale \in SUBSET Orphans :
           /\ Maintain(Reaped(stale))
           /\ UNCHANGED <<cancelRequested, quit, settings, phase, now>>
           /\ ReapAndPump(stale)

(* The process dies in a sweep that reaped, before it told anybody.        *)
SweepDies ==
    /\ "sweep" \in DiesIn /\ phase = "on" /\ doomed = {}
    /\ \E stale \in SUBSET Orphans : stale # {} /\ job' = Reaped(stale)
    /\ ProcessGone
    /\ UNCHANGED <<commands, cancelRequested, quit, told, settings, now>>

(* sweepOrphans' event of each reaped command, some of which may throw: it *)
(* goes on with the next, and pumps.                                       *)
ReapedTold(stale, untold) ==
    [c \in Cmds |-> IF c \in stale \ untold THEN Ensured(c, "interrupted", told[c]) ELSE told[c]]

(* A sweep cut short after the reaping: a later write throws, sweep() logs *)
(* it and leaves the rest to the next one.                                 *)
SweepThrows ==
    /\ "sweep" \in DiesIn /\ phase = "on" /\ doomed = {}
    /\ UNCHANGED <<commands, cancelRequested, quit, settings, phase, now>>
    /\ \E stale \in SUBSET Orphans : \E untold \in SUBSET stale :
           /\ stale # {} /\ ReapAndPump(stale)
           /\ told' = ReapedTold(stale, untold)

(* expireOne's second write throws for command c, the commands S already   *)
(* done: before a read or an approval, whose request fails, or in a sweep, *)
(* which has reaped before.  A process that dies there is this step, then  *)
(* Crash or Exit.                                                          *)
ExpireThrows(c) ==
    /\ "expire" \in DiesIn /\ Serving /\ c \in Overdue
    /\ \E S \in SUBSET (Overdue \ {c}) :
       \E stale \in SUBSET IF phase = "on" THEN Orphans ELSE {} :
           /\ cmd' = CmdExpired(S \cup {c})
           /\ told' = [d \in Cmds |-> IF d \in S THEN "expired" ELSE ReapedTold(stale, {})[d]]
           /\ UNCHANGED <<approved, via, createdAt, slotAsked, decidedAt>>
           /\ UNCHANGED <<cancelRequested, quit, settings, phase, now>>
           /\ ReapAndPump(stale)

(* sweepInterruptedSystem; no kind of the bus is resumable.                *)
Swept ==
    [c \in Cmds |-> IF job[c] # "running" THEN job[c]
                    ELSE IF c \in cancelRequested THEN "cancelled" ELSE "interrupted"]

(* start(): the runner sweeps and pumps, then the bus sweeps.              *)
Boot ==
    /\ phase = "off" /\ phase' = "on"
    /\ Maintain(Swept)
    /\ UNCHANGED <<cancelRequested, quit, settings, now>>
    /\ \E C \in SUBSET Cmds : IsDrain(Swept, C) /\ Claim(C, Swept, {})

(* The process dies again after the runner's start, before the bus's sweep.*)
BootDies ==
    /\ "boot" \in DiesIn /\ phase = "off"
    /\ \E C \in SUBSET Cmds :
           /\ C = {} \/ IsDrain(Swept, C)
           /\ job' = [c \in Cmds |-> IF c \in C THEN "running" ELSE Swept[c]]
    /\ UNCHANGED <<commands, cancelRequested, quit, told, settings, process, now>>

(* ...or the bus's sweep throws and is logged: what it had to repair waits *)
(* for the next one.                                                       *)
BootUnswept ==
    /\ "boot" \in DiesIn /\ phase = "off" /\ phase' = "on"
    /\ UNCHANGED <<commands, cancelRequested, quit, told, settings, now>>
    /\ \E C \in SUBSET Cmds : IsDrain(Swept, C) /\ Claim(C, Swept, {})

(* stop(): every execution is aborted, nothing more is pumped.             *)
Stop ==
    /\ phase = "on" /\ doomed = {} /\ phase' = "stopping"
    /\ UNCHANGED <<commands, jobs, told, settings, held, doomed, now>>

(* The process goes: after stop(), or in a crash.                          *)
Exit == phase = "stopping" /\ ProcessGone /\ UNCHANGED <<commands, jobs, told, settings, now>>
Crash == phase = "on" /\ ProcessGone /\ UNCHANGED <<commands, jobs, told, settings, now>>

-----------------------------------------------------------------------------
(* What else changes under a command that waits.                           *)

SwitchKind(k) ==
    /\ Serving /\ \E c \in Cmds : KindOf[c] = k /\ TierOf(k) = "T0"
    /\ enabled' = IF k \in enabled THEN enabled \ {k} ELSE enabled \cup {k}
    /\ UNCHANGED <<commands, jobs, told, sched, until, lastRun, registered, process, now>>

CreateSchedule(s) ==
    /\ Serving /\ sched[s] = "new"
    /\ sched' = [sched EXCEPT ![s] = "live"]
    /\ until' = [until EXCEPT ![s] = now + StandingFor[s]]
    /\ UNCHANGED <<commands, jobs, told, enabled, lastRun, registered, process, now>>

DeleteSchedule(s) ==
    /\ Serving /\ sched[s] = "live"
    /\ sched' = [sched EXCEPT ![s] = "gone"]
    /\ UNCHANGED <<commands, jobs, told, enabled, until, lastRun, registered, process, now>>

(* The user removes a project, or registers it again.                      *)
ToggleProject(p) ==
    /\ Serving
    /\ registered' = IF p \in registered THEN registered \ {p} ELSE registered \cup {p}
    /\ UNCHANGED <<commands, jobs, told, enabled, sched, until, lastRun, process, now>>

Tick ==
    /\ doomed = {} /\ now < MaxNow /\ now' = now + 1
    /\ UNCHANGED <<commands, jobs, told, settings, process>>

-----------------------------------------------------------------------------
CommandStep(c) ==
    \/ Ask(c) \/ Receive(c) \/ Approve(c) \/ (\E s \in Schedules : ApproveStanding(c, s))
    \/ Deny(c) \/ CancelPending(c) \/ CancelQueued(c) \/ CancelRunning(c)
    \/ Read(c) \/ HandlerEnds(c) \/ ExpireThrows(c)

SettingStep ==
    \/ \E k \in Kinds : SwitchKind(k)
    \/ \E s \in Schedules : CreateSchedule(s) \/ DeleteSchedule(s)
    \/ \E p \in Projects : ToggleProject(p)

ProcessStep ==
    \/ Sweep \/ SweepDies \/ SweepThrows \/ Boot \/ BootDies \/ BootUnswept
    \/ Stop \/ Exit \/ Crash \/ Tick

Next == (\E c \in Cmds : CommandStep(c)) \/ SettingStep \/ ProcessStep

Spec == Init /\ [][Next]_vars

(* Time passes, the sweep's interval and the supervisor do their work, and *)
(* a job that holds a slot ends: JobRunner's deadlines see to that.  A     *)
(* server that starts again and again gets through its sweep some time.    *)
FairSpec ==
    /\ Spec
    /\ WF_vars(Tick) /\ WF_vars(Sweep) /\ SF_vars(Boot) /\ WF_vars(Exit)
    /\ \A c \in Cmds : WF_vars(HandlerEnds(c))

-----------------------------------------------------------------------------
(* Properties.                                                             *)

CmdStates == {"absent", "awaiting_approval", "enqueued", "denied", "expired", "cancelled", "purged"}

TypeOK ==
    /\ cmd \in [Cmds -> CmdStates] /\ approved \subseteq Cmds
    /\ via \in [Cmds -> Schedules \cup {None}]
    /\ createdAt \in [Cmds -> Nat] /\ decidedAt \in [Cmds -> Nat]
    /\ slotAsked \in [Cmds -> Nat \cup {-1}]
    /\ job \in [Cmds -> {"absent", "queued", "running"} \cup Terminal]
    /\ cancelRequested \subseteq Cmds /\ quit \subseteq Cmds
    /\ told \in [Cmds -> Terminal \cup {"nothing", "server_restarted", "tier_denied", "expired"}]
    /\ enabled \subseteq Kinds /\ registered \subseteq Projects
    /\ sched \in [Schedules -> {"new", "live", "gone"}]
    /\ until \in [Schedules -> Nat] /\ lastRun \in [Schedules -> Nat \cup {-1}]
    /\ phase \in {"off", "on", "stopping"}
    /\ held \subseteq Cmds /\ doomed \subseteq held /\ now \in Nat

(* "A job exists only once a command may run" (bus-store.mjs:8): a job     *)
(* stands behind a command exactly when it was enqueued, whatever expiry,  *)
(* denial, cancel and approval raced before, and a T1 command was enqueued *)
(* only by an approval.                                                    *)
JobOnlyIfMayRun ==
    \A c \in Cmds :
        /\ cmd[c] \in {"absent", "awaiting_approval", "denied", "expired", "cancelled"}
               => job[c] = "absent"
        /\ cmd[c] = "enqueued" => job[c] # "absent"
        /\ job[c] # "absent" /\ TierOf(KindOf[c]) # "T0" => c \in approved

(* The quota outlives its check: approvals turn into jobs, jobs are        *)
(* reclaimed by restarts and sweeps, and the user never has more open      *)
(* commands than one receipt may admit.                                    *)
QuotaHolds ==
    /\ Cardinality(InCmd("awaiting_approval")) <= MaxPending
    /\ Cardinality(InCmd("awaiting_approval") \cup InJob(job, "queued") \cup InJob(job, "running"))
           <= MaxActive

(* The key of a slot admits one run of it (docs/spec/command-bus.md        *)
(* section 9) as long as anybody asks in time: a second one only ever      *)
(* comes from a request that arrives when its slot is over, and finds the  *)
(* first run purged, through windows, restarts, expiries and sweeps.       *)
SlotRunsOnceInTime ==
    \A c, d \in Cmds :
        /\ c # d /\ cmd[c] # "absent" /\ cmd[d] # "absent" /\ SameKey(c, d)
        /\ createdAt[c] <= createdAt[d]
        => /\ createdAt[d] > createdAt[c] + Retention
           /\ createdAt[d] \div Interval > slotAsked[d]

(* Runs approved on one standing approval were approved at least half an   *)
(* interval apart, clicks, purges and restarts in between or not.          *)
StandingSpaced ==
    \A c, d \in Cmds :
        c # d /\ via[c] # None /\ via[c] = via[d] /\ decidedAt[c] <= decidedAt[d]
            => 2 * (decidedAt[d] - decidedAt[c]) >= Interval

(* A command that may not be worked any more, and never will be: its ttl   *)
(* has passed, or the schedule that approved it was deleted or its         *)
(* standing approval has run out.                                          *)
Barred(c) ==
    /\ cmd[c] # "absent"
    /\ now > createdAt[c] + Ttl[c] \/ (via[c] # None /\ ~Standing(via[c]))

(* What is barred before its handler got past the re-check never works and *)
(* never succeeds, be it approved late, waiting for its lane, claimed by a *)
(* pump of anybody's, orphaned or swept by a restart in between: deleting  *)
(* a schedule stops the runs it approved (docs/spec/command-bus.md         *)
(* section 9).                                                             *)
StaysOut(c) == Barred(c) /\ c \notin held \ doomed /\ job[c] # "succeeded"
BarredStaysOut == [][\A c \in Cmds : StaysOut(c) => StaysOut(c)']_vars

(* The state a caller is shown (shapeRow).                                 *)
Shown == [c \in Cmds |-> IF cmd[c] = "enqueued" THEN job[c] ELSE cmd[c]]

(* Command, job and log keep the promise of CommandLifecycle to a reader.  *)
Lifecycle == INSTANCE CommandLifecycle WITH shown <- Shown
KeepsPromise == Lifecycle!Spec

(* The log never says what is not so: the terminal event of a command that *)
(* is still there names the very end its row and job show.                 *)
EventTellsTheEnd ==
    \A c \in Cmds :
        told[c] # "nothing" /\ cmd[c] # "purged" => told[c] \in Lifecycle!Verdicts(Shown[c])

(* How far command c has come, as a caller sees it.                        *)
Rank(c) ==
    CASE Shown[c] = "absent" -> 0
      [] Shown[c] = "awaiting_approval" -> 1
      [] Shown[c] = "queued" -> 2
      [] Shown[c] = "running" -> 3
      [] Shown[c] \in Lifecycle!Final -> 4
      [] OTHER -> 5

(* No command goes back: what a caller is shown moves on, at most five     *)
(* times, whatever breaks.                                                 *)
CommandsMoveOn == [][\A c \in Cmds : Shown'[c] # Shown[c] => Rank(c)' > Rank(c)]_vars

(* One sweep, or one boot, repairs the log for everybody: no command that  *)
(* has ended is left without its event, save one whose expiry died between *)
(* its two writes.                                                         *)
SweepTells ==
    [][Sweep \/ Boot =>
          \A c \in Cmds : Shown'[c] \in Lifecycle!Final /\ told'[c] = "nothing"
              => "expire" \in DiesIn /\ cmd'[c] = "expired"]_vars

(* No command waits for nothing: while the runner runs, a queued one finds *)
(* its lane taken or the share used up, so that another one runs, and its  *)
(* end or its reaping pumps again.  No timer looks at the queue.           *)
QueueServed ==
    phase = "on" =>
        /\ IsDrain(job, {})
        /\ InJob(job, "queued") # {} => InJob(job, "running") # {}

(* The bus uses the queue as JobLifecycle allows.                          *)
Queue == INSTANCE JobLifecycle WITH Jobs <- Cmds, state <- job
KeepsLifecycle == Queue!Spec

(* Every received command is told its end, or was dropped for its age:     *)
(* lost events, dead processes and reaped jobs are made good.  It needs    *)
(* FairSpec.                                                               *)
EveryCommandIsTold ==
    \A c \in Cmds : cmd[c] # "absent" ~> told[c] # "nothing" \/ cmd[c] = "purged"
=============================================================================
