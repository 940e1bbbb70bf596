----------------------------- MODULE JobRunner -----------------------------
(***************************************************************************)
(* The persisted job queue (extension/kb/job-queue.mjs, migration 0055)    *)
(* and the runner that drains it (extension/kb/job-runner.mjs), as the     *)
(* command bus runs them: one runner per server process, swept at boot,    *)
(* stopped at shutdown, with the bus's orphan sweep                        *)
(* (extension/routes/bus/executor.mjs).                                    *)
(*                                                                         *)
(* Node runs one callback at a time and SQLite calls are synchronous, so   *)
(* each callback is one action, the trailing pump() included.  What does   *)
(* interleave: handler completions, the two timers of each execution,      *)
(* cancels, submissions, sweeps, shutdown and crashes.                     *)
(*                                                                         *)
(* Abstractions: a job's payload and result are left out; its id is its    *)
(* place in ORDER BY created_at, rowid; time is left out (a timer may fire *)
(* whenever it is armed, an orphan may be found stale at any sweep).       *)
(***************************************************************************)
EXTENDS Integers, FiniteSets

CONSTANTS
    Jobs,             \* ids, in creation order
    Users,
    UserOf, LaneOf,   \* UserOf[j] and LaneOf[j]: the columns of row j
    Handled,          \* jobs whose kind has an entry in the handler table
    Resumable,        \* jobs whose kind is registered with resumable: true
    MaxConcurrent,    \* createJobRunner's limit (3 in the bus)
    PerUserLimit,     \* perUserLimit (2 in the bus)
    MaxActivePerUser, \* MAX_ACTIVE_JOBS_PER_USER (100)
    MaxAttempts,      \* MAX_ATTEMPTS (3)
    DbErrors          \* which writes may throw: a subset of {"finish", "claim"}

ASSUME JobsAssumption == Jobs \subseteq Nat /\ IsFiniteSet(Jobs)
ASSUME RowAssumption == UserOf \in [Jobs -> Users]
ASSUME KindAssumption == Resumable \subseteq Handled /\ Handled \subseteq Jobs
ASSUME LimitAssumption ==
    /\ MaxConcurrent \in Nat \ {0} /\ PerUserLimit \in Nat \ {0}
    /\ MaxActivePerUser \in Nat \ {0} /\ MaxAttempts \in Nat \ {0}
ASSUME DbAssumption == DbErrors \subseteq {"finish", "claim"}

VARIABLES
    \* the jobs table: survives a crash
    state, attempts, cancelRequested, error,
    \* the process: lost with it
    phase,     \* "off" no process, "on" started, "stopping" stop() was called
    active,    \* keys of the runner's `active` map: the taken slots
    aborted,   \* executions whose AbortSignal has fired
    timer,     \* "armed" the deadline runs, "grace" it fired, "off" none or cleared
    working    \* executions whose handler has not returned, settled or not

rows == <<state, attempts, cancelRequested, error>>
process == <<phase, active, aborted, timer, working>>
vars == <<rows, process>>

Terminal == {"succeeded", "failed", "cancelled", "interrupted"}
States == {"absent", "queued", "running"} \cup Terminal
Errors == {"none", "threw", "no_handler", "timeout", "cancelled", "server_quit",
           "server_restarted", "too_many_attempts", "interrupted"}
Lane(j) == <<UserOf[j], LaneOf[j]>>
RowsIn(st, s) == {j \in Jobs : st[j] = s}

Init ==
    /\ state = [j \in Jobs |-> "absent"]
    /\ attempts = [j \in Jobs |-> 0]
    /\ cancelRequested = {}
    /\ error = [j \in Jobs |-> "none"]
    /\ phase = "off"
    /\ active = {} /\ aborted = {} /\ working = {}
    /\ timer = [j \in Jobs |-> "off"]

-----------------------------------------------------------------------------
(* Claiming: claimNextJobSystem, execute and the pump loop.                *)

(* Mutants: a claim that forgets the lane; one that lets a user have one   *)
(* job too many.                                                           *)
ClaimableAnyLane(st, held, taken, j) ==
    LET running == RowsIn(st, "running") \cup taken
    IN  /\ Cardinality({r \in running : UserOf[r] = UserOf[j]}) < PerUserLimit
        /\ Cardinality(held \cup taken) < MaxConcurrent
ClaimableOneTooMany(st, held, taken, j) ==
    LET running == RowsIn(st, "running") \cup taken
    IN  /\ \A r \in running : Lane(r) # Lane(j)
        /\ Cardinality({r \in running : UserOf[r] = UserOf[j]}) <= PerUserLimit
        /\ Cardinality(held \cup taken) < MaxConcurrent

(* claimNextJobSystem's WHERE clause and the loop's `active.size < limit`, *)
(* for job j when the jobs `taken` were claimed before it by this pump.    *)
Claimable(st, held, taken, j) ==
    LET running == RowsIn(st, "running") \cup taken
    IN  /\ \A r \in running : Lane(r) # Lane(j)
        /\ Cardinality({r \in running : UserOf[r] = UserOf[j]}) < PerUserLimit
        /\ Cardinality(held \cup taken) < MaxConcurrent

(* Mutant: the queue is read newest first.                                 *)
IsDrainNewestFirst(st, held, C) ==
    C = {j \in RowsIn(st, "queued") :
            Claimable(st, held, {k \in C \cap Handled : k > j}, j)}

(* The set one pump() claims from the rows `st` with the slots `held`      *)
(* taken.  The loop takes the oldest claimable row each time; claiming     *)
(* never makes an older row claimable, so a row is taken iff it is         *)
(* claimable given the older rows taken.  A kind with no handler is        *)
(* settled before execute() returns, so it blocks nobody after it.         *)
IsDrain(st, held, C) ==
    C = {j \in RowsIn(st, "queued") :
            Claimable(st, held, {k \in C \cap Handled : k < j}, j)}

(* The same loop cut short: C is what it had claimed, oldest first, when   *)
(* it went on to its next claim and that one threw.                        *)
Takes(st, held, C) ==
    /\ C \subseteq RowsIn(st, "queued")
    /\ \A j \in RowsIn(st, "queued") : (\E i \in C : j <= i) =>
           (j \in C <=> Claimable(st, held, {k \in C \cap Handled : k < j}, j))
IsCut(st, held, C) ==
    Takes(st, held, C) /\ Cardinality(held \cup (C \cap Handled)) < MaxConcurrent

(* The rows after C was claimed from rows `st` (errors `er`).              *)
ClaimRows(C, st, er) ==
    /\ state' = [j \in Jobs |-> IF j \notin C THEN st[j]
                                ELSE IF j \in Handled THEN "running" ELSE "failed"]
    /\ error' = [j \in Jobs |-> IF j \in C \ Handled THEN "no_handler" ELSE er[j]]
    /\ attempts' = [j \in Jobs |-> IF j \in C THEN attempts[j] + 1 ELSE attempts[j]]

(* ...and the process, with slots `held`, timers `tm` and live handlers    *)
(* `wk` before: execute() arms the deadline and starts the handler.  A     *)
(* kind with no handler fails at once, but its id enters `active` after    *)
(* its settle has already deleted it.                                      *)
Claim(C, st, er, held, tm, wk) ==
    /\ ClaimRows(C, st, er)
    /\ active' = held \cup C
    /\ timer' = [j \in Jobs |-> IF j \in C \cap Handled THEN "armed" ELSE tm[j]]
    /\ working' = wk \cup (C \cap Handled)

(* pump(): claims what fits; a no-op once stopping.                        *)
Pump(st, er, held, tm, wk) ==
    \E C \in SUBSET Jobs :
        /\ IF phase = "on" THEN IsDrain(st, held, C) ELSE C = {}
        /\ Claim(C, st, er, held, tm, wk)

(* pump() one of whose claims throws, its first or a later one.  A request *)
(* answers 500, a sweep logs, the promise of a settled handler rejects     *)
(* unseen: what was claimed before runs, and the process goes on.          *)
PumpThrows(st, er, held, tm, wk) ==
    /\ "claim" \in DbErrors /\ phase = "on"
    /\ \E C \in SUBSET Jobs : IsCut(st, held, C) /\ Claim(C, st, er, held, tm, wk)

PumpOrThrow(st, er, held, tm, wk) ==
    Pump(st, er, held, tm, wk) \/ PumpThrows(st, er, held, tm, wk)

(* The process ends: its map, signals, timers and handlers are gone.       *)
ProcessGone ==
    /\ phase' = "off"
    /\ active' = {} /\ aborted' = {} /\ working' = {}
    /\ timer' = [j \in Jobs |-> "off"]

-----------------------------------------------------------------------------
(* Requests.                                                               *)

(* enqueueJob and the pump() its caller makes: refused over the quota.     *)
Submit(j) ==
    /\ phase # "off" /\ state[j] = "absent"
    /\ \A k \in Jobs : k < j => state[k] # "absent"
    /\ Cardinality({k \in RowsIn(state, "queued") \cup RowsIn(state, "running") :
                        UserOf[k] = UserOf[j]}) < MaxActivePerUser
    /\ PumpOrThrow([state EXCEPT ![j] = "queued"], error, active, timer, working)
    /\ UNCHANGED <<cancelRequested, phase, aborted>>

(* runner.cancel: requestCancel, then abort when this process runs it.     *)
CancelQueued(j) ==
    /\ phase # "off" /\ state[j] = "queued"
    /\ state' = [state EXCEPT ![j] = "cancelled"]
    /\ error' = [error EXCEPT ![j] = "cancelled"]
    /\ UNCHANGED <<attempts, cancelRequested, process>>

(* Mutant: the row is cancelled and its slot freed at once.                *)
CancelRunningAtOnce(j) ==
    /\ phase # "off" /\ state[j] = "running"
    /\ state' = [state EXCEPT ![j] = "cancelled"]
    /\ error' = [error EXCEPT ![j] = "cancelled"]
    /\ cancelRequested' = cancelRequested \cup {j}
    /\ aborted' = aborted \cup ({j} \cap active)
    /\ active' = active \ {j}
    /\ timer' = [timer EXCEPT ![j] = "off"]
    /\ UNCHANGED <<attempts, phase, working>>

CancelRunning(j) ==
    /\ phase # "off" /\ state[j] = "running"
    /\ cancelRequested' = cancelRequested \cup {j}
    /\ aborted' = aborted \cup ({j} \cap active)
    /\ UNCHANGED <<state, attempts, error, phase, active, timer, working>>

-----------------------------------------------------------------------------
(* One execution.                                                          *)

(* finishJobSystem(j, s, e): the rows after it, or as they were when the   *)
(* write throws (settle logs that and goes on).                            *)
Finished(j, s, e) ==
    {[st |-> [state EXCEPT ![j] = s], er |-> [error EXCEPT ![j] = e]]}
      \cup (IF "finish" \in DbErrors THEN {[st |-> state, er |-> error]} ELSE {})

(* How the end of a handler is recorded: the tail of execute()'s closure.  *)
Outcome(j, returned) ==
    CASE timer[j] = "grace" -> <<"failed", "timeout">>
      [] timer[j] # "grace" /\ j \in aborted ->
            <<"cancelled", IF phase = "stopping" THEN "server_quit" ELSE "cancelled">>
      [] OTHER -> IF returned THEN <<"succeeded", "none">> ELSE <<"failed", "threw">>

(* The handler returns or throws before anything settled its job.          *)
HandlerEnds(j, returned) ==
    /\ j \in working \cap active
    /\ \E r \in Finished(j, Outcome(j, returned)[1], Outcome(j, returned)[2]) :
           PumpOrThrow(r.st, r.er, active \ {j}, [timer EXCEPT ![j] = "off"], working \ {j})
    /\ UNCHANGED <<cancelRequested, phase, aborted>>

(* Mutant: settle without `if (settled) return`, the late result is kept.  *)
LateResultKept(j) ==
    /\ j \in working \ active
    /\ working' = working \ {j}
    /\ state' = [state EXCEPT ![j] = "succeeded"]
    /\ UNCHANGED <<attempts, cancelRequested, error, phase, active, aborted, timer>>

(* A handler that outlived its settled job ends: nothing else happens.     *)
LateResult(j) ==
    /\ j \in working \ active
    /\ working' = working \ {j}
    /\ UNCHANGED <<rows, phase, active, aborted, timer>>

(* The deadline fires: abort, and give the handler graceMs.                *)
TimeoutFires(j) ==
    /\ timer[j] = "armed"
    /\ timer' = [timer EXCEPT ![j] = "grace"]
    /\ aborted' = aborted \cup {j}
    /\ UNCHANGED <<rows, phase, active, working>>

(* Mutants: the settle does not pump; it keeps the slot; the second timer  *)
(* waits for the handler instead of settling.                              *)
GraceEndsNoPump(j) ==
    /\ timer[j] = "grace"
    /\ \E r \in Finished(j, "failed", "timeout") :
           Claim({}, r.st, r.er, active \ {j}, [timer EXCEPT ![j] = "off"], working)
    /\ UNCHANGED <<cancelRequested, phase, aborted>>
GraceEndsKeepsSlot(j) ==
    /\ timer[j] = "grace"
    /\ \E r \in Finished(j, "failed", "timeout") :
           Pump(r.st, r.er, active, [timer EXCEPT ![j] = "off"], working)
    /\ UNCHANGED <<cancelRequested, phase, aborted>>
GraceEndsNeverSettles(j) ==
    /\ timer[j] = "grace"
    /\ timer' = [timer EXCEPT ![j] = "off"]
    /\ UNCHANGED <<rows, phase, active, aborted, working>>

(* graceMs later the handler has still not ended: the job fails without it *)
(* and the handler goes on running, its result to be ignored.              *)
GraceEnds(j) ==
    /\ timer[j] = "grace"
    /\ \E r \in Finished(j, "failed", "timeout") :
           Pump(r.st, r.er, active \ {j}, [timer EXCEPT ![j] = "off"], working)
    /\ UNCHANGED <<cancelRequested, phase, aborted>>

(* The same, and the pump throws: nobody catches an exception thrown in a  *)
(* timer, so the uncaughtException handler exits the process, what it had  *)
(* claimed before left running.                                            *)
GraceEndsFatally(j) ==
    /\ timer[j] = "grace" /\ phase = "on" /\ "claim" \in DbErrors
    /\ \E r \in Finished(j, "failed", "timeout"), C \in SUBSET Jobs :
           IsCut(r.st, active \ {j}, C) /\ ClaimRows(C, r.st, r.er)
    /\ ProcessGone
    /\ UNCHANGED cancelRequested

-----------------------------------------------------------------------------
(* Boot, sweeps, shutdown, crash.                                          *)

(* Mutants: an off-by-one in the attempts; cancels forgotten.              *)
SweptOnceMore(j) ==
    CASE state[j] # "running" -> <<state[j], error[j]>>
      [] state[j] = "running" /\ j \in cancelRequested -> <<"cancelled", "cancelled">>
      [] state[j] = "running" /\ j \notin cancelRequested /\ j \notin Resumable ->
            <<"interrupted", "server_restarted">>
      [] OTHER -> IF attempts[j] > MaxAttempts THEN <<"failed", "too_many_attempts">>
                  ELSE <<"queued", error[j]>>
SweptForgetsCancel(j) ==
    CASE state[j] # "running" -> <<state[j], error[j]>>
      [] state[j] = "running" /\ j \notin Resumable -> <<"interrupted", "server_restarted">>
      [] OTHER -> IF attempts[j] >= MaxAttempts THEN <<"failed", "too_many_attempts">>
                  ELSE <<"queued", error[j]>>

(* sweepInterruptedSystem: what the boot sweep makes of row j.             *)
Swept(j) ==
    CASE state[j] # "running" -> <<state[j], error[j]>>
      [] state[j] = "running" /\ j \in cancelRequested -> <<"cancelled", "cancelled">>
      [] state[j] = "running" /\ j \notin cancelRequested /\ j \notin Resumable ->
            <<"interrupted", "server_restarted">>
      [] OTHER -> IF attempts[j] >= MaxAttempts THEN <<"failed", "too_many_attempts">>
                  ELSE <<"queued", error[j]>>
SweptState == [j \in Jobs |-> Swept(j)[1]]
SweptError == [j \in Jobs |-> Swept(j)[2]]

(* start(): sweep what a dead process left running, then drain.            *)
Boot ==
    /\ phase = "off" /\ phase' = "on"
    /\ \E C \in SUBSET Jobs :
           /\ IsDrain(SweptState, {}, C)
           /\ Claim(C, SweptState, SweptError, {}, timer, {})
    /\ UNCHANGED <<cancelRequested, aborted>>

(* start() one of whose claims throws: the rows are swept and the server   *)
(* runs without a bus until its next start.  The jobs claimed before the   *)
(* throw run on all the same, and each that ends pumps; no request and no  *)
(* sweep reaches them, which here they may (a superset of the behaviours). *)
BootThrows ==
    /\ phase = "off" /\ "claim" \in DbErrors
    /\ \E C \in SUBSET Jobs :
           /\ IsCut(SweptState, {}, C)
           /\ Claim(C, SweptState, SweptError, {}, timer, {})
           /\ phase' = IF C = {} THEN "off" ELSE "on"
    /\ UNCHANGED <<cancelRequested, aborted>>

(* reapOrphanedRunningSystem: the running rows this process does not hold; *)
(* a column `col` once those old enough to be stale are interrupted.       *)
Orphans == RowsIn(state, "running") \ active
Reaped(stale, col) == [j \in Jobs |-> IF j \in stale THEN "interrupted" ELSE col[j]]

(* sweepOrphans: reap, and if any was found pump the queue.                *)
SweepOrphans ==
    /\ phase = "on"
    /\ \E stale \in SUBSET Orphans :
           /\ stale # {}
           /\ PumpOrThrow(Reaped(stale, state), Reaped(stale, error), active, timer, working)
    /\ UNCHANGED <<cancelRequested, phase, aborted>>

(* stop(): no more pumping, every execution is aborted.                    *)
Stop ==
    /\ phase = "on" /\ phase' = "stopping"
    /\ aborted' = aborted \cup active
    /\ UNCHANGED <<rows, active, timer, working>>

(* The process exits: after stop(), which waits for its executions only    *)
(* 2 x graceMs + 500 ms, or in a crash at any point.                       *)
Exit == phase = "stopping" /\ ProcessGone /\ UNCHANGED rows
Crash == phase = "on" /\ ProcessGone /\ UNCHANGED rows

-----------------------------------------------------------------------------
JobStep(j) ==
    \/ Submit(j) \/ CancelQueued(j) \/ CancelRunning(j)
    \/ HandlerEnds(j, TRUE) \/ HandlerEnds(j, FALSE) \/ LateResult(j)
    \/ TimeoutFires(j) \/ GraceEnds(j) \/ GraceEndsFatally(j)

ProcessStep == Boot \/ BootThrows \/ SweepOrphans \/ Stop \/ Exit \/ Crash

Next == (\E j \in Jobs : JobStep(j)) \/ ProcessStep

Spec == Init /\ [][Next]_vars

(* What the process does unasked: timers fire, the sweep interval runs,    *)
(* a stopping process exits and the supervisor starts a new one.  Nothing  *)
(* is assumed of handlers, clients or crashes.                             *)
Fairness ==
    /\ \A j \in Jobs : WF_vars(TimeoutFires(j)) /\ WF_vars(GraceEnds(j))
    /\ WF_vars(SweepOrphans) /\ WF_vars(Exit) /\ WF_vars(Boot)

FairSpec == Spec /\ Fairness

-----------------------------------------------------------------------------
(* Safety.                                                                 *)

TypeOK ==
    /\ state \in [Jobs -> States]
    /\ attempts \in [Jobs -> Nat]
    /\ cancelRequested \subseteq Jobs
    /\ error \in [Jobs -> Errors]
    /\ phase \in {"off", "on", "stopping"}
    /\ active \subseteq Jobs /\ aborted \subseteq Jobs /\ working \subseteq Jobs
    /\ timer \in [Jobs -> {"off", "armed", "grace"}]

(* The lane lock: never two running rows of one user and lane, whatever    *)
(* the timers, failed writes, sweeps and restarts did before the claim.    *)
LaneLock ==
    \A j, k \in Jobs :
        state[j] = "running" /\ state[k] = "running" /\ Lane(j) = Lane(k) => j = k

(* No job waits without a reason: while the runner runs, every queued row  *)
(* is held back by a full runner, a busy lane or its user's share.  It is  *)
(* what makes pump() at the end of every handler enough: no timer ever     *)
(* looks at the queue again.                                               *)
WorkConserving ==
    phase = "on" =>
        \A j \in RowsIn(state, "queued") : ~Claimable(state, active, {}, j)

(* Between them, row and slot never disagree on a finished job: a slot is  *)
(* held only for a row that is running, so a settled job always gave its   *)
(* slot back (docs/spec/job-runner.md section 3, "the slot is always       *)
(* freed").                                                                *)
SlotFreed == \A j \in active : state[j] = "running"

(* ...and a running row no slot answers for exists only after its ending   *)
(* write threw: without such errors the orphan sweep finds nothing.        *)
RunningIsHeld ==
    "finish" \notin DbErrors /\ phase # "off" => RowsIn(state, "running") \subseteq active

(* No user runs more than its share and no more executions hold slots than *)
(* there are, restarts, orphans and nested pumps included.                 *)
FairShare ==
    /\ Cardinality(active) <= MaxConcurrent
    /\ \A u \in Users :
           Cardinality({j \in RowsIn(state, "running") : UserOf[j] = u}) <= PerUserLimit

(* A job whose kind is not resumable is started at most once, ever, across *)
(* crashes; a resumable one at most MaxAttempts times, so a job that kills *)
(* the server cannot crash-loop it.                                        *)
AttemptsBounded ==
    \A j \in Jobs :
        attempts[j] <= (IF j \in Resumable THEN MaxAttempts ELSE 1)

(* A handler still running after its job was settled was given up on by    *)
(* the deadline: a job recorded as succeeded, cancelled or still to run    *)
(* has no handler left behind that may act later.                          *)
OnlyTimedOutLinger ==
    \A j \in working \ active :
        j \in aborted /\ state[j] \in {"failed", "running", "interrupted"}

(* No job waits for something that cannot end: while one is queued, some   *)
(* execution has its deadline or its grace timer running, or some row is   *)
(* an orphan, which the minute sweep finds.  A client that never comes     *)
(* back and a handler that never returns block nobody for good.            *)
WaitsOnATimer ==
    phase = "on" /\ RowsIn(state, "queued") # {} =>
        Orphans # {} \/ \E j \in active : timer[j] # "off"

(* The queue as the command bus sees its one user's jobs (CommandBus has   *)
(* this as what a pump leaves behind): at most its share runs, and a row   *)
(* waits for its lane or because the share is exactly used up.             *)
ShareOrLane ==
    phase = "on" =>
        LET running == RowsIn(state, "running")
        IN  /\ Cardinality(running) <= PerUserLimit
            /\ \A j \in RowsIn(state, "queued") :
                   \/ Cardinality(running) = PerUserLimit
                   \/ \E k \in running : Lane(k) = Lane(j)

(* What docs/spec/command-bus.md section 4 says of lanes: "the runner's    *)
(* database lock allows one running job per user and lane, so two writers  *)
(* never touch one project at once".  The row is the lock; the writer is   *)
(* the handler, which the deadline frees the lane without.                 *)
OneWriterPerLane ==
    \A j, k \in working : Lane(j) = Lane(k) => j = k

(* What docs/spec/job-runner.md section 3 says of cancelling a running     *)
(* job: "the final state is `cancelled`" (unless its deadline passed       *)
(* first, the Timeout row of the same table).                              *)
CancelEndsCancelled ==
    \A j \in cancelRequested :
        state[j] \in Terminal => state[j] = "cancelled" \/ error[j] = "timeout"

-----------------------------------------------------------------------------
(* What a step may never do.                                               *)

(* A finished job never changes again: not by a late result, a sweep, a    *)
(* late cancel or a restart.                                               *)
FinishedStays ==
    [][\A j \in Jobs : state[j] \in Terminal =>
           state'[j] = state[j] /\ error'[j] = error[j]]_vars

(* Once a cancel was asked for, the job is never started again, crash or   *)
(* not.                                                                    *)
CancelledNeverReruns ==
    [][\A j \in cancelRequested : attempts'[j] = attempts[j]]_vars

(* A job is started only when no older job of its lane stays queued behind *)
(* it: writes to one project happen in the order they were asked for.      *)
LaneOrder ==
    [][\A j, k \in Jobs :
           attempts'[j] > attempts[j] /\ k < j /\ Lane(k) = Lane(j)
               => state'[k] # "queued"]_vars

(* How far row j has come: a start takes it further, and so does the       *)
(* requeue of a job that a dead process left running.                      *)
Rank(j) ==
    CASE state[j] = "absent"  -> 0
      [] state[j] = "queued"  -> 2 * attempts[j] + 1
      [] state[j] = "running" -> 2 * attempts[j]
      [] OTHER                -> 2 * MaxAttempts + 2

(* No row goes in circles: each change of it takes it further, up to a     *)
(* fixed end, so that whatever the crashes, each row changes at most       *)
(* 2 x MaxAttempts + 2 times.                                              *)
RowsMoveOn ==
    [][\A j \in Jobs :
           /\ Rank(j)' \in 0..(2 * MaxAttempts + 2)
           /\ state'[j] # state[j] \/ attempts'[j] # attempts[j] => Rank(j)' > Rank(j)]_vars

-----------------------------------------------------------------------------
(* Liveness (FairSpec).                                                    *)

(* Every job a user queued is eventually finished: hung handlers, crashes, *)
(* failed writes and full lanes never hold it for good.                    *)
EveryJobEnds == \A j \in Jobs : state[j] = "queued" ~> state[j] \in Terminal

(* The queue keeps the promise of JobLifecycle.                            *)
Lifecycle == INSTANCE JobLifecycle WITH LaneOf <- [j \in Jobs |-> Lane(j)]
KeepsLifecycle == Lifecycle!Spec
=============================================================================
