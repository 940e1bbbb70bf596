------------------------ MODULE CommandBusRulesProofs ------------------------
(***************************************************************************)
(* The rules CommandBus keeps over many steps, for every set of commands,  *)
(* schedules, limits and times: lanes and edges of the queue, one run per  *)
(* slot, spacing of standing runs, what is barred, the quotas.             *)
(***************************************************************************)
EXTENDS CommandBusProofs, FiniteSetTheorems

-----------------------------------------------------------------------------
(* The shape of a step on the job rows: some rows jb stop running, one of  *)
(* them may succeed whose handler works, then a pump claims C.             *)

Settles(jb) ==
    \A c \in Cmds : /\ jb[c] = "running" => job[c] = "running"
                    /\ jb[c] = "succeeded" => job[c] = "succeeded" \/ c \in held \ doomed

StepTo(jb, C) ==
    /\ C = {} \/ IsDrain(jb, C)
    /\ Settles(jb)
    /\ job' = [c \in Cmds |-> IF c \in C THEN "running" ELSE jb[c]]
    /\ \A c \in held' \ (held \ doomed) : c \notin doomed' => MayWork(c)'

StepShape == \E jb \in [Cmds -> JobStates], C \in SUBSET Cmds : StepTo(jb, C)

LEMMA ClaimHasShape ==
    ASSUME NEW jb \in [Cmds -> JobStates], NEW C \in SUBSET Cmds, NEW hd \in SUBSET held,
           C = {} \/ IsDrain(jb, C), Claim(C, jb, hd), Settles(jb)
    PROVE  StepShape
<1>1. \A c \in held' \ (held \ doomed) : c \notin doomed' => MayWork(c)'
    BY DEF Claim
<1>2. job' = [c \in Cmds |-> IF c \in C THEN "running" ELSE jb[c]]
    BY DEF Claim
<1>3. StepTo(jb, C)
    BY <1>1, <1>2 DEF StepTo
<1> QED BY <1>3 DEF StepShape

LEMMA PumpHasShape ==
    ASSUME NEW jb \in [Cmds -> JobStates], NEW hd \in SUBSET held, TypeOK, Pump(jb, hd), Settles(jb)
    PROVE  StepShape
<1>1. PICK C \in SUBSET Cmds : (C = {} \/ IsDrain(jb, C)) /\ Claim(C, jb, hd)
    BY DEF Pump
<1> QED BY <1>1, ClaimHasShape

LEMMA QuietHasShape ==
    ASSUME TypeOK, job' \in [Cmds -> JobStates], held' \subseteq held,
           doomed \cap held' \subseteq doomed', Settles(job')
    PROVE  StepShape
<1>1. StepTo(job', {})
    BY DEF StepTo
<1> QED BY <1>1 DEF StepShape

LEMMA EveryStepHasShape ==
    ASSUME Inv, Next
    PROVE  StepShape
<1>a. TypeOK /\ TypeOK' /\ job \in [Cmds -> JobStates] /\ job' \in [Cmds -> JobStates]
    BY TypeStep DEF Inv, TypeOK, JobStates
<1> USE DEF TypeOK
<1>1. ASSUME NEW d \in Cmds, NEW s \in JobStates \ {"running", "succeeded"},
             NEW hd \in SUBSET held, Pump([job EXCEPT ![d] = s], hd)
      PROVE  StepShape
    <2>1. /\ [job EXCEPT ![d] = s] \in [Cmds -> JobStates]
          /\ Settles([job EXCEPT ![d] = s])
        BY <1>a DEF Settles
    <2> QED BY <1>1, <1>a, <2>1, PumpHasShape
<1>2. ASSUME NEW d \in Cmds, Receive(d) PROVE StepShape
    <2>1. CASE UNCHANGED <<job, held, doomed>>
        BY <1>a, <2>1, QuietHasShape DEF Settles
    <2>2. CASE Pump([job EXCEPT ![d] = "queued"], held)
        BY <1>1, <1>a, <2>2 DEF JobStates
    <2> QED BY <1>2, <2>1, <2>2 DEF Receive
<1>3. ASSUME NEW d \in Cmds, NEW s, Enqueue(d, s) PROVE StepShape
    BY <1>1, <1>3, <1>a DEF Enqueue, JobStates
<1>4. ASSUME NEW d \in Cmds, Ask(d) \/ Deny(d) \/ CancelPending(d) \/ CancelQueued(d)
                                \/ CancelRunning(d) \/ Read(d)
      PROVE  StepShape
    <2>1. UNCHANGED <<held, doomed>> /\ Settles(job')
        BY <1>4, <1>a DEF Ask, Deny, CancelPending, CancelQueued, CancelRunning, Read,
                          Settles, jobs, process
    <2> QED BY <1>a, <2>1, QuietHasShape
<1>11. ASSUME NEW stale \in SUBSET Orphans, ReapAndPump(stale) PROVE StepShape
    <2>1. Reaped(stale) \in [Cmds -> JobStates] /\ Settles(Reaped(stale)) /\ Settles(job)
        BY <1>a DEF Reaped, Settles, JobStates, Terminal
    <2>2. CASE stale = {}
        BY <1>11, <1>a, <2>1, <2>2, QuietHasShape DEF ReapAndPump
    <2>3. CASE stale # {}
        BY <1>11, <1>a, <2>1, <2>3, PumpHasShape DEF ReapAndPump
    <2> QED BY <2>2, <2>3
<1>5. ASSUME NEW d \in Cmds, HandlerEnds(d) PROVE StepShape
    <2>1. ASSUME NEW s \in JobStates \ {"running"}, s = "succeeded" => d \in held \ doomed
          PROVE  [job EXCEPT ![d] = s] \in [Cmds -> JobStates] /\ Settles([job EXCEPT ![d] = s])
        BY <1>a, <2>1 DEF Settles
    <2>2. ASSUME NEW s \in Outcomes(d),
                 \/ Pump([job EXCEPT ![d] = s], held \ {d})
                 \/ job' = [job EXCEPT ![d] = s] /\ ProcessGone
          PROVE  StepShape
        <3>1. s \in JobStates \ {"running"} /\ (s = "succeeded" => d \in held \ doomed)
            BY <1>5 DEF HandlerEnds, Outcomes, JobStates, Terminal
        <3>2. CASE Pump([job EXCEPT ![d] = s], held \ {d})
            <4>1. held \ {d} \in SUBSET held
                OBVIOUS
            <4> QED BY <1>a, <2>1, <3>1, <3>2, <4>1, PumpHasShape
        <3>3. CASE job' = [job EXCEPT ![d] = s] /\ ProcessGone
            <4>1. Settles(job') /\ held' = {}
                BY <2>1, <3>1, <3>3 DEF ProcessGone
            <4> QED BY <1>a, <4>1, QuietHasShape
        <3> QED BY <2>2, <3>2, <3>3
    <2>3. CASE Pump(job, held \ {d})
        <3>1. Settles(job) /\ held \ {d} \in SUBSET held
            BY DEF Settles
        <3> QED BY <1>a, <2>3, <3>1, PumpHasShape
    <2> QED BY <1>5, <2>2, <2>3 DEF HandlerEnds
<1>6. ASSUME SettingStep \/ SweepDies \/ Stop \/ Exit \/ Crash \/ Tick PROVE StepShape
    <2>1. /\ UNCHANGED <<held, doomed>> \/ held' = {}
          /\ Settles(job')
        BY <1>6, <1>a DEF SettingStep, SwitchKind, CreateSchedule, DeleteSchedule, ToggleProject,
               SweepDies, Reaped, Stop, Exit, Crash, Tick, ProcessGone, Settles, jobs, process
    <2> QED BY <1>a, <2>1, QuietHasShape
<1>7. ASSUME Sweep \/ SweepThrows \/ \E d \in Cmds : ExpireThrows(d) PROVE StepShape
    <2>1. \E stale \in SUBSET Orphans : ReapAndPump(stale)
        BY <1>7 DEF Sweep, SweepThrows, ExpireThrows
    <2> QED BY <1>11, <2>1
<1>8. Swept \in [Cmds -> JobStates] /\ Settles(Swept)
    BY <1>a DEF Swept, Settles, JobStates, Terminal
<1>9. ASSUME Boot \/ BootUnswept PROVE StepShape
    <2>1. PICK C \in SUBSET Cmds : IsDrain(Swept, C) /\ Claim(C, Swept, {})
        BY <1>9 DEF Boot, BootUnswept
    <2> QED BY <1>8, <2>1, ClaimHasShape
<1>10. ASSUME BootDies PROVE StepShape
    <2>1. PICK C \in SUBSET Cmds :
              /\ C = {} \/ IsDrain(Swept, C)
              /\ job' = [c \in Cmds |-> IF c \in C THEN "running" ELSE Swept[c]]
        BY <1>10 DEF BootDies
    <2>2. UNCHANGED <<held, doomed>>
        BY <1>10 DEF BootDies, process
    <2>3. StepTo(Swept, C)
        BY <1>8, <2>1, <2>2 DEF StepTo
    <2> QED BY <1>8, <2>3 DEF StepShape
<1> QED
    BY <1>2, <1>3, <1>4, <1>5, <1>6, <1>7, <1>9, <1>10
    DEF Next, CommandStep, ProcessStep, Approve, ApproveStanding

-----------------------------------------------------------------------------
(* The queue's edges and lanes.                                            *)

LaneInv == Inv /\ Queue!OneRunningPerLane(job)

LEMMA LaneStep ==
    ASSUME LaneInv, Next
    PROVE  Queue!OneRunningPerLane(job')
<1>1. PICK jb \in [Cmds -> JobStates], C \in SUBSET Cmds : StepTo(jb, C)
    BY EveryStepHasShape DEF LaneInv, StepShape
<1>2. CASE C = {}
    BY <1>1, <1>2 DEF LaneInv, StepTo, Settles, Queue!OneRunningPerLane
<1>3. CASE IsDrain(jb, C)
    <2>1. \A c \in C, d \in Cmds : job'[d] = "running" /\ LaneOf[c] = LaneOf[d] => c = d
        BY <1>1, <1>3 DEF StepTo, IsDrain, InJob
    <2>2. \A c \in Cmds \ C : job'[c] = "running" => job[c] = "running"
        BY <1>1 DEF StepTo, Settles
    <2> QED BY <2>1, <2>2 DEF LaneInv, Queue!OneRunningPerLane
<1> QED BY <1>1, <1>2, <1>3 DEF StepTo

LEMMA MoveKeepsEdges ==
    ASSUME Inv, NEW c \in Cmds, Move(c)
    PROVE  job'[c] \in Queue!After(job[c])
<1>1. LinkedAt(c) /\ job[c] \in JobStates /\ cmd[c] \in CmdStates
    BY DEF Inv, Linked, TypeOK, JobStates
<1> USE <1>1 DEF LinkedAt, Waiting, JobStates, Terminal, Queue!After, Queue!Terminal
<1>2. CASE Stayed(c) \/ Claimed(c)
    BY <1>2 DEF Stayed, Claimed
<1>3. CASE Received(c) \/ Allowed(c)
    BY <1>3 DEF Received, Allowed
<1>4. CASE Refused(c) \/ Purged(c)
    BY <1>4 DEF Refused, Purged
<1>5. CASE Ended(c)
    BY <1>5 DEF Ended
<1> QED BY <1>2, <1>3, <1>4, <1>5 DEF Move

LEMMA LaneInvHolds == Spec => []LaneInv
<1>1. Init => Queue!OneRunningPerLane(job)
    BY DEF Init, Queue!OneRunningPerLane
<1>2. LaneInv /\ Inv' /\ [Next]_vars => LaneInv'
    <2>1. ASSUME LaneInv, UNCHANGED vars PROVE Queue!OneRunningPerLane(job)'
        BY <2>1 DEF LaneInv, vars, jobs, Queue!OneRunningPerLane
    <2>2. ASSUME LaneInv, Next PROVE Queue!OneRunningPerLane(job)'
        BY <2>2, LaneStep DEF Queue!OneRunningPerLane
    <2> QED BY <2>1, <2>2 DEF LaneInv
<1> QED BY <1>1, <1>2, InvHolds, PTL DEF Spec, LaneInv

(* The bus drives the queue as JobLifecycle allows: rows move along its    *)
(* edges and one lane never has two running rows, whichever write breaks.  *)
THEOREM ImplementsQueue == Spec => KeepsLifecycle
<1>1. Init => Queue!Init
    BY DEF Init, Queue!Init
<1>2. LaneInv /\ Inv' /\ [Next]_vars => [Queue!Next]_job
    <2> SUFFICES ASSUME LaneInv, Inv', Next PROVE Queue!Next
        BY DEF vars, jobs
    <2>1. \A c \in Cmds : job'[c] \in Queue!After(job[c])
        BY EveryStepMoves, MoveKeepsEdges DEF LaneInv
    <2>2. job' \in [Cmds -> Queue!States]
        BY DEF Inv, TypeOK, Terminal, Queue!States, Queue!Terminal
    <2> QED BY <2>1, <2>2, LaneStep DEF Queue!Next
<1> QED BY <1>1, <1>2, LaneInvHolds, InvHolds, PTL DEF Spec, KeepsLifecycle, Queue!Spec

-----------------------------------------------------------------------------
(* Nobody in the queue is forgotten.                                       *)

(* A pump that drained the rows leaves drained rows.                       *)
LEMMA DrainLeaves ==
    ASSUME NEW jb \in [Cmds -> JobStates], NEW C \in SUBSET Cmds, IsDrain(jb, C),
           job' = [c \in Cmds |-> IF c \in C THEN "running" ELSE jb[c]]
    PROVE  IsDrain(job, {})'
<1>1. InJob(job', "running") = InJob(jb, "running") \cup C
    BY DEF InJob
<1>2. InJob(job', "queued") = InJob(jb, "queued") \ C
    BY DEF InJob, IsDrain
<1> QED BY <1>1, <1>2 DEF IsDrain

(* So does a step that starts and queues nothing and ends no running row.  *)
LEMMA QuietLeaves ==
    ASSUME IsDrain(job, {}), \A c \in Cmds : job'[c] = "running" <=> job[c] = "running",
           \A c \in Cmds : job'[c] = "queued" => job[c] = "queued"
    PROVE  IsDrain(job, {})'
<1>1. InJob(job', "running") = InJob(job, "running")
    BY DEF InJob
<1>2. InJob(job', "queued") \subseteq InJob(job, "queued")
    BY DEF InJob
<1> QED BY <1>1, <1>2 DEF IsDrain

Drained == phase = "on" => IsDrain(job, {})

LEMMA DrainedStep ==
    ASSUME Inv, Drained, Next, phase' = "on"
    PROVE  IsDrain(job, {})'
<1> USE DEF Inv, TypeOK
<1>a. job \in [Cmds -> JobStates]
    BY DEF JobStates
<1>1. ASSUME phase = "on", NEW jb \in [Cmds -> JobStates], NEW hd, Pump(jb, hd)
      PROVE  IsDrain(job, {})'
    <2>1. PICK C \in SUBSET Cmds : IsDrain(jb, C) /\ Claim(C, jb, hd)
        BY <1>1 DEF Pump
    <2> QED BY <2>1, DrainLeaves DEF Claim
<1>2. ASSUME phase = "on", job' = job PROVE IsDrain(job, {})'
    BY <1>2, QuietLeaves DEF Drained
<1>3. ASSUME NEW s \in JobStates, NEW c \in Cmds PROVE [job EXCEPT ![c] = s] \in [Cmds -> JobStates]
    BY <1>a
<1>4. "queued" \in JobStates /\ Terminal \subseteq JobStates
    BY DEF JobStates
<1>5. ASSUME NEW d \in Cmds, Receive(d) PROVE IsDrain(job, {})'
    BY <1>1, <1>2, <1>3, <1>4, <1>5 DEF Receive
<1>6. ASSUME NEW d \in Cmds, NEW s, Enqueue(d, s) PROVE IsDrain(job, {})'
    BY <1>1, <1>3, <1>4, <1>6 DEF Enqueue
<1>7. ASSUME NEW d \in Cmds, Ask(d) \/ Deny(d) \/ CancelPending(d) \/ CancelRunning(d) \/ Read(d)
      PROVE  IsDrain(job, {})'
    BY <1>2, <1>7 DEF Ask, Deny, CancelPending, CancelRunning, Read, jobs, process
<1>8. ASSUME NEW d \in Cmds, CancelQueued(d) PROVE IsDrain(job, {})'
    <2>1. phase = "on" /\ job[d] = "queued" /\ job' = [job EXCEPT ![d] = "cancelled"]
        BY <1>8 DEF CancelQueued, process
    <2> QED BY <1>a, <2>1, QuietLeaves DEF Drained
<1>9. ASSUME NEW d \in Cmds, HandlerEnds(d) PROVE IsDrain(job, {})'
    <2>1. \/ phase = "on" /\ Pump(job, held \ {d})
          \/ \E s \in Outcomes(d) : phase = "on" /\ Pump([job EXCEPT ![d] = s], held \ {d})
        BY <1>9 DEF HandlerEnds, ProcessGone
    <2>2. Outcomes(d) \subseteq JobStates
        BY DEF Outcomes, JobStates, Terminal
    <2> QED BY <1>1, <1>3, <1>a, <2>1, <2>2
<1>10. ASSUME SettingStep \/ Tick PROVE IsDrain(job, {})'
    BY <1>2, <1>10 DEF SettingStep, SwitchKind, CreateSchedule, DeleteSchedule, ToggleProject,
                       Tick, jobs, process
<1>11. ASSUME Sweep \/ SweepThrows \/ \E d \in Cmds : ExpireThrows(d) PROVE IsDrain(job, {})'
    <2>1. PICK stale \in SUBSET Orphans : ReapAndPump(stale)
        BY <1>11 DEF Sweep, SweepThrows, ExpireThrows
    <2>2. Reaped(stale) \in [Cmds -> JobStates]
        BY <1>a DEF Reaped, JobStates, Terminal
    <2>3. phase = "on"
        BY <1>11 DEF Sweep, SweepThrows, ExpireThrows
    <2> QED BY <1>1, <1>2, <2>1, <2>2, <2>3 DEF ReapAndPump
<1>12. ASSUME Boot \/ BootUnswept PROVE IsDrain(job, {})'
    <2>1. Swept \in [Cmds -> JobStates]
        BY <1>a DEF Swept, JobStates, Terminal
    <2>2. PICK C \in SUBSET Cmds : IsDrain(Swept, C) /\ Claim(C, Swept, {})
        BY <1>12 DEF Boot, BootUnswept
    <2> QED BY <2>1, <2>2, DrainLeaves DEF Claim
<1>13. ~(SweepDies \/ BootDies \/ Stop \/ Exit \/ Crash)
    BY DEF SweepDies, BootDies, Stop, Exit, Crash, ProcessGone, process
<1> QED
    BY <1>5, <1>6, <1>7, <1>8, <1>9, <1>10, <1>11, <1>12, <1>13
    DEF Next, CommandStep, ProcessStep, Approve, ApproveStanding

(* While the runner runs, a queued command finds its lane taken or the     *)
(* share used up, so that some job runs whose end will pump: a queue that  *)
(* no timer looks at is never left standing.                               *)
THEOREM QueueServedHolds == Spec => []QueueServed
<1>1. Init => Drained
    BY DEF Init, Drained
<1>2. Drained /\ Inv /\ [Next]_vars => Drained'
    <2>1. ASSUME Drained, UNCHANGED vars PROVE Drained'
        <3>1. phase' = phase /\ (IsDrain(job, {}) => IsDrain(job, {})')
            BY <2>1, QuietLeaves DEF vars, jobs, process
        <3> QED BY <2>1, <3>1 DEF Drained
    <2> QED BY <2>1, DrainedStep DEF Drained
<1>3. Inv /\ Drained => QueueServed
    <2> SUFFICES ASSUME IsDrain(job, {}), NEW c \in InJob(job, "queued"), InJob(job, "running") = {}
                 PROVE  FALSE
        BY DEF Drained, QueueServed
    <2>1. PerUserLimit = 0
        BY FS_EmptySet DEF IsDrain
    <2> QED BY <2>1, LimitAssumption
<1> QED BY <1>1, <1>2, <1>3, InvHolds, PTL DEF Spec

-----------------------------------------------------------------------------
(* When rows come and go.                                                  *)

LEMMA OnlyReceive ==
    ASSUME Inv, Next, NEW c \in Cmds, cmd[c] = "absent", cmd'[c] # "absent"
    PROVE  Receive(c)
<1> USE DEF Inv, TypeOK
<1>1. ASSUME NEW jb \in [Cmds -> JobStates], Maintain(jb) PROVE FALSE
    BY <1>1 DEF Maintain, Old, Overdue, InCmd, CmdExpired
<1>2. ASSUME NEW S \in SUBSET Overdue, cmd'[c] = CmdExpired(S)[c] PROVE FALSE
    BY <1>2 DEF Overdue, InCmd, CmdExpired
<1>3. ASSUME NEW d \in Cmds, CommandStep(d), ~Receive(c) PROVE FALSE
    <2>1. CASE Receive(d)
        BY <1>3, <2>1 DEF Receive
    <2>2. ASSUME NEW s, Enqueue(d, s) PROVE FALSE
        <3>1. cmd' = [CmdExpired(Overdue) EXCEPT ![d] = "enqueued"] /\ d # c
            BY <2>2 DEF Enqueue, InCmd
        <3>2. cmd'[c] = CmdExpired(Overdue)[c]
            BY <3>1 DEF CmdExpired
        <3> QED BY <1>2, <3>2
    <2>3. CASE Ask(d) \/ Deny(d) \/ CancelPending(d) \/ CancelQueued(d) \/ CancelRunning(d)
               \/ HandlerEnds(d)
        BY <2>3 DEF Ask, Deny, CancelPending, CancelQueued, CancelRunning, HandlerEnds, commands
    <2>4. CASE Read(d)
        BY <1>2, <2>4 DEF Read
    <2>5. CASE ExpireThrows(d)
        <3>1. PICK S \in SUBSET (Overdue \ {d}) : cmd' = CmdExpired(S \cup {d})
            BY <2>5 DEF ExpireThrows
        <3>2. S \cup {d} \in SUBSET Overdue
            BY <2>5 DEF ExpireThrows
        <3> QED BY <1>2, <3>1, <3>2
    <2> QED BY <1>3, <2>1, <2>2, <2>3, <2>4, <2>5 DEF CommandStep, Approve, ApproveStanding
<1>4. ASSUME \/ SettingStep \/ SweepDies \/ SweepThrows \/ BootDies \/ BootUnswept
             \/ Stop \/ Exit \/ Crash \/ Tick
      PROVE FALSE
    BY <1>4 DEF SettingStep, SwitchKind, CreateSchedule, DeleteSchedule, ToggleProject,
                SweepDies, SweepThrows, BootDies, BootUnswept, Stop, Exit, Crash, Tick, commands
<1>5. ~Sweep /\ ~Boot
    BY <1>1 DEF Sweep, Boot, Reaped, Swept, JobStates, Terminal
<1> QED BY <1>3, <1>4, <1>5 DEF Next, ProcessStep

(* A row keeps its time until it is purged for its age, and the clock      *)
(* never goes back.                                                        *)
LEMMA RowsAge ==
    ASSUME Inv, Next, NEW c \in Cmds
    PROVE  /\ now <= now'
           /\ cmd[c] # "absent" => cmd'[c] # "absent" /\ createdAt'[c] = createdAt[c]
           /\ cmd'[c] = "purged" /\ cmd[c] # "purged" => createdAt[c] + Retention < now
<1>a. TypeOK /\ Move(c)
    BY EveryStepMoves DEF Inv
<1>1. cmd[c] # "absent" => cmd'[c] # "absent"
    BY <1>a DEF Move, Stayed, Claimed, Received, Allowed, Refused, Ended, Purged
<1>2. ASSUME NEW jb \in [Cmds -> JobStates], Maintain(jb)
      PROVE  /\ createdAt' = createdAt
             /\ cmd'[c] = "purged" /\ cmd[c] # "purged" => createdAt[c] + Retention < now
    BY <1>2, <1>a DEF Maintain, Old, CmdExpired
<1>3. ASSUME NEW S \in SUBSET Overdue, cmd'[c] \in {CmdExpired(S)[c], "enqueued"}
      PROVE  cmd'[c] = "purged" => cmd[c] = "purged"
    BY <1>3 DEF CmdExpired
<1> DEFINE Goal == /\ now' = now \/ now' = now + 1
                   /\ cmd[c] # "absent" => createdAt'[c] = createdAt[c]
                   /\ cmd'[c] = "purged" /\ cmd[c] # "purged" => createdAt[c] + Retention < now
<1>4. ASSUME NEW d \in Cmds, CommandStep(d) PROVE Goal
    <2>1. CASE Receive(d)
        BY <1>a, <2>1 DEF Receive, TypeOK
    <2>2. ASSUME NEW s, Enqueue(d, s) PROVE Goal
        <3>1. cmd'[c] \in {CmdExpired(Overdue)[c], "enqueued"}
            BY <2>2 DEF Enqueue, CmdExpired
        <3> QED BY <1>3, <2>2, <3>1 DEF Enqueue
    <2>3. CASE Ask(d) \/ Deny(d) \/ CancelPending(d) \/ CancelQueued(d) \/ CancelRunning(d)
               \/ HandlerEnds(d)
        BY <1>a, <2>3 DEF Ask, Deny, CancelPending, CancelQueued, CancelRunning, HandlerEnds, commands, TypeOK
    <2>4. CASE Read(d)
        BY <1>3, <2>4 DEF Read
    <2>5. CASE ExpireThrows(d)
        <3>1. PICK S \in SUBSET (Overdue \ {d}) : cmd' = CmdExpired(S \cup {d})
            BY <2>5 DEF ExpireThrows
        <3>2. S \cup {d} \in SUBSET Overdue
            BY <2>5 DEF ExpireThrows
        <3> QED BY <1>3, <2>5, <3>1, <3>2 DEF ExpireThrows
    <2> QED BY <1>4, <2>1, <2>2, <2>3, <2>4, <2>5 DEF CommandStep, Approve, ApproveStanding
<1>5. ASSUME \/ SettingStep \/ SweepDies \/ SweepThrows \/ BootDies \/ BootUnswept
             \/ Stop \/ Exit \/ Crash \/ Tick
      PROVE Goal
    BY <1>5 DEF SettingStep, SwitchKind, CreateSchedule, DeleteSchedule, ToggleProject,
                SweepDies, SweepThrows, BootDies, BootUnswept, Stop, Exit, Crash, Tick, commands
<1>6. ASSUME Sweep \/ Boot PROVE Goal
    <2>1. \E jb \in [Cmds -> JobStates] : Maintain(jb)
        BY <1>6, <1>a DEF Sweep, Boot, Reaped, Swept, JobStates, Terminal, TypeOK
    <2>2. now' = now
        BY <1>6 DEF Sweep, Boot
    <2> QED BY <1>2, <2>1, <2>2
<1>7. Goal
    BY <1>4, <1>5, <1>6 DEF Next, ProcessStep
<1> QED BY <1>1, <1>7, <1>a DEF TypeOK

-----------------------------------------------------------------------------
(* One run per slot.                                                       *)

(* A key is given once, for the slot of that moment.                       *)
LEMMA KeyStays ==
    ASSUME Inv, Next, NEW c \in Cmds
    PROVE  \/ slotAsked'[c] = slotAsked[c]
           \/ /\ slotAsked[c] = -1 /\ slotAsked'[c] = now \div Interval
              /\ SlotOf[c] # None /\ cmd' = cmd /\ now' = now
<1> USE DEF Inv, TypeOK
<1>1. ASSUME NEW d \in Cmds, Ask(d)
      PROVE  \/ slotAsked'[c] = slotAsked[c]
             \/ /\ slotAsked[c] = -1 /\ slotAsked'[c] = now \div Interval
                /\ SlotOf[c] # None /\ cmd' = cmd /\ now' = now
    BY <1>1 DEF Ask
<1>2. ASSUME NEW d \in Cmds, CommandStep(d), ~Ask(d) PROVE slotAsked' = slotAsked
    <2>1. CASE Receive(d) \/ Deny(d) \/ CancelPending(d) \/ Read(d) \/ ExpireThrows(d)
        BY <2>1 DEF Receive, Deny, CancelPending, Read, ExpireThrows
    <2>2. CASE CancelQueued(d) \/ CancelRunning(d) \/ HandlerEnds(d)
        BY <2>2 DEF CancelQueued, CancelRunning, HandlerEnds, commands
    <2>3. ASSUME NEW s, Enqueue(d, s) PROVE slotAsked' = slotAsked
        BY <2>3 DEF Enqueue
    <2> QED BY <1>2, <2>1, <2>2, <2>3 DEF CommandStep, Approve, ApproveStanding
<1>3. ASSUME SettingStep \/ ProcessStep PROVE slotAsked' = slotAsked
    BY <1>3 DEF SettingStep, SwitchKind, CreateSchedule, DeleteSchedule, ToggleProject,
                ProcessStep, Sweep, SweepDies, SweepThrows, Boot, BootDies, BootUnswept,
                Stop, Exit, Crash, Tick, Maintain, commands
<1> QED BY <1>1, <1>2, <1>3 DEF Next

(* A row is not from the future, a purged one is older than the retention, *)
(* and a key was given before its row was made, for a slot begun by then.  *)
AgeAt(c) ==
    /\ cmd[c] # "absent" => createdAt[c] <= now
    /\ cmd[c] = "purged" => createdAt[c] + Retention < now
    /\ slotAsked[c] # -1 => Interval * slotAsked[c] <= now
    /\ cmd[c] # "absent" /\ SlotOf[c] # None
           => slotAsked[c] # -1 /\ Interval * slotAsked[c] <= createdAt[c]

(* d is the late second run of c's key.                                    *)
LateSecond(c, d) ==
    createdAt[d] > createdAt[c] + Retention /\ createdAt[d] \div Interval > slotAsked[d]

SlotInv == Inv /\ (\A c \in Cmds : AgeAt(c)) /\ SlotRunsOnceInTime

LEMMA SlotBegins ==
    ASSUME NEW a \in Nat, NEW n \in Nat \ {0}
    PROVE  a \div n \in Nat /\ n * (a \div n) <= a /\ a < n * (a \div n) + n
OBVIOUS

(* An instant later than k slots and one more is past slot k.              *)
LEMMA SlotIsOver ==
    ASSUME NEW a \in Nat, NEW b \in Nat, NEW n \in Nat \ {0}, NEW k \in Nat,
           n * k <= a, a + n < b
    PROVE  b \div n > k
<1>1. n * (b \div n) <= b /\ b < n * (b \div n) + n /\ b \div n \in Nat
    BY SlotBegins
<1>2. n * k < n * (b \div n)
    BY <1>1
<1> QED BY <1>1, <1>2

LEMMA AgeStep ==
    ASSUME Inv, Inv', Next, NEW c \in Cmds, AgeAt(c)
    PROVE  AgeAt(c)'
<1>a. TypeOK /\ TypeOK'
    BY DEF Inv
<1>b. /\ createdAt[c] \in Nat /\ createdAt'[c] \in Nat /\ now \in Nat /\ now' \in Nat
      /\ slotAsked[c] \in Nat \cup {-1} /\ slotAsked'[c] \in Nat \cup {-1}
      /\ Retention \in Nat /\ Interval \in Nat \ {0}
    BY <1>a, TimeAssumption DEF TypeOK
<1>1. CASE cmd[c] = "absent" /\ cmd'[c] # "absent"
    <2>1. Receive(c)
        BY <1>1, OnlyReceive
    <2>2. /\ cmd' = [cmd EXCEPT ![c] = "awaiting_approval"]
             \/ cmd' = [cmd EXCEPT ![c] = "enqueued"]
          /\ createdAt' = [createdAt EXCEPT ![c] = now] /\ slotAsked' = slotAsked /\ now' = now
          /\ SlotOf[c] # None => slotAsked[c] # -1
        BY <2>1 DEF Receive
    <2>3. cmd'[c] # "purged" /\ createdAt'[c] = now
        BY <1>a, <2>2 DEF TypeOK
    <2> QED BY <1>b, <2>2, <2>3 DEF AgeAt
<1>2. CASE cmd[c] # "absent"
    <2>1. /\ now <= now' /\ cmd'[c] # "absent" /\ createdAt'[c] = createdAt[c]
          /\ cmd'[c] = "purged" /\ cmd[c] # "purged" => createdAt[c] + Retention < now
        BY <1>2, RowsAge
    <2>2. CASE slotAsked'[c] = slotAsked[c]
        <3>1. cmd'[c] = "purged" => createdAt'[c] + Retention < now'
            BY <1>b, <2>1 DEF AgeAt
        <3>2. slotAsked'[c] # -1 => Interval * slotAsked'[c] <= now'
            <4>1. Interval * slotAsked[c] \in Int
                BY <1>b
            <4> QED BY <1>b, <2>1, <2>2, <4>1 DEF AgeAt
        <3>3. createdAt'[c] <= now'
            BY <1>2, <1>b, <2>1 DEF AgeAt
        <3> QED BY <1>2, <2>1, <2>2, <3>1, <3>2, <3>3 DEF AgeAt
    <2>3. CASE slotAsked'[c] # slotAsked[c]
        BY <1>2, <2>3, KeyStays DEF AgeAt
    <2> QED BY <2>2, <2>3
<1>3. CASE cmd'[c] = "absent"
    <2>1. now <= now' /\ cmd[c] = "absent"
        BY <1>3, RowsAge
    <2>2. slotAsked'[c] # -1 => Interval * slotAsked'[c] <= now'
        <3>1. CASE slotAsked'[c] = slotAsked[c]
            <4>1. Interval * slotAsked[c] \in Int
                BY <1>b
            <4> QED BY <1>b, <2>1, <3>1, <4>1 DEF AgeAt
        <3>2. CASE slotAsked'[c] = now \div Interval /\ now' = now
            BY <1>b, <3>2, SlotBegins
        <3> QED BY <3>1, <3>2, KeyStays
    <2> QED BY <1>3, <2>2 DEF AgeAt
<1> QED BY <1>1, <1>2, <1>3

LEMMA SlotStep ==
    ASSUME SlotInv, Inv', Next
    PROVE  (\A c \in Cmds : AgeAt(c)') /\ SlotRunsOnceInTime'
<1> USE DEF SlotInv
<1>a. TypeOK /\ TypeOK'
    BY DEF Inv
<1>b. /\ createdAt \in [Cmds -> Nat] /\ createdAt' \in [Cmds -> Nat]
      /\ slotAsked \in [Cmds -> Nat \cup {-1}] /\ slotAsked' \in [Cmds -> Nat \cup {-1}]
      /\ now \in Nat /\ now' \in Nat /\ Retention \in Nat /\ Interval \in Nat \ {0}
      /\ Interval <= Retention
    BY <1>a, TimeAssumption DEF TypeOK
<1>1. \A c \in Cmds : AgeAt(c)'
    BY AgeStep
<1>2. ASSUME NEW c \in Cmds, cmd[c] = "absent", cmd'[c] # "absent"
      PROVE  /\ ~KnownKey(c) /\ createdAt'[c] = now /\ slotAsked' = slotAsked
             /\ \A d \in Cmds \ {c} : cmd'[d] = cmd[d] /\ createdAt'[d] = createdAt[d]
    <2>1. Receive(c)
        BY <1>2, OnlyReceive
    <2>2. \/ cmd' = [cmd EXCEPT ![c] = "awaiting_approval"]
          \/ cmd' = [cmd EXCEPT ![c] = "enqueued"]
        BY <2>1 DEF Receive
    <2> QED BY <1>a, <2>1, <2>2 DEF Receive, TypeOK
<1>3. ASSUME NEW c \in Cmds, cmd[c] # "absent", SlotOf[c] # None
      PROVE  slotAsked'[c] = slotAsked[c] /\ createdAt'[c] = createdAt[c]
    BY <1>3, KeyStays, RowsAge DEF AgeAt
<1>4. ASSUME NEW c \in Cmds, NEW d \in Cmds, c # d, cmd'[c] # "absent", cmd'[d] # "absent",
             SameKey(c, d)', createdAt'[c] <= createdAt'[d]
      PROVE  LateSecond(c, d)'
    <2>1. SlotOf[c] # None /\ SlotOf[d] # None
        BY <1>4 DEF SameKey
    <2>2. CASE cmd[c] # "absent" /\ cmd[d] # "absent"
        <3>1. SameKey(c, d) /\ createdAt[c] <= createdAt[d]
            BY <1>3, <1>4, <2>1, <2>2 DEF SameKey
        <3>2. createdAt[d] > createdAt[c] + Retention /\ createdAt[d] \div Interval > slotAsked[d]
            BY <1>4, <2>2, <3>1 DEF SlotRunsOnceInTime
        <3> QED BY <1>3, <2>1, <2>2, <3>2 DEF LateSecond
    <2>3. CASE cmd[c] = "absent"
        <3>1. ~KnownKey(c) /\ createdAt'[c] = now /\ slotAsked' = slotAsked
              /\ cmd[d] = cmd'[d] /\ createdAt'[d] = createdAt[d]
            BY <1>2, <1>4, <2>3
        <3>2. cmd[d] = "purged"
            BY <1>4, <3>1 DEF KnownKey, SameKey
        <3>3. createdAt[d] + Retention < now
            BY <3>2 DEF AgeAt
        <3> QED BY <1>b, <1>4, <3>1, <3>3
    <2>4. CASE cmd[d] = "absent"
        <3>1. ~KnownKey(d) /\ createdAt'[d] = now /\ slotAsked' = slotAsked
              /\ cmd[c] = cmd'[c] /\ createdAt'[c] = createdAt[c]
            BY <1>2, <1>4, <2>4
        <3>2. cmd[c] = "purged" /\ slotAsked[c] = slotAsked[d]
            BY <1>4, <3>1 DEF KnownKey, SameKey
        <3>3. createdAt[c] + Retention < now
            BY <3>2 DEF AgeAt
        <3>4. slotAsked[c] \in Nat /\ Interval * slotAsked[c] <= createdAt[c]
            BY <1>b, <2>1, <3>2 DEF AgeAt
        <3>5. now \div Interval > slotAsked[c]
            <4>1. createdAt[c] + Interval < now /\ createdAt[c] \in Nat
                BY <1>b, <3>3
            <4> QED BY <1>b, <3>4, <4>1, SlotIsOver
        <3> QED BY <3>1, <3>2, <3>3, <3>5 DEF LateSecond
    <2> QED BY <2>2, <2>3, <2>4
<1>5. SlotRunsOnceInTime'
    BY <1>4 DEF SlotRunsOnceInTime, LateSecond
<1> QED BY <1>1, <1>5

(* A slot of a schedule is run a second time only by a request that comes  *)
(* when the slot is over and the first run has been purged for its age,    *)
(* whatever windows, restarts, expiries and sweeps there are.              *)
THEOREM SlotRunsOnceInTimeHolds == Spec => []SlotRunsOnceInTime
<1>1. Init => (\A c \in Cmds : AgeAt(c)) /\ SlotRunsOnceInTime
    BY DEF Init, AgeAt, SlotRunsOnceInTime
<1>2. SlotInv /\ Inv' /\ [Next]_vars => SlotInv'
    <2>1. ASSUME SlotInv, UNCHANGED vars PROVE (\A c \in Cmds : AgeAt(c)') /\ SlotRunsOnceInTime'
        BY <2>1 DEF SlotInv, vars, commands, AgeAt, SameKey, SlotRunsOnceInTime
    <2> QED BY <2>1, SlotStep DEF SlotInv
<1> QED BY <1>1, <1>2, InvHolds, PTL DEF Spec, SlotInv

-----------------------------------------------------------------------------
(* Spacing of the runs on one standing approval.                           *)

(* A run approved by a schedule has left the waiting room, and the         *)
(* schedule remembers a run at least as late.                              *)
RecordedAt(c) ==
    via[c] # None => /\ cmd[c] \notin {"absent", "awaiting_approval"}
                     /\ decidedAt[c] <= lastRun[via[c]]

SpacedInv ==
    /\ Inv /\ StandingSpaced
    /\ \A c \in Cmds : RecordedAt(c)
    /\ \A s \in Schedules : lastRun[s] <= now

(* Only an approval touches what StandingSpaced speaks of.                 *)
LEMMA ViaStep ==
    ASSUME Inv, Next
    PROVE  \/ UNCHANGED <<via, decidedAt, lastRun>>
           \/ \E c \in Cmds : Approve(c)
           \/ \E c \in Cmds, s \in Schedules : ApproveStanding(c, s)
<1>1. ASSUME NEW c \in Cmds, CommandStep(c)
      PROVE  \/ UNCHANGED <<via, decidedAt, lastRun>> \/ Approve(c)
             \/ \E s \in Schedules : ApproveStanding(c, s)
    <2>1. CASE Ask(c) \/ Receive(c) \/ Deny(c) \/ CancelPending(c) \/ Read(c)
        BY <2>1 DEF Ask, Receive, Deny, CancelPending, Read, settings
    <2>2. CASE CancelQueued(c) \/ CancelRunning(c)
        BY <2>2 DEF CancelQueued, CancelRunning, commands, settings
    <2>3. CASE HandlerEnds(c) \/ ExpireThrows(c)
        BY <2>3 DEF HandlerEnds, ExpireThrows, commands, settings
    <2> QED BY <1>1, <2>1, <2>2, <2>3 DEF CommandStep
<1>2. ASSUME SettingStep PROVE UNCHANGED <<via, decidedAt, lastRun>>
    BY <1>2 DEF SettingStep, SwitchKind, CreateSchedule, DeleteSchedule, ToggleProject, commands
<1>3. ASSUME ProcessStep PROVE UNCHANGED <<via, decidedAt, lastRun>>
    BY <1>3 DEF ProcessStep, Sweep, SweepDies, SweepThrows, Boot, BootDies, BootUnswept,
              Stop, Exit, Crash, Tick, Maintain, commands, settings
<1> QED BY <1>1, <1>2, <1>3 DEF Next

LEMMA SpacedStep ==
    ASSUME SpacedInv, Inv', Next
    PROVE  SpacedInv'
<1> USE DEF SpacedInv
<1>a. /\ via \in [Cmds -> Schedules \cup {None}] /\ decidedAt \in [Cmds -> Nat]
      /\ lastRun \in [Schedules -> Nat \cup {-1}] /\ now \in Nat /\ now' \in Nat
      /\ None \notin Schedules /\ Interval \in Nat \ {0}
    BY CommandAssumption, TimeAssumption DEF Inv, TypeOK
<1>b. ASSUME NEW c \in Cmds, cmd[c] \notin {"absent", "awaiting_approval"}
      PROVE  cmd'[c] \notin {"absent", "awaiting_approval"}
    <2>1. Move(c)
        BY EveryStepMoves
    <2> QED BY <1>b, <2>1 DEF Move, Stayed, Claimed, Received, Allowed, Refused, Ended, Purged
<1>c. now <= now'
    <2>1. CASE Cmds = {}
        BY <1>a, <2>1 DEF Next, CommandStep, SettingStep, ProcessStep, SwitchKind, CreateSchedule,
           DeleteSchedule, ToggleProject, Sweep, SweepDies, SweepThrows, Boot, BootDies, BootUnswept,
           Stop, Exit, Crash, Tick
    <2>2. CASE Cmds # {}
        BY <2>2, RowsAge
    <2> QED BY <2>1, <2>2
<1>1. CASE UNCHANGED <<via, decidedAt, lastRun>>
    <2>1. StandingSpaced' /\ \A s \in Schedules : lastRun'[s] <= now'
        BY <1>a, <1>c, <1>1 DEF StandingSpaced
    <2>2. \A c \in Cmds : RecordedAt(c)'
        BY <1>b, <1>1 DEF RecordedAt
    <2> QED BY <2>1, <2>2
<1>2. ASSUME NEW c \in Cmds, Approve(c) PROVE SpacedInv'
    <2>1. cmd[c] = "awaiting_approval" /\ via[c] = None
        BY <1>2 DEF Approve, Enqueue, InCmd, RecordedAt
    <2>2. UNCHANGED <<via, decidedAt, lastRun>>
        BY <1>2, <1>a, <2>1 DEF Approve, Enqueue
    <2> QED BY <1>1, <2>2
<1>3. ASSUME NEW c \in Cmds, NEW s \in Schedules, ApproveStanding(c, s) PROVE SpacedInv'
    <2>1. /\ lastRun[s] # -1 => 2 * (now - lastRun[s]) >= Interval
          /\ via' = [via EXCEPT ![c] = s] /\ lastRun' = [lastRun EXCEPT ![s] = now]
          /\ decidedAt' = [decidedAt EXCEPT ![c] = now] /\ now' = now
        BY <1>3, <1>a DEF ApproveStanding, Enqueue
    <2>2. cmd[c] = "awaiting_approval" /\ cmd'[c] = "enqueued"
        BY <1>3 DEF ApproveStanding, Enqueue, InCmd, CmdExpired
    <2>3. \A t \in Schedules : lastRun'[t] <= now' /\ lastRun[t] <= lastRun'[t]
        BY <1>a, <2>1
    <2>4. ASSUME NEW d \in Cmds PROVE RecordedAt(d)'
        <3>1. CASE d = c
            BY <1>a, <2>1, <2>2, <3>1 DEF RecordedAt
        <3>2. CASE d # c /\ via[d] # None
            <4>1. RecordedAt(d) /\ via'[d] = via[d] /\ via[d] \in Schedules /\ decidedAt'[d] = decidedAt[d]
                BY <1>a, <2>1, <3>2
            <4>2. lastRun[via[d]] <= lastRun'[via[d]] /\ lastRun'[via[d]] \in Int
                  /\ lastRun[via[d]] \in Int /\ decidedAt[d] \in Int
                BY <1>a, <2>1, <2>3, <4>1
            <4> QED BY <1>b, <3>2, <4>1, <4>2 DEF RecordedAt
        <3>3. CASE d # c /\ via[d] = None
            BY <1>a, <2>1, <3>3 DEF RecordedAt
        <3> QED BY <3>1, <3>2, <3>3
    <2>5. ASSUME NEW d \in Cmds, d # c, via'[d] = s
          PROVE  /\ decidedAt'[d] = decidedAt[d] /\ decidedAt[d] \in Nat
                 /\ 2 * (now - decidedAt[d]) >= Interval
        <3>1. via[d] = s /\ decidedAt'[d] = decidedAt[d] /\ decidedAt[d] <= lastRun[s]
            BY <1>a, <2>1, <2>5 DEF RecordedAt
        <3>2. decidedAt[d] \in Nat /\ lastRun[s] \in Nat
            BY <1>a, <3>1
        <3> QED BY <1>a, <2>1, <3>1, <3>2
    <2>6. ASSUME NEW d \in Cmds, NEW e \in Cmds, d # e, via'[d] # None, via'[d] = via'[e],
                 decidedAt'[d] <= decidedAt'[e]
          PROVE  2 * (decidedAt'[e] - decidedAt'[d]) >= Interval
        <3>1. CASE d # c /\ e # c
            BY <1>a, <2>1, <2>6, <3>1 DEF StandingSpaced
        <3>2. CASE e = c
            BY <1>a, <2>1, <2>5, <2>6, <3>2
        <3>3. CASE d = c
            BY <1>a, <2>1, <2>5, <2>6, <3>3
        <3> QED BY <3>1, <3>2, <3>3
    <2> QED BY <2>3, <2>4, <2>6 DEF StandingSpaced
<1> QED BY <1>1, <1>2, <1>3, ViaStep

(* Runs approved on one standing approval were approved at least half an   *)
(* interval apart.                                                         *)
THEOREM StandingSpacedHolds == Spec => []StandingSpaced
<1>1. Init /\ Inv => SpacedInv
    BY DEF Init, SpacedInv, StandingSpaced, RecordedAt
<1>2. SpacedInv /\ Inv' /\ [Next]_vars => SpacedInv'
    <2>1. ASSUME SpacedInv, Inv', UNCHANGED vars PROVE SpacedInv'
        BY <2>1 DEF SpacedInv, vars, commands, settings, StandingSpaced, RecordedAt
    <2> QED BY <2>1, SpacedStep
<1>3. SpacedInv => StandingSpaced
    BY DEF SpacedInv
<1> QED BY <1>1, <1>2, <1>3, InvHolds, PTL DEF Spec

-----------------------------------------------------------------------------
(* What is barred stays out.                                               *)

(* A schedule that once was made is never made again, and one that does    *)
(* not stand any more never will.                                          *)
LEMMA NeverStandsAgain ==
    ASSUME Inv, Inv', Next, now <= now', NEW s \in Schedules, sched[s] # "new"
    PROVE  sched'[s] # "new" /\ (~Standing(s) => ~Standing(s)')
<1>a. until[s] \in Nat /\ now \in Nat /\ now' \in Nat
    BY DEF Inv, TypeOK
<1> USE DEF Inv, TypeOK
<1>1. CASE UNCHANGED <<sched, until>>
    BY <1>1, <1>a DEF Standing
<1>2. ASSUME NEW c \in Cmds, CommandStep(c) PROVE UNCHANGED <<sched, until>>
    <2>1. CASE Ask(c) \/ Receive(c) \/ Deny(c) \/ CancelPending(c) \/ Read(c) \/ ExpireThrows(c)
        BY <2>1 DEF Ask, Receive, Deny, CancelPending, Read, ExpireThrows, settings
    <2>2. CASE CancelQueued(c) \/ CancelRunning(c) \/ HandlerEnds(c)
        BY <2>2 DEF CancelQueued, CancelRunning, HandlerEnds, settings
    <2>3. ASSUME NEW t, Enqueue(c, t) PROVE UNCHANGED <<sched, until>>
        BY <2>3 DEF Enqueue
    <2> QED BY <1>2, <2>1, <2>2, <2>3 DEF CommandStep, Approve, ApproveStanding
<1>3. ASSUME SettingStep PROVE sched'[s] # "new" /\ (~Standing(s) => ~Standing(s)')
    <2>1. ASSUME NEW t \in Schedules, CreateSchedule(t)
          PROVE  sched'[s] = sched[s] /\ until'[s] = until[s]
        BY <2>1 DEF CreateSchedule
    <2>2. ASSUME NEW t \in Schedules, DeleteSchedule(t)
          PROVE  sched'[s] \in {sched[s], "gone"} /\ until'[s] = until[s]
        BY <2>2 DEF DeleteSchedule
    <2>3. ASSUME \/ \E k \in Kinds : SwitchKind(k)
                 \/ \E p \in Projects : ToggleProject(p)
          PROVE  sched'[s] = sched[s] /\ until'[s] = until[s]
        BY <2>3 DEF SwitchKind, ToggleProject
    <2>4. sched'[s] \in {sched[s], "gone"} /\ until'[s] = until[s]
        BY <1>3, <2>1, <2>2, <2>3 DEF SettingStep
    <2>5. now' = now
        BY <1>3 DEF SettingStep, SwitchKind, CreateSchedule, DeleteSchedule, ToggleProject
    <2> QED BY <1>a, <2>4, <2>5 DEF Standing
<1>4. ASSUME ProcessStep PROVE UNCHANGED <<sched, until>>
    BY <1>4 DEF ProcessStep, Sweep, SweepDies, SweepThrows, Boot, BootDies, BootUnswept,
                Stop, Exit, Crash, Tick, settings
<1> QED BY <1>1, <1>2, <1>3, <1>4 DEF Next

(* The schedule that approved a run was made.                              *)
MadeAt(c) == via[c] # None => sched[via[c]] # "new"
BarredInv == SpacedInv /\ \A c \in Cmds : MadeAt(c)

(* Who approved a run stays what it was, once the run was let go.          *)
LEMMA ViaStays ==
    ASSUME SpacedInv, Next, NEW c \in Cmds
    PROVE  \/ via'[c] = via[c] \/ via'[c] = None
           \/ via'[c] \in Schedules /\ Standing(via'[c])
<1> USE DEF SpacedInv, Inv, TypeOK
<1>1. ASSUME NEW d \in Cmds, NEW s \in Schedules, ApproveStanding(d, s)
      PROVE  via'[c] = via[c] \/ (via'[c] \in Schedules /\ Standing(via'[c]))
    BY <1>1 DEF ApproveStanding, Enqueue
<1>2. ASSUME NEW d \in Cmds, Approve(d) PROVE via'[c] = via[c] \/ via'[c] = None
    BY <1>2 DEF Approve, Enqueue
<1> QED BY <1>1, <1>2, ViaStep

LEMMA MadeStep ==
    ASSUME BarredInv, Inv', Next, NEW c \in Cmds
    PROVE  MadeAt(c)'
<1> USE DEF BarredInv, SpacedInv
<1>a. now <= now' /\ via[c] \in Schedules \cup {None}
    BY RowsAge DEF Inv, TypeOK
<1>1. CASE via'[c] = via[c] \/ via'[c] = None
    BY <1>a, <1>1, NeverStandsAgain DEF MadeAt
<1>2. CASE via'[c] \in Schedules /\ Standing(via'[c])
    <2>1. sched[via'[c]] # "new"
        BY <1>2 DEF Standing
    <2> QED BY <1>a, <1>2, <2>1, NeverStandsAgain DEF MadeAt
<1> QED BY <1>1, <1>2, ViaStays

(* A command is barred for good.                                           *)
LEMMA BarredForGood ==
    ASSUME BarredInv, Inv', Next, NEW c \in Cmds, Barred(c)
    PROVE  Barred(c)'
<1> USE DEF BarredInv, SpacedInv
<1>1. /\ now <= now' /\ cmd'[c] # "absent" /\ createdAt'[c] = createdAt[c]
      /\ now \in Nat /\ now' \in Nat /\ createdAt[c] \in Nat /\ Ttl[c] \in Nat
      /\ via[c] \in Schedules \cup {None}
    BY RowsAge, TimeAssumption DEF Barred, Inv, TypeOK
<1>2. CASE now > createdAt[c] + Ttl[c]
    BY <1>1, <1>2 DEF Barred
<1>3. CASE via[c] # None /\ ~Standing(via[c])
    <2>1. cmd[c] \notin {"absent", "awaiting_approval"}
        BY <1>3 DEF RecordedAt
    <2>2. via'[c] = via[c]
        <3>1. ASSUME NEW d \in Cmds, NEW s, Enqueue(d, s) PROVE via'[c] = via[c]
            BY <2>1, <3>1 DEF Enqueue, InCmd, Inv, TypeOK
        <3> QED BY <3>1, ViaStep DEF Approve, ApproveStanding
    <2>3. sched[via[c]] # "new" /\ via[c] \in Schedules
        BY <1>1, <1>3 DEF MadeAt
    <2>4. ~Standing(via[c])'
        BY <1>1, <1>3, <2>2, <2>3, NeverStandsAgain DEF Standing
    <2> QED BY <1>1, <1>3, <2>2, <2>4 DEF Barred
<1> QED BY <1>2, <1>3 DEF Barred

LEMMA StaysOutStep ==
    ASSUME BarredInv, Inv', Next, NEW c \in Cmds, StaysOut(c)
    PROVE  StaysOut(c)'
<1>1. Barred(c) /\ Barred(c)' /\ c \notin held \ doomed /\ job[c] # "succeeded"
    BY BarredForGood DEF StaysOut
<1>2. PICK jb \in [Cmds -> JobStates], C \in SUBSET Cmds : StepTo(jb, C)
    BY EveryStepHasShape DEF StepShape, BarredInv, SpacedInv
<1>3. ~MayWork(c)'
    <2>1. /\ createdAt'[c] \in Nat /\ now' \in Nat /\ Ttl[c] \in Nat
        BY TimeAssumption DEF Inv, TypeOK
    <2> QED BY <1>1, <2>1 DEF Barred, MayWork
<1>4. c \notin held' \ doomed'
    BY <1>1, <1>2, <1>3 DEF StepTo
<1>5. job'[c] # "succeeded"
    BY <1>1, <1>2 DEF StepTo, Settles
<1> QED BY <1>1, <1>4, <1>5 DEF StaysOut

LEMMA BarredInvHolds == Spec => []BarredInv
<1>1. Init /\ Inv => BarredInv
    BY DEF Init, BarredInv, SpacedInv, StandingSpaced, RecordedAt, MadeAt
<1>2. BarredInv /\ Inv' /\ [Next]_vars => BarredInv'
    <2>1. ASSUME BarredInv, Inv', UNCHANGED vars PROVE BarredInv'
        BY <2>1 DEF BarredInv, SpacedInv, vars, commands, settings, StandingSpaced, RecordedAt, MadeAt
    <2>2. ASSUME BarredInv, Inv', Next PROVE BarredInv'
        BY <2>2, SpacedStep, MadeStep DEF BarredInv
    <2> QED BY <2>1, <2>2
<1> QED BY <1>1, <1>2, InvHolds, PTL DEF Spec

(* A command whose time ran out, or whose schedule was deleted or lost its *)
(* standing approval, before a handler got past the re-check never works   *)
(* and never succeeds, whoever claims it and however often the server      *)
(* restarts.                                                               *)
THEOREM BarredStaysOutHolds == Spec => BarredStaysOut
<1>1. BarredInv /\ Inv' /\ [Next]_vars
          => [\A c \in Cmds : StaysOut(c) => StaysOut(c)']_vars
    BY StaysOutStep
<1> QED BY <1>1, BarredInvHolds, InvHolds, PTL DEF Spec, BarredStaysOut

-----------------------------------------------------------------------------
(* The quotas.                                                             *)

Waits == InCmd("awaiting_approval")
LiveJobs == InJob(job, "queued") \cup InJob(job, "running")

(* Only a receipt opens a command, and it opens one.                       *)
LEMMA OnlyReceiptOpens ==
    ASSUME Inv, Next, NEW c \in (Waits \cup LiveJobs)', c \notin Waits \cup LiveJobs
    PROVE  Receive(c)
<1>1. c \in Cmds /\ Move(c)
    BY EveryStepMoves DEF Waits, LiveJobs, InCmd, InJob
<1>2. Received(c)
    BY <1>1 DEF Waits, LiveJobs, InCmd, InJob, Move, Stayed, Claimed, Received, Allowed, Refused,
               Ended, Purged, Terminal
<1> QED BY <1>1, <1>2, OnlyReceive DEF Received

LEMMA NoneJoinsTheWaiting ==
    ASSUME Inv, Next, NEW c \in Waits', c \notin Waits
    PROVE  /\ Receive(c)
           /\ DecideReceipt(ClientOf[c], KindOf[c], KindOf[c] \in enabled) = "needs_approval"
<1>1. c \in Cmds /\ Move(c) /\ cmd'[c] = "awaiting_approval"
    BY EveryStepMoves DEF Waits, InCmd
<1>2. cmd[c] = "absent"
    BY <1>1 DEF Waits, InCmd, Move, Stayed, Claimed, Received, Allowed, Refused, Ended, Purged
<1>3. Receive(c)
    BY <1>1, <1>2, OnlyReceive
<1> QED BY <1>1, <1>3 DEF Receive, Inv, TypeOK

LEMMA Disjoint ==
    ASSUME NEW S, IsFiniteSet(S), NEW T, IsFiniteSet(T), S \cap T = {}
    PROVE  Cardinality(S \cup T) = Cardinality(T) + Cardinality(S)
<1>1. Cardinality(S) \in Nat /\ Cardinality(T) \in Nat
    BY FS_CardinalityType
<1>2. Cardinality(S \cup T) = Cardinality(S) + Cardinality(T) - Cardinality(S \cap T)
    BY FS_Union
<1>3. Cardinality(S \cap T) = 0
    BY FS_EmptySet
<1> QED BY <1>1, <1>2, <1>3

(* A set that gained at most x is at most one larger.                      *)
LEMMA AtMostOneMore ==
    ASSUME NEW S, IsFiniteSet(S), NEW x, NEW T \in SUBSET (S \cup {x})
    PROVE  Cardinality(T) <= Cardinality(S) + 1
<1>1. IsFiniteSet(S \cup {x}) /\ Cardinality(S) \in Nat
    BY FS_AddElement, FS_CardinalityType
<1>2. Cardinality(S \cup {x}) = IF x \in S THEN Cardinality(S) ELSE Cardinality(S) + 1
    BY FS_AddElement
<1>3. IsFiniteSet(T) /\ Cardinality(T) <= Cardinality(S \cup {x})
    BY <1>1, FS_Subset
<1>4. Cardinality(T) \in Nat
    BY <1>3, FS_CardinalityType
<1> QED BY <1>1, <1>2, <1>3, <1>4

LEMMA QuotaStep ==
    ASSUME Inv, Inv', QuotaHolds, Next
    PROVE  QuotaHolds'
<1>a. /\ IsFiniteSet(Waits) /\ IsFiniteSet(LiveJobs) /\ IsFiniteSet(Waits \cup LiveJobs)
      /\ IsFiniteSet(Waits') /\ IsFiniteSet((Waits \cup LiveJobs)')
    BY CommandAssumption, FS_Subset DEF Waits, LiveJobs, InCmd, InJob
<1>b. /\ Cardinality(Waits) \in Nat /\ Cardinality(LiveJobs) \in Nat
      /\ Cardinality(Waits \cup LiveJobs) \in Nat
      /\ Cardinality(Waits') \in Nat /\ Cardinality((Waits \cup LiveJobs)') \in Nat
      /\ MaxPending \in Nat /\ MaxActive \in Nat
    BY <1>a, LimitAssumption, FS_CardinalityType
<1>c. Cardinality(Waits) <= MaxPending /\ Cardinality(Waits \cup LiveJobs) <= MaxActive
    BY DEF QuotaHolds, Waits, LiveJobs
<1>d. Cardinality(Waits \cup LiveJobs) = Cardinality(LiveJobs) + Cardinality(Waits)
    <2>1. Waits \cap LiveJobs = {}
        BY DEF Inv, Linked, LinkedAt, Waiting, Waits, LiveJobs, InCmd, InJob
    <2> QED BY <1>a, <2>1, Disjoint
<1>1. ASSUME NEW c \in Cmds, Receive(c), NEW d \in Cmds, Receive(d) PROVE c = d
    <2>1. \A e \in Cmds : Receive(e) => cmd[e] = "absent" /\ cmd' # cmd
                                         /\ \A f \in Cmds \ {e} : cmd'[f] = cmd[f]
        BY DEF Receive, Inv, TypeOK
    <2> QED BY <1>1, <2>1 DEF Inv, TypeOK
<1>2. Cardinality(Waits') <= MaxPending
    <2>1. CASE Waits' \subseteq Waits
        BY <1>a, <1>b, <1>c, <2>1, FS_Subset
    <2>2. CASE ~(Waits' \subseteq Waits)
        <3>1. PICK c \in Waits' : c \notin Waits
            BY <2>2
        <3>2. c \in Cmds /\ Receive(c) /\ Cardinality(Waits) < MaxPending
            BY <3>1, NoneJoinsTheWaiting DEF Receive, QuotaAllows, Waits, InCmd
        <3>3. Waits' \subseteq Waits \cup {c}
            BY <1>1, <3>2, NoneJoinsTheWaiting DEF Waits, InCmd
        <3>4. Cardinality(Waits') <= Cardinality(Waits) + 1
            BY <1>a, <3>3, AtMostOneMore
        <3> QED BY <1>b, <3>2, <3>4
    <2> QED BY <2>1, <2>2
<1>3. Cardinality((Waits \cup LiveJobs)') <= MaxActive
    <2>1. CASE (Waits \cup LiveJobs)' \subseteq Waits \cup LiveJobs
        BY <1>a, <1>b, <1>c, <2>1, FS_Subset
    <2>2. CASE ~((Waits \cup LiveJobs)' \subseteq Waits \cup LiveJobs)
        <3>1. PICK c \in (Waits \cup LiveJobs)' : c \notin Waits \cup LiveJobs
            BY <2>2
        <3>2. c \in Cmds /\ Receive(c) /\ Cardinality(Waits \cup LiveJobs) < MaxActive
            BY <1>b, <1>d, <3>1, OnlyReceiptOpens DEF Receive, QuotaAllows, Waits, LiveJobs, InCmd, InJob
        <3>3. (Waits \cup LiveJobs)' \subseteq (Waits \cup LiveJobs) \cup {c}
            BY <1>1, <3>2, OnlyReceiptOpens DEF Waits, LiveJobs, InCmd, InJob
        <3>4. Cardinality((Waits \cup LiveJobs)') <= Cardinality((Waits \cup LiveJobs)) + 1
            BY <1>a, <3>3, AtMostOneMore
        <3> QED BY <1>b, <3>2, <3>4
    <2> QED BY <2>1, <2>2
<1> QED BY <1>2, <1>3 DEF QuotaHolds, Waits, LiveJobs

(* The quotas outlive their check: no conversion, restart or sweep ever    *)
(* gives a user more open commands than a receipt may admit.               *)
THEOREM QuotaHoldsAlways == Spec => []QuotaHolds
<1>1. Init => QuotaHolds
    <2> SUFFICES ASSUME Init PROVE QuotaHolds
        OBVIOUS
    <2>1. Waits = {} /\ Waits \cup LiveJobs = {}
        BY DEF Init, Waits, LiveJobs, InCmd, InJob
    <2>2. InCmd("awaiting_approval") = {}
          /\ InCmd("awaiting_approval") \cup InJob(job, "queued") \cup InJob(job, "running") = {}
        BY <2>1 DEF Waits, LiveJobs
    <2> QED BY <2>2, FS_EmptySet, LimitAssumption DEF QuotaHolds
<1>2. QuotaHolds /\ Inv /\ Inv' /\ [Next]_vars => QuotaHolds'
    <2>1. ASSUME QuotaHolds, UNCHANGED vars PROVE QuotaHolds'
        BY <2>1 DEF QuotaHolds, vars, commands, jobs, InCmd, InJob
    <2> QED BY <2>1, QuotaStep
<1> QED BY <1>1, <1>2, InvHolds, PTL DEF Spec
=============================================================================
