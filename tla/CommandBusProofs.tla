--------------------------- MODULE CommandBusProofs ---------------------------
(***************************************************************************)
(* What holds of CommandBus for every set of commands, schedules, limits   *)
(* and times, and whichever writes break: its types, the link between a    *)
(* command and its job, and the promise of CommandLifecycle to a reader.   *)
(***************************************************************************)
EXTENDS CommandBus, TLAPS

JobStates == {"absent", "queued", "running"} \cup Terminal

(* What is left to know of a pump over the rows jb with hd held: it moves  *)
(* queued rows to running and takes their slots.                           *)
Pumped(jb, hd) ==
    /\ job' \in [Cmds -> JobStates] /\ held' \subseteq Cmds /\ doomed' \subseteq held'
    /\ \A c \in Cmds :
           \/ job'[c] = jb[c] /\ (c \in held' <=> c \in hd)
           \/ jb[c] = "queued" /\ job'[c] = "running" /\ c \in held'

LEMMA ClaimFacts ==
    ASSUME NEW jb \in [Cmds -> JobStates], NEW hd \in SUBSET Cmds, NEW C \in SUBSET Cmds,
           C = {} \/ IsDrain(jb, C), Claim(C, jb, hd)
    PROVE  Pumped(jb, hd)
<1>1. \A c \in C : jb[c] = "queued"
    BY DEF IsDrain, InJob
<1>2. doomed' \subseteq held'
    BY DEF Claim
<1> QED BY <1>1, <1>2 DEF Pumped, Claim, JobStates

LEMMA PumpFacts ==
    ASSUME NEW jb \in [Cmds -> JobStates], NEW hd \in SUBSET Cmds, Pump(jb, hd)
    PROVE  Pumped(jb, hd)
<1>1. PICK C \in SUBSET Cmds : (C = {} \/ IsDrain(jb, C)) /\ Claim(C, jb, hd)
    BY DEF Pump
<1> QED BY <1>1, ClaimFacts

-----------------------------------------------------------------------------
(* Types.                                                                  *)

Verdict == Terminal \cup {"server_restarted", "tier_denied", "expired"}

LEMMA LogTypes ==
    ASSUME TypeOK, NEW jb \in [Cmds -> JobStates]
    PROVE  /\ LogRepaired(jb) \in [Cmds -> Verdict \cup {"nothing"}]
           /\ \A S : ToldExpired(S) \in [Cmds -> Verdict \cup {"nothing"}]
           /\ \A S : CmdExpired(S) \in [Cmds -> CmdStates]
           /\ \A c \in Cmds : Ensured(c, jb[c], told[c]) \in Verdict \cup {"nothing"}
<1>1. \A c \in Cmds : Ensured(c, jb[c], told[c]) \in Verdict \cup {"nothing"}
    BY DEF TypeOK, Ensured, TerminalFor, Verdict, Terminal
<1> QED BY <1>1 DEF TypeOK, LogRepaired, ToldExpired, CmdExpired, CmdStates, Verdict, Terminal

LEMMA TypeInit == Init => TypeOK
BY CommandAssumption, TimeAssumption DEF Init, TypeOK, CmdStates, Terminal

(* The parts of the state no command step but the named ones touch.        *)
LEMMA TypeStep ==
    ASSUME TypeOK, [Next]_vars
    PROVE  TypeOK'
<1> USE DEF TypeOK
<1> SUFFICES ASSUME Next PROVE TypeOK'
    BY DEF vars, commands, jobs, settings, process
<1>1. ASSUME NEW c \in Cmds, Receive(c) PROVE TypeOK'
    <2>1. CASE UNCHANGED <<job, held, doomed>>
        BY <1>1, <2>1 DEF Receive, settings, CmdStates
    <2>2. CASE Pump([job EXCEPT ![c] = "queued"], held)
        <3>1. Pumped([job EXCEPT ![c] = "queued"], held)
            BY <2>2, PumpFacts DEF JobStates
        <3>2. cmd' \in [Cmds -> CmdStates] /\ createdAt' \in [Cmds -> Nat]
            BY <1>1, <2>2 DEF Receive, CmdStates
        <3>3. /\ UNCHANGED <<approved, via, slotAsked, decidedAt, cancelRequested, quit, told>>
              /\ UNCHANGED <<enabled, sched, until, lastRun, registered, phase, now>>
            BY <1>1 DEF Receive, settings
        <3> QED BY <3>1, <3>2, <3>3 DEF Pumped, JobStates
    <2> QED BY <1>1, <2>1, <2>2 DEF Receive
<1>2. ASSUME NEW c \in Cmds, NEW s \in Schedules \cup {None}, Enqueue(c, s) PROVE TypeOK'
    <2>1. Pumped([job EXCEPT ![c] = "queued"], held)
        BY <1>2, PumpFacts DEF Enqueue, JobStates
    <2>2. /\ ToldExpired(Overdue) \in [Cmds -> Verdict \cup {"nothing"}]
          /\ CmdExpired(Overdue) \in [Cmds -> CmdStates]
        BY LogTypes DEF JobStates
    <2>3. lastRun' \in [Schedules -> Nat \cup {-1}] /\ decidedAt' \in [Cmds -> Nat]
        BY <1>2, CommandAssumption DEF Enqueue
    <2>4. cmd' \in [Cmds -> CmdStates] /\ via' \in [Cmds -> Schedules \cup {None}]
        BY <1>2, <2>2 DEF Enqueue, CmdStates
    <2> QED BY <1>2, <2>1, <2>2, <2>3, <2>4 DEF Enqueue, Pumped, JobStates, Verdict
<1>3. ASSUME NEW c \in Cmds, Deny(c) \/ CancelPending(c) PROVE TypeOK'
    BY <1>3 DEF Deny, CancelPending, jobs, settings, process, CmdStates, Terminal
<1>4. ASSUME NEW c \in Cmds, CancelQueued(c) \/ CancelRunning(c) PROVE TypeOK'
    <2>1. [job EXCEPT ![c] = "cancelled"] \in [Cmds -> JobStates]
        BY DEF JobStates, Terminal
    <2>2. Ensured(c, "cancelled", told[c]) \in Verdict \cup {"nothing"}
        BY <2>1, LogTypes
    <2> QED BY <1>4, <2>2 DEF CancelQueued, CancelRunning, commands, settings, process,
                   Verdict, Terminal
<1>5. ASSUME NEW c \in Cmds, Read(c) PROVE TypeOK'
    <2>1. /\ ToldExpired(Overdue) \in [Cmds -> Verdict \cup {"nothing"}]
          /\ CmdExpired(Overdue) \in [Cmds -> CmdStates]
          /\ Ensured(c, job[c], told[c]) \in Verdict \cup {"nothing"}
        BY LogTypes DEF JobStates
    <2> QED BY <1>5, <2>1 DEF Read, jobs, settings, process, Verdict
<1>6. ASSUME NEW c \in Cmds, HandlerEnds(c) PROVE TypeOK'
    <2>1. ASSUME NEW s \in Outcomes(c), NEW jb, jb = [job EXCEPT ![c] = s]
          PROVE  jb \in [Cmds -> JobStates] /\ s \in Terminal
        BY <2>1 DEF Outcomes, JobStates, Terminal
    <2>2. ASSUME NEW jb \in [Cmds -> JobStates], Pump(jb, held \ {c})
          PROVE  job' \in [Cmds -> JobStates] /\ held' \subseteq Cmds /\ doomed' \subseteq held'
        BY <2>2, PumpFacts DEF Pumped
    <2>3. /\ job' \in [Cmds -> JobStates] /\ held' \subseteq Cmds /\ doomed' \subseteq held'
          /\ phase' \in {"off", "on", "stopping"}
        BY <1>6, <2>1, <2>2 DEF HandlerEnds, ProcessGone, JobStates
    <2>5. ASSUME NEW s \in Outcomes(c), NEW byQuit \in BOOLEAN
          PROVE  [told EXCEPT ![c] = IF @ = "nothing" THEN TerminalFor(s, byQuit) ELSE @]
                     \in [Cmds -> Verdict \cup {"nothing"}]
        BY <2>1, <2>5 DEF TerminalFor, Verdict, Terminal
    <2>6. told \in [Cmds -> Verdict \cup {"nothing"}]
        BY DEF Verdict
    <2>7. \/ told' = told
          \/ \E s \in Outcomes(c), byQuit \in BOOLEAN :
                 told' = [told EXCEPT ![c] = IF @ = "nothing" THEN TerminalFor(s, byQuit) ELSE @]
        BY <1>6 DEF HandlerEnds
    <2>4. told' \in [Cmds -> Verdict \cup {"nothing"}] /\ quit' \subseteq Cmds
        <3>1. told' \in [Cmds -> Verdict \cup {"nothing"}]
            BY <2>5, <2>6, <2>7
        <3>2. quit' \in {quit, quit \cup {c}}
            BY <1>6, Zenon DEF HandlerEnds
        <3>3. quit' \subseteq Cmds
            BY <1>6, <3>2
        <3> QED BY <3>1, <3>3
    <2> QED BY <1>6, <2>3, <2>4 DEF HandlerEnds, commands, settings, JobStates, Verdict
<1>15. ASSUME NEW stale \in SUBSET Orphans, ReapAndPump(stale)
       PROVE  job' \in [Cmds -> JobStates] /\ held' \subseteq Cmds /\ doomed' \subseteq held'
    <2>1. Reaped(stale) \in [Cmds -> JobStates]
        BY DEF Reaped, JobStates, Terminal
    <2> QED BY <1>15, <2>1, PumpFacts DEF ReapAndPump, Pumped, JobStates
<1>16. \A stale, untold \in SUBSET Orphans :
          ReapedTold(stale, untold) \in [Cmds -> Verdict \cup {"nothing"}]
    BY DEF ReapedTold, Ensured, TerminalFor, Verdict, Terminal
<1>7. ASSUME NEW c \in Cmds, ExpireThrows(c) PROVE TypeOK'
    <2>1. PICK S \in SUBSET (Overdue \ {c}), stale \in SUBSET Orphans :
              /\ cmd' = CmdExpired(S \cup {c})
              /\ told' = [d \in Cmds |-> IF d \in S THEN "expired" ELSE ReapedTold(stale, {})[d]]
              /\ ReapAndPump(stale)
        BY <1>7 DEF ExpireThrows
    <2>2. CmdExpired(S \cup {c}) \in [Cmds -> CmdStates]
        BY DEF CmdExpired, CmdStates
    <2>6. {} \in SUBSET Orphans
        OBVIOUS
    <2>7. ReapedTold(stale, {}) \in [Cmds -> Verdict \cup {"nothing"}]
        BY <1>16, <2>1, <2>6
    <2>3. cmd' \in [Cmds -> CmdStates] /\ told' \in [Cmds -> Verdict \cup {"nothing"}]
        BY <2>1, <2>2, <2>7 DEF Verdict
    <2>4. job' \in [Cmds -> JobStates] /\ held' \subseteq Cmds /\ doomed' \subseteq held'
        BY <1>15, <2>1
    <2>5. /\ UNCHANGED <<approved, via, createdAt, slotAsked, decidedAt, cancelRequested, quit>>
          /\ UNCHANGED <<enabled, sched, until, lastRun, registered, phase, now>>
        BY <1>7 DEF ExpireThrows, settings
    <2> QED BY <2>3, <2>4, <2>5 DEF JobStates, Verdict
<1>8. ASSUME SettingStep PROVE TypeOK'
    <2>1. ASSUME NEW k \in Kinds, SwitchKind(k) PROVE TypeOK'
        BY <2>1 DEF SwitchKind, commands, jobs, process
    <2>2. ASSUME NEW s \in Schedules, CreateSchedule(s) PROVE TypeOK'
        <3>1. now + StandingFor[s] \in Nat
            BY TimeAssumption
        <3> QED BY <2>2, <3>1 DEF CreateSchedule, commands, jobs, process
    <2>3. ASSUME NEW s \in Schedules, DeleteSchedule(s) PROVE TypeOK'
        BY <2>3 DEF DeleteSchedule, commands, jobs, process
    <2>4. ASSUME NEW p \in Projects, ToggleProject(p) PROVE TypeOK'
        BY <2>4 DEF ToggleProject, commands, jobs, process
    <2> QED BY <1>8, <2>1, <2>2, <2>3, <2>4 DEF SettingStep
<1>9. ASSUME NEW jb \in [Cmds -> JobStates], Maintain(jb)
      PROVE  /\ cmd' \in [Cmds -> CmdStates] /\ told' \in [Cmds -> Verdict \cup {"nothing"}]
             /\ UNCHANGED <<approved, via, createdAt, slotAsked, decidedAt>>
    BY <1>9, LogTypes DEF Maintain, CmdStates
<1>10. ASSUME Sweep \/ SweepThrows PROVE TypeOK'
    <2>1. CASE Sweep
        <3>1. PICK stale \in SUBSET Orphans :
                  /\ Maintain(Reaped(stale)) /\ ReapAndPump(stale)
                  /\ UNCHANGED <<cancelRequested, quit, settings, phase, now>>
            BY <2>1 DEF Sweep
        <3>2. Reaped(stale) \in [Cmds -> JobStates]
            BY DEF Reaped, JobStates, Terminal
        <3> QED BY <1>9, <1>15, <3>1, <3>2 DEF settings, JobStates, Verdict
    <2>2. CASE SweepThrows
        <3>1. PICK stale \in SUBSET Orphans, untold \in SUBSET Orphans :
                  ReapAndPump(stale) /\ told' = ReapedTold(stale, untold)
            BY <2>2 DEF SweepThrows
        <3> QED BY <1>15, <1>16, <2>2, <3>1 DEF SweepThrows, commands, settings, JobStates, Verdict
    <2> QED BY <1>10, <2>1, <2>2
<1>11. ASSUME SweepDies \/ Stop \/ Exit \/ Crash \/ Tick PROVE TypeOK'
    BY <1>11 DEF SweepDies, Stop, Exit, Crash, Tick, ProcessGone, Reaped,
              commands, jobs, settings, process, Terminal
<1>12. Swept \in [Cmds -> JobStates]
    BY DEF Swept, JobStates, Terminal
<1>13. ASSUME Boot PROVE TypeOK'
    <2>1. Pumped(Swept, {})
        BY <1>12, <1>13, ClaimFacts DEF Boot
    <2> QED BY <1>9, <1>12, <1>13, <2>1 DEF Boot, Pumped, settings, JobStates, Verdict
<1>14. ASSUME BootDies \/ BootUnswept PROVE TypeOK'
    <2>1. CASE BootDies
        BY <1>12, <2>1 DEF BootDies, commands, settings, process, JobStates
    <2>2. CASE BootUnswept
        <3>1. Pumped(Swept, {})
            BY <1>12, <2>2, ClaimFacts DEF BootUnswept
        <3> QED BY <2>2, <3>1 DEF BootUnswept, Pumped, commands, settings, JobStates
    <2> QED BY <1>14, <2>1, <2>2
<1>17. ASSUME NEW c \in Cmds, Ask(c) PROVE TypeOK'
    <2>1. now \div Interval \in Nat
        BY TimeAssumption
    <2> QED BY <1>17, <2>1 DEF Ask, jobs, settings, process
<1> QED
    BY <1>1, <1>2, <1>3, <1>4, <1>5, <1>6, <1>7, <1>8, <1>10, <1>11, <1>13, <1>14, <1>17
    DEF Next, CommandStep, ProcessStep, Approve, ApproveStanding

(* Every reachable state is well typed.                                    *)
THEOREM TypeCorrect == Spec => []TypeOK
BY TypeInit, TypeStep, PTL DEF Spec

-----------------------------------------------------------------------------
(* How a step moves one command.                                           *)

Waiting == {"absent", "awaiting_approval", "denied", "expired", "cancelled"}

(* Command, job, slot and log of c agree.                                  *)
LinkedAt(c) ==
    /\ cmd[c] \in Waiting => job[c] = "absent"
    /\ cmd[c] = "enqueued" => job[c] # "absent"
    /\ cmd[c] = "purged" => job[c] \in Terminal \cup {"absent"}
    /\ job[c] # "absent" /\ TierOf(KindOf[c]) # "T0" => c \in approved
    /\ c \in held => job[c] = "running"
    /\ told[c] # "nothing" => cmd[c] \in {"denied", "expired", "cancelled", "purged"}
                                \/ (cmd[c] = "enqueued" /\ job[c] \in Terminal)
    /\ cmd[c] \in {"denied", "cancelled"} => told[c] # "nothing"
    /\ cmd[c] = "expired" => told[c] # "nothing" \/ "expire" \in DiesIn

Linked == \A c \in Cmds : LinkedAt(c)
Inv == TypeOK /\ Linked /\ (phase = "off" => held = {})

(* A terminal event for a command that ends in s is written now, or not.   *)
MayTell(c, s) ==
    told'[c] = told[c] \/ (told[c] = "nothing" /\ told'[c] \in Lifecycle!Verdicts(s))

Stayed(c) == cmd'[c] = cmd[c] /\ job'[c] = job[c] /\ told'[c] = told[c]
Claimed(c) ==
    cmd'[c] = cmd[c] /\ job[c] = "queued" /\ job'[c] = "running" /\ told'[c] = told[c]
Received(c) ==
    /\ cmd[c] = "absent" /\ told'[c] = told[c]
    /\ \/ cmd'[c] = "awaiting_approval" /\ job'[c] = job[c]
       \/ /\ cmd'[c] = "enqueued" /\ job'[c] \in {"queued", "running"}
          /\ TierOf(KindOf[c]) = "T0"
Allowed(c) ==
    /\ cmd[c] = "awaiting_approval" /\ cmd'[c] = "enqueued" /\ c \in approved'
    /\ job'[c] \in {"queued", "running"} /\ told'[c] = told[c]
Refused(c) ==
    /\ cmd[c] = "awaiting_approval" /\ cmd'[c] \in {"denied", "expired", "cancelled"}
    /\ job'[c] = job[c] /\ MayTell(c, cmd'[c])
    /\ told'[c] = "nothing" => cmd'[c] = "expired" /\ "expire" \in DiesIn
Ended(c) ==
    /\ cmd[c] = "enqueued" /\ cmd'[c] = "enqueued" /\ MayTell(c, job'[c])
    /\ \/ job[c] = "queued" /\ job'[c] = "cancelled"
       \/ job[c] = "running" /\ job'[c] \in Terminal
       \/ job[c] \in Terminal /\ job'[c] = job[c]
Purged(c) ==
    /\ cmd'[c] = "purged" /\ told'[c] = told[c]
    /\ \/ cmd[c] \in Waiting \ {"absent"} /\ job'[c] = job[c]
       \/ cmd[c] = "enqueued" /\ job'[c] \in Terminal /\ job[c] \in {job'[c], "running"}

Move(c) ==
    /\ c \in approved => c \in approved'
    /\ c \in held' => job'[c] = "running"
    /\ \/ Stayed(c) \/ Claimed(c) \/ Received(c) \/ Allowed(c)
       \/ Refused(c) \/ Ended(c) \/ Purged(c)

(* What ensureTerminal writes is a verdict on the job's end.               *)
LEMMA EnsuredTells ==
    ASSUME NEW c \in Cmds, NEW s, told'[c] = Ensured(c, s, told[c])
    PROVE  told'[c] = told[c] \/ (cmd[c] = "enqueued" /\ s \in Terminal /\ MayTell(c, s))
BY DEF Ensured, TerminalFor, MayTell, Terminal, Lifecycle!Verdicts, Lifecycle!Final

(* An overdue command expires; every other keeps its row.                  *)
LEMMA ExpiryMoves ==
    ASSUME TypeOK, NEW S \in SUBSET Overdue, NEW c \in Cmds
    PROVE  /\ c \notin S => CmdExpired(S)[c] = cmd[c] /\ ToldExpired(S)[c] = told[c]
           /\ c \in S => /\ cmd[c] = "awaiting_approval"
                         /\ CmdExpired(S)[c] = "expired" /\ ToldExpired(S)[c] = "expired"
BY DEF TypeOK, CmdExpired, ToldExpired, Overdue, InCmd

(* The sweep's tail, over the job rows jb that a reaping made: every       *)
(* command stays, expires, is told or is purged.                           *)
LEMMA MaintainMoves ==
    ASSUME Inv, NEW jb \in [Cmds -> JobStates], NEW c \in Cmds, Maintain(jb),
           jb[c] = job[c] \/ (job[c] = "running" /\ jb[c] \in Terminal),
           job'[c] = jb[c] \/ (jb[c] = "queued" /\ job'[c] = "running")
    PROVE  Stayed(c) \/ Claimed(c) \/ Refused(c) \/ Ended(c) \/ Purged(c)
<1> USE DEF Inv, TypeOK
<1>1. CASE c \in Old(jb)
    <2>1. cmd'[c] = "purged" /\ told'[c] = told[c]
        BY <1>1 DEF Maintain, LogRepaired
    <2>2. \/ cmd[c] \in Waiting \ {"absent"}
          \/ cmd[c] = "enqueued" /\ jb[c] \in Terminal
        BY <1>1 DEF Old, Overdue, InCmd, Waiting
    <2>3. cmd[c] \in Waiting => job[c] = "absent"
        BY DEF Linked, LinkedAt
    <2> QED BY <2>1, <2>2, <2>3 DEF Purged, Waiting, Terminal
<1>2. CASE c \notin Old(jb) /\ c \in Overdue
    <2>1. cmd[c] = "awaiting_approval" /\ cmd'[c] = "expired" /\ told'[c] = "expired"
        BY <1>2 DEF Maintain, LogRepaired, CmdExpired, Overdue, InCmd
    <2>2. job[c] = "absent" /\ told[c] = "nothing"
        BY <2>1 DEF Linked, LinkedAt, Waiting
    <2> QED BY <2>1, <2>2 DEF Refused, MayTell, Terminal, Lifecycle!Verdicts, Lifecycle!Final
<1>3. CASE c \notin Old(jb) /\ c \notin Overdue
    <2>1. cmd'[c] = cmd[c] /\ told'[c] = Ensured(c, jb[c], told[c])
        BY <1>3 DEF Maintain, LogRepaired, CmdExpired
    <2>2. told'[c] = told[c] \/ (cmd[c] = "enqueued" /\ jb[c] \in Terminal /\ MayTell(c, jb[c]))
        BY <2>1, EnsuredTells
    <2>3. job[c] = "running" => cmd[c] = "enqueued"
        BY DEF Linked, LinkedAt, Waiting, CmdStates, Terminal
    <2>4. CASE told'[c] = told[c]
        BY <2>1, <2>3, <2>4 DEF Stayed, Claimed, Ended, MayTell, Terminal
    <2>5. CASE cmd[c] = "enqueued" /\ jb[c] \in Terminal /\ MayTell(c, jb[c])
        BY <2>1, <2>5 DEF Ended, Terminal
    <2> QED BY <2>2, <2>4, <2>5
<1> QED BY <1>1, <1>2, <1>3

(* A step that touches neither rows nor log, and holds no new slot.        *)
LEMMA QuietMoves ==
    ASSUME Inv, UNCHANGED <<cmd, approved, job, told>>, held' \subseteq held
    PROVE  \A c \in Cmds : Move(c)
BY DEF Inv, Linked, LinkedAt, Move, Stayed

(* A pump over the rows jb, for one command and the slots hd of running    *)
(* rows.                                                                   *)
LEMMA PumpedMoves ==
    ASSUME Inv, NEW jb \in [Cmds -> JobStates], NEW hd \in SUBSET held, Pumped(jb, hd),
           NEW c \in Cmds, c \in hd => jb[c] = "running"
    PROVE  /\ job'[c] = jb[c] \/ (jb[c] = "queued" /\ job'[c] = "running")
           /\ c \in held' => job'[c] = "running"
BY DEF Pumped

(* A reaping with its pump, for one command.                               *)
LEMMA ReapedMoves ==
    ASSUME Inv, NEW stale \in SUBSET Orphans, ReapAndPump(stale), NEW c \in Cmds
    PROVE  /\ Reaped(stale) \in [Cmds -> JobStates]
           /\ \/ Reaped(stale)[c] = job[c] /\ c \notin stale
              \/ job[c] = "running" /\ c \in stale /\ Reaped(stale)[c] = "interrupted"
           /\ \/ job'[c] = Reaped(stale)[c]
              \/ Reaped(stale)[c] = "queued" /\ job'[c] = "running"
           /\ c \in held' => job'[c] = "running"
<1>1. LinkedAt(c) /\ job \in [Cmds -> JobStates] /\ held \in SUBSET Cmds
    BY DEF Inv, TypeOK, Linked, JobStates
<1>2. /\ Reaped(stale) \in [Cmds -> JobStates]
      /\ \/ Reaped(stale)[c] = job[c] /\ c \notin stale
         \/ job[c] = "running" /\ c \in stale /\ Reaped(stale)[c] = "interrupted"
      /\ c \in held => Reaped(stale)[c] = "running"
      /\ stale = {} => Reaped(stale)[c] = job[c]
    BY <1>1 DEF Reaped, Orphans, InJob, LinkedAt, JobStates, Terminal
<1> QED BY <1>1, <1>2, PumpFacts, PumpedMoves DEF ReapAndPump, LinkedAt

LEMMA EveryStepMoves ==
    ASSUME Inv, Next
    PROVE  \A c \in Cmds : Move(c)
<1> USE DEF Inv, TypeOK
<1> SUFFICES ASSUME NEW c \in Cmds PROVE Move(c)
    OBVIOUS
<1>a. /\ LinkedAt(c)
      /\ job \in [Cmds -> JobStates] /\ held \in SUBSET Cmds
    BY DEF Linked, JobStates
<1>b. cmd[c] \notin {"enqueued", "purged"} => job[c] = "absent" /\ c \notin held
    BY <1>a DEF LinkedAt, Waiting, CmdStates
<1>c. cmd[c] = "awaiting_approval" => told[c] = "nothing"
    BY <1>a DEF LinkedAt
<1>1. ASSUME NEW d \in Cmds, Receive(d) PROVE Move(c)
    <2>1. /\ cmd[d] = "absent" /\ approved' = approved /\ told' = told
          /\ d # c => cmd'[c] = cmd[c]
        BY <1>1 DEF Receive
    <2>2. CASE UNCHANGED <<job, held, doomed>>
        <3>1. cmd' = [cmd EXCEPT ![d] = "awaiting_approval"]
              \/ (cmd' = [cmd EXCEPT ![d] = "enqueued"]
                    /\ Pump([job EXCEPT ![d] = "queued"], held))
            BY <1>1, <2>2 DEF Receive
        <3>2. ~(Pump([job EXCEPT ![d] = "queued"], held))
            <4>1. job[d] = "absent"
                BY <2>1 DEF Linked, LinkedAt, Waiting
            <4> SUFFICES ASSUME Pump([job EXCEPT ![d] = "queued"], held) PROVE FALSE
                OBVIOUS
            <4>2. Pumped([job EXCEPT ![d] = "queued"], held)
                BY <1>a, PumpFacts DEF JobStates
            <4> QED BY <2>2, <4>1, <4>2, <1>a DEF Pumped
        <3> QED BY <1>a, <2>1, <2>2, <3>1, <3>2 DEF Move, Stayed, Received, LinkedAt
    <2>3. CASE /\ cmd' = [cmd EXCEPT ![d] = "enqueued"] /\ Pump([job EXCEPT ![d] = "queued"], held)
               /\ DecideReceipt(ClientOf[d], KindOf[d], KindOf[d] \in enabled)
                      \notin {"needs_approval", "tier_denied"}
        <3>1. Pumped([job EXCEPT ![d] = "queued"], held)
            BY <1>a, <2>3, PumpFacts DEF JobStates
        <3>2. d \notin held
            BY <2>1 DEF Linked, LinkedAt, Waiting
        <3>3. TierOf(KindOf[d]) = "T0"
            BY <2>3 DEF DecideReceipt
        <3>4. /\ d # c /\ job'[c] = job[c] => Stayed(c)
              /\ d # c /\ job[c] = "queued" /\ job'[c] = "running" => Claimed(c)
              /\ d = c /\ job'[c] \in {"queued", "running"} => Received(c)
            BY <2>1, <2>3, <3>3 DEF Stayed, Claimed, Received
        <3>5. /\ d # c => job'[c] = job[c] \/ (job[c] = "queued" /\ job'[c] = "running")
              /\ d = c => job'[c] \in {"queued", "running"}
              /\ c \in held' => job'[c] = "running"
            BY <1>a, <3>1, <3>2 DEF Pumped, LinkedAt
        <3> QED BY <2>1, <3>4, <3>5 DEF Move
    <2> QED BY <1>1, <2>2, <2>3 DEF Receive
<1>2. ASSUME NEW d \in Cmds, NEW s, Enqueue(d, s) PROVE Move(c)
    <2>1. Pumped([job EXCEPT ![d] = "queued"], held)
        BY <1>2, <1>a, PumpFacts DEF Enqueue, JobStates
    <2>2. /\ cmd[d] = "awaiting_approval" /\ d \notin Overdue /\ approved' = approved \cup {d}
          /\ cmd' = [CmdExpired(Overdue) EXCEPT ![d] = "enqueued"] /\ told' = ToldExpired(Overdue)
        BY <1>2 DEF Enqueue, InCmd
    <2>3. d \notin held
        BY <2>2 DEF Linked, LinkedAt, Waiting
    <2>4. /\ d # c => job'[c] = job[c] \/ (job[c] = "queued" /\ job'[c] = "running")
          /\ d = c => job'[c] \in {"queued", "running"}
          /\ c \in held' => job'[c] = "running"
        BY <1>a, <2>1, <2>3 DEF Pumped, LinkedAt
    <2>5. /\ c \notin Overdue => CmdExpired(Overdue)[c] = cmd[c] /\ told'[c] = told[c]
          /\ c \in Overdue => /\ cmd[c] = "awaiting_approval"
                              /\ CmdExpired(Overdue)[c] = "expired" /\ told'[c] = "expired"
        BY <2>2, ExpiryMoves
    <2>6. CASE c = d
        BY <2>2, <2>4, <2>5, <2>6 DEF Move, Allowed, CmdExpired
    <2>7. CASE c # d /\ c \in Overdue
        <3>1. cmd'[c] = "expired" /\ job'[c] = job[c] /\ c \notin held'
            BY <1>b, <2>2, <2>4, <2>5, <2>7 DEF CmdExpired
        <3>2. Refused(c)
            BY <1>c, <2>5, <2>7, <3>1 DEF Refused, MayTell, Lifecycle!Verdicts, Lifecycle!Final
        <3> QED BY <2>2, <3>1, <3>2 DEF Move
    <2>8. CASE c # d /\ c \notin Overdue
        <3>1. cmd'[c] = cmd[c] /\ told'[c] = told[c]
            BY <2>2, <2>5, <2>8 DEF CmdExpired
        <3> QED BY <2>2, <2>4, <2>8, <3>1 DEF Move, Stayed, Claimed
    <2> QED BY <2>6, <2>7, <2>8
<1>3. ASSUME NEW d \in Cmds, Deny(d) \/ CancelPending(d) PROVE Move(c)
    <2>1. CASE c = d
        <3>1. Refused(c)
            BY <1>3, <1>c, <2>1 DEF Deny, CancelPending, jobs, Refused, MayTell,
                                   Lifecycle!Verdicts, Lifecycle!Final
        <3> QED BY <1>3, <1>a, <3>1 DEF Deny, CancelPending, jobs, process, Move, LinkedAt
    <2>2. CASE c # d
        BY <1>3, <1>a, <2>2 DEF Deny, CancelPending, jobs, process, Move, Stayed, LinkedAt
    <2> QED BY <2>1, <2>2
<1>4. ASSUME NEW d \in Cmds, CancelQueued(d) PROVE Move(c)
    <2>1. /\ cmd[d] = "enqueued" /\ job[d] = "queued" /\ cmd' = cmd /\ approved' = approved
          /\ job' = [job EXCEPT ![d] = "cancelled"] /\ held' \subseteq held
          /\ \/ told' = told
             \/ told' = [told EXCEPT ![d] = Ensured(d, "cancelled", told[d])]
        BY <1>4 DEF CancelQueued, process, commands
    <2>2. d \notin held
        BY <2>1 DEF Linked, LinkedAt
    <2>3. CASE c = d
        <3>1. told'[c] = told[c] \/ MayTell(c, "cancelled")
            BY <2>1, <2>3, EnsuredTells
        <3> QED BY <2>1, <2>2, <2>3, <3>1 DEF Move, Ended, MayTell
    <2>4. CASE c # d
        BY <1>a, <2>1, <2>4 DEF Move, Stayed, LinkedAt
    <2> QED BY <2>3, <2>4
<1>5. ASSUME NEW d \in Cmds, CancelRunning(d) PROVE Move(c)
    BY <1>5, QuietMoves DEF CancelRunning, commands, process
<1>6. ASSUME NEW S \in SUBSET Overdue, cmd' = CmdExpired(S), c \in Overdue, c \in S,
             told'[c] = "expired" \/ (told'[c] = "nothing" /\ "expire" \in DiesIn), UNCHANGED <<approved, job>>, held' \subseteq held
      PROVE  Move(c)
    <2>1. cmd[c] = "awaiting_approval" /\ cmd'[c] = "expired"
        BY <1>6, ExpiryMoves
    <2>2. Refused(c)
        BY <1>6, <1>c, <2>1 DEF Refused, MayTell, Lifecycle!Verdicts, Lifecycle!Final
    <2> QED BY <1>6, <1>b, <2>1, <2>2 DEF Move
<1>7. ASSUME NEW d \in Cmds, Read(d) PROVE Move(c)
    <2>1. /\ cmd' = CmdExpired(Overdue) /\ UNCHANGED <<approved, job, held>>
          /\ told' = [ToldExpired(Overdue) EXCEPT ![d] =
                          IF d \in Overdue THEN "expired" ELSE Ensured(d, job[d], told[d])]
        BY <1>7 DEF Read, jobs, process
    <2>2. ToldExpired(Overdue) \in [Cmds -> Verdict \cup {"nothing"}]
        BY <1>a, LogTypes
    <2>3. CASE c \in Overdue
        BY <1>6, <2>1, <2>2, <2>3, ExpiryMoves
    <2>4. CASE c \notin Overdue
        <3>1. cmd'[c] = cmd[c] /\ ToldExpired(Overdue)[c] = told[c]
            BY <2>1, <2>4, ExpiryMoves
        <3>2. told'[c] = told[c] \/ (c = d /\ told'[c] = Ensured(c, job[c], told[c]))
            BY <2>1, <2>2, <2>4, <3>1
        <3>3. told'[c] = told[c] \/ (cmd[c] = "enqueued" /\ job[c] \in Terminal /\ MayTell(c, job[c]))
            BY <3>2, EnsuredTells
        <3> QED BY <1>a, <2>1, <3>1, <3>3 DEF Move, Stayed, Ended, LinkedAt
    <2> QED BY <2>3, <2>4
<1>8. ASSUME NEW d \in Cmds, HandlerEnds(d) PROVE Move(c)
    <2>1. d \in held /\ job[d] = "running" /\ cmd[d] = "enqueued"
        BY <1>8 DEF HandlerEnds, Linked, LinkedAt, Waiting, CmdStates, Terminal
    <2>2. cmd' = cmd /\ approved' = approved
        BY <1>8 DEF HandlerEnds, commands
    <2>3. ASSUME NEW jb \in [Cmds -> JobStates], jb[d] \in Terminal \cup {"running"},
                 d # c => jb[c] = job[c],
                 Pumped(jb, held \ {d}) \/ (job' = jb /\ held' = {})
          PROVE  /\ c = d => job'[c] = jb[c] /\ c \notin held'
                 /\ c # d => job'[c] = job[c] \/ (job[c] = "queued" /\ job'[c] = "running")
                 /\ c \in held' => job'[c] = "running"
        BY <1>a, <2>3 DEF Pumped, LinkedAt, Terminal
    <2>4. ASSUME NEW s \in Outcomes(d), NEW byQuit \in BOOLEAN, byQuit => s = "cancelled",
                 \/ told' = [told EXCEPT ![d] = IF @ = "nothing" THEN TerminalFor(s, byQuit) ELSE @]
                 \/ told' = told,
                 \/ Pump([job EXCEPT ![d] = s], held \ {d})
                 \/ job' = [job EXCEPT ![d] = s] /\ ProcessGone
          PROVE  Move(c)
        <3>1. s \in Terminal \ {"interrupted"}
            BY DEF Outcomes, Terminal
        <3>2. [job EXCEPT ![d] = s] \in [Cmds -> JobStates]
            BY <3>1 DEF JobStates, Terminal
        <3>3. Pumped([job EXCEPT ![d] = s], held \ {d})
              \/ (job' = [job EXCEPT ![d] = s] /\ held' = {})
            <4>1. ASSUME NEW jb \in [Cmds -> JobStates], Pump(jb, held \ {d})
                  PROVE  Pumped(jb, held \ {d})
                BY <1>a, <4>1, PumpFacts
            <4> QED BY <2>4, <3>2, <4>1, Zenon DEF ProcessGone
        <3>4. /\ c = d => job'[c] = s /\ c \notin held'
              /\ c # d => job'[c] = job[c] \/ (job[c] = "queued" /\ job'[c] = "running")
              /\ c \in held' => job'[c] = "running"
            BY <1>a, <2>3, <3>1, <3>2, <3>3
        <3>5. c # d => told'[c] = told[c]
            BY <2>4
        <3>6. c = d => MayTell(c, s)
            BY <2>4, <3>1 DEF MayTell, TerminalFor, Terminal, Lifecycle!Verdicts, Lifecycle!Final
        <3> QED BY <2>1, <2>2, <3>1, <3>4, <3>5, <3>6 DEF Move, Stayed, Claimed, Ended
    <2>5. ASSUME told' = told, Pump(job, held \ {d}) PROVE Move(c)
        <3>1. Pumped(job, held \ {d})
            BY <1>a, <2>5, PumpFacts
        <3> QED BY <1>a, <2>1, <2>2, <2>3, <2>5, <3>1 DEF Move, Stayed, Claimed
    <2> QED BY <1>8, <2>4, <2>5 DEF HandlerEnds
<1>d. job[c] = "running" => cmd[c] = "enqueued"
    BY <1>a DEF LinkedAt, Waiting, CmdStates, Terminal
<1>16. ASSUME NEW stale \in SUBSET Orphans, NEW untold, ReapAndPump(stale),
              cmd'[c] = cmd[c], approved' = approved, told'[c] = ReapedTold(stale, untold)[c]
       PROVE  Move(c)
    <2>1. \/ told'[c] = told[c]
          \/ c \in stale /\ told'[c] = Ensured(c, "interrupted", told[c])
        BY <1>16 DEF ReapedTold
    <2>2. told'[c] = told[c] \/ (c \in stale /\ MayTell(c, "interrupted"))
        BY <2>1, EnsuredTells
    <2>3. /\ \/ Reaped(stale)[c] = job[c] /\ c \notin stale
             \/ job[c] = "running" /\ c \in stale /\ Reaped(stale)[c] = "interrupted"
          /\ \/ job'[c] = Reaped(stale)[c]
             \/ Reaped(stale)[c] = "queued" /\ job'[c] = "running"
          /\ c \in held' => job'[c] = "running"
        BY <1>16, ReapedMoves
    <2> QED BY <1>d, <1>16, <2>2, <2>3 DEF Move, Stayed, Claimed, Ended, MayTell, Terminal
<1>9. ASSUME NEW d \in Cmds, ExpireThrows(d) PROVE Move(c)
    <2>1. PICK S \in SUBSET (Overdue \ {d}), stale \in SUBSET Orphans :
              /\ cmd' = CmdExpired(S \cup {d})
              /\ told' = [e \in Cmds |-> IF e \in S THEN "expired" ELSE ReapedTold(stale, {})[e]]
              /\ ReapAndPump(stale)
        BY <1>9 DEF ExpireThrows
    <2>2. d \in Overdue /\ approved' = approved /\ "expire" \in DiesIn
        BY <1>9 DEF ExpireThrows
    <2>3. CASE c \in S \cup {d}
        <3>1. cmd[c] = "awaiting_approval" /\ cmd'[c] = "expired"
            BY <2>1, <2>2, <2>3, ExpiryMoves
        <3>2. c \notin stale /\ job'[c] = job[c] /\ c \notin held'
            BY <1>b, <2>1, <3>1, ReapedMoves
        <3>3. told'[c] = "expired" \/ told'[c] = "nothing"
            BY <1>c, <2>1, <3>1, <3>2 DEF ReapedTold
        <3>4. Refused(c)
            BY <1>c, <2>2, <3>1, <3>2, <3>3 DEF Refused, MayTell, Lifecycle!Verdicts, Lifecycle!Final
        <3> QED BY <2>2, <3>2, <3>4 DEF Move
    <2>4. CASE c \notin S \cup {d}
        <3>1. cmd'[c] = cmd[c] /\ told'[c] = ReapedTold(stale, {})[c]
            BY <2>1, <2>2, <2>4, ExpiryMoves
        <3> QED BY <1>16, <2>1, <2>2, <3>1
    <2> QED BY <2>3, <2>4
<1>10. ASSUME SettingStep \/ Stop \/ Exit \/ Crash \/ Tick PROVE Move(c)
    <2>1. UNCHANGED <<cmd, approved, job, told>> /\ held' \subseteq held
        BY <1>10 DEF SettingStep, SwitchKind, CreateSchedule, DeleteSchedule, ToggleProject,
               Stop, Exit, Crash, Tick, ProcessGone, commands, jobs, process
    <2> QED BY <2>1, QuietMoves
<1>11. ASSUME Sweep \/ SweepThrows PROVE Move(c)
    <2>1. CASE Sweep
        <3>1. PICK stale \in SUBSET Orphans : Maintain(Reaped(stale)) /\ ReapAndPump(stale)
            BY <2>1 DEF Sweep
        <3>2. /\ Reaped(stale) \in [Cmds -> JobStates]
              /\ Reaped(stale)[c] = job[c] \/ (job[c] = "running" /\ Reaped(stale)[c] \in Terminal)
              /\ \/ job'[c] = Reaped(stale)[c]
                 \/ Reaped(stale)[c] = "queued" /\ job'[c] = "running"
              /\ c \in held' => job'[c] = "running"
            BY <3>1, ReapedMoves DEF Terminal
        <3>3. approved' = approved
            BY <3>1 DEF Maintain
        <3> QED BY <3>1, <3>2, <3>3, MaintainMoves DEF Move
    <2>2. CASE SweepThrows
        <3>1. PICK stale \in SUBSET Orphans : \E untold \in SUBSET stale :
                  ReapAndPump(stale) /\ told' = ReapedTold(stale, untold)
            BY <2>2 DEF SweepThrows
        <3> QED BY <1>16, <2>2, <3>1 DEF SweepThrows, commands
    <2> QED BY <1>11, <2>1, <2>2
<1>12. ASSUME SweepDies PROVE Move(c)
    <2>1. /\ UNCHANGED <<cmd, approved, told>> /\ held' = {}
          /\ job'[c] = job[c] \/ (job[c] = "running" /\ job'[c] = "interrupted")
        BY <1>12 DEF SweepDies, Reaped, Orphans, InJob, ProcessGone, commands
    <2> QED BY <1>d, <2>1 DEF Move, Stayed, Ended, MayTell, Terminal
<1>13. /\ Swept \in [Cmds -> JobStates]
       /\ Swept[c] = job[c] \/ (job[c] = "running" /\ Swept[c] \in Terminal)
    BY DEF Swept, JobStates, Terminal
<1>14. ASSUME Boot PROVE Move(c)
    <2>1. Pumped(Swept, {})
        BY <1>13, <1>14, ClaimFacts DEF Boot
    <2>2. /\ job'[c] = Swept[c] \/ (Swept[c] = "queued" /\ job'[c] = "running")
          /\ c \in held' => job'[c] = "running"
        BY <2>1 DEF Pumped
    <2>3. Maintain(Swept) /\ approved' = approved
        BY <1>14 DEF Boot, Maintain
    <2> QED BY <1>13, <2>2, <2>3, MaintainMoves DEF Move
<1>15. ASSUME BootDies PROVE Move(c)
    <2>1. UNCHANGED <<cmd, approved, told>> /\ held' = {}
        BY <1>15 DEF BootDies, commands, process
    <2>2. job'[c] = Swept[c] \/ (Swept[c] = "queued" /\ job'[c] = "running")
        BY <1>15 DEF BootDies, IsDrain, InJob
    <2> QED BY <1>13, <1>d, <2>1, <2>2 DEF Move, Stayed, Claimed, Ended, MayTell, Terminal
<1>17. ASSUME BootUnswept PROVE Move(c)
    <2>1. Pumped(Swept, {})
        BY <1>13, <1>17, ClaimFacts DEF BootUnswept
    <2>2. /\ UNCHANGED <<cmd, approved, told>>
          /\ job'[c] = Swept[c] \/ (Swept[c] = "queued" /\ job'[c] = "running")
          /\ c \in held' => job'[c] = "running"
        BY <1>17, <2>1 DEF BootUnswept, Pumped, commands
    <2> QED BY <1>13, <1>d, <2>2 DEF Move, Stayed, Claimed, Ended, MayTell, Terminal
<1>18. ASSUME NEW d \in Cmds, Ask(d) PROVE Move(c)
    BY <1>18, QuietMoves DEF Ask, jobs, process
<1> QED
    BY <1>1, <1>2, <1>3, <1>4, <1>5, <1>7, <1>8, <1>9, <1>10, <1>11, <1>12, <1>14, <1>15,
       <1>17, <1>18
    DEF Next, CommandStep, ProcessStep, Approve, ApproveStanding

-----------------------------------------------------------------------------
(* The invariant, and what follows from it.                                *)

(* A move keeps command, job, slot and log of c in agreement.              *)
LEMMA MoveKeepsLink ==
    ASSUME Inv, NEW c \in Cmds, Move(c)
    PROVE  LinkedAt(c)'
<1>1. LinkedAt(c)
    BY DEF Inv, Linked
<1> USE <1>1 DEF LinkedAt, Waiting, Terminal
<1>2. CASE Stayed(c) \/ Claimed(c)
    BY <1>2 DEF Move, Stayed, Claimed
<1>3. CASE Received(c) \/ Allowed(c)
    BY <1>3 DEF Move, Received, Allowed
<1>4. CASE Refused(c) \/ Purged(c)
    BY <1>4 DEF Move, Refused, Purged
<1>5. CASE Ended(c)
    BY <1>5 DEF Move, Ended
<1> QED BY <1>2, <1>3, <1>4, <1>5 DEF Move

(* A server that is off holds no job.                                      *)
LEMMA OffHoldsNothing ==
    ASSUME Inv, Next, phase' = "off"
    PROVE  held' = {}
<1> USE DEF Inv, TypeOK
<1>1. ASSUME NEW c \in Cmds, CommandStep(c) PROVE held' = {}
    <2>1. CASE HandlerEnds(c)
        BY <2>1 DEF HandlerEnds, ProcessGone
    <2>2. CASE CancelQueued(c) \/ ExpireThrows(c) \/ Ask(c)
        BY <2>2 DEF CancelQueued, ExpireThrows, Ask, process, Serving
    <2> QED
        BY <1>1, <2>1, <2>2 DEF CommandStep, Receive, Approve, ApproveStanding, Enqueue, Deny,
           CancelPending, CancelRunning, Read, Serving, process
<1>2. CASE SettingStep
    BY <1>2 DEF SettingStep, SwitchKind, CreateSchedule, DeleteSchedule, ToggleProject, process,
                Serving
<1>3. CASE ProcessStep
    BY <1>3 DEF ProcessStep, Sweep, SweepDies, SweepThrows, Boot, BootDies, BootUnswept,
                Stop, Exit, Crash, Tick, ProcessGone, process
<1> QED BY <1>1, <1>2, <1>3 DEF Next

LEMMA InvStep == Inv /\ [Next]_vars => Inv'
<1> SUFFICES ASSUME Inv, [Next]_vars PROVE Inv'
    OBVIOUS
<1>1. TypeOK'
    BY TypeStep DEF Inv
<1>2. CASE Next
    <2>1. Linked'
        BY <1>2, EveryStepMoves, MoveKeepsLink DEF Linked
    <2> QED BY <1>1, <1>2, <2>1, OffHoldsNothing DEF Inv
<1>3. CASE UNCHANGED vars
    BY <1>1, <1>3 DEF Inv, Linked, LinkedAt, vars, commands, jobs, process
<1> QED BY <1>2, <1>3

(* Command, job, slot and log agree in every reachable state.              *)
THEOREM InvHolds == Spec => []Inv
<1>1. Init => Inv
    BY TypeInit DEF Init, Inv, Linked, LinkedAt, Waiting, Terminal
<1> QED BY <1>1, InvStep, PTL DEF Spec

(* A job stands behind a command exactly when it may run, whatever expiry, *)
(* denial, cancel and approval raced before and wherever a write broke.    *)
THEOREM JobOnlyIfMayRunHolds == Spec => []JobOnlyIfMayRun
<1>1. Inv => JobOnlyIfMayRun
    BY DEF Inv, Linked, LinkedAt, JobOnlyIfMayRun, Waiting
<1> QED BY <1>1, InvHolds, PTL

(* One command's move is a move of its promise.                            *)
LEMMA MoveKeepsPromise ==
    ASSUME Inv, Inv', NEW c \in Cmds, Move(c)
    PROVE  /\ Shown'[c] \in Lifecycle!States /\ Shown'[c] \in Lifecycle!After(Shown[c])
           /\ \/ told'[c] = told[c]
              \/ told[c] = "nothing" /\ told'[c] \in Lifecycle!Verdicts(Shown'[c])
<1>1. /\ Shown[c] = IF cmd[c] = "enqueued" THEN job[c] ELSE cmd[c]
      /\ Shown'[c] = IF cmd'[c] = "enqueued" THEN job'[c] ELSE cmd'[c]
    BY DEF Shown
<1>2. LinkedAt(c) /\ LinkedAt(c)' /\ cmd[c] \in CmdStates /\ cmd'[c] \in CmdStates
    BY DEF Inv, Linked, TypeOK
<1>3. job[c] \in JobStates /\ job'[c] \in JobStates
    BY DEF Inv, TypeOK, JobStates
<1>4. Shown'[c] \in Lifecycle!States
    BY <1>1, <1>2, <1>3 DEF CmdStates, JobStates, Terminal, LinkedAt,
                           Lifecycle!States, Lifecycle!Final
<1> USE <1>1, <1>2, <1>3 DEF LinkedAt, Waiting, CmdStates, JobStates, Terminal, MayTell,
                            Lifecycle!After, Lifecycle!Final
<1>5. CASE Stayed(c) \/ Claimed(c)
    BY <1>4, <1>5 DEF Stayed, Claimed
<1>6. CASE Received(c) \/ Allowed(c)
    BY <1>4, <1>6 DEF Received, Allowed
<1>7. CASE Refused(c) \/ Purged(c)
    BY <1>4, <1>7 DEF Refused, Purged
<1>8. CASE Ended(c)
    BY <1>4, <1>8 DEF Ended
<1> QED BY <1>5, <1>6, <1>7, <1>8 DEF Move

(* The command bus implements CommandLifecycle: what a client is shown     *)
(* moves along its edges, a final state is final, and the log says at most *)
(* once, and truly, what became of the command.                            *)
THEOREM ImplementsPromise == Spec => KeepsPromise
<1>1. Init => Lifecycle!Init
    BY DEF Init, Lifecycle!Init, Shown
<1>2. Inv /\ Inv' /\ [Next]_vars => [Lifecycle!Next]_<<Shown, told>>
    <2> SUFFICES ASSUME Inv, Inv', [Next]_vars PROVE [Lifecycle!Next]_<<Shown, told>>
        OBVIOUS
    <2>1. CASE Next
        <3>1. Shown' \in [Cmds -> Lifecycle!States]
            BY <2>1, EveryStepMoves, MoveKeepsPromise DEF Shown
        <3>2. told' = [c \in Cmds |-> told'[c]]
            BY DEF Inv, TypeOK
        <3> QED BY <2>1, <3>1, <3>2, EveryStepMoves, MoveKeepsPromise DEF Lifecycle!Next
    <2>2. CASE UNCHANGED vars
        BY <2>2 DEF vars, commands, jobs, Shown
    <2> QED BY <2>1, <2>2
<1> QED BY <1>1, <1>2, InvHolds, PTL DEF Spec, KeepsPromise, Lifecycle!Spec

-----------------------------------------------------------------------------
(* What the promise says of the log, and of where a command can go.        *)

(* One command's part of the promise, in every step.                       *)
LEMMA StepKeepsPromise ==
    ASSUME Inv, Inv', [Next]_vars, NEW c \in Cmds
    PROVE  /\ Shown[c] \in Lifecycle!States /\ Shown'[c] \in Lifecycle!After(Shown[c])
           /\ \/ told'[c] = told[c]
              \/ told[c] = "nothing" /\ told'[c] \in Lifecycle!Verdicts(Shown'[c])
<1>1. Shown[c] \in Lifecycle!States
    BY DEF Inv, TypeOK, CmdStates, Linked, LinkedAt, Waiting, Terminal, Shown,
           Lifecycle!States, Lifecycle!Final
<1>2. CASE Next
    BY <1>1, <1>2, EveryStepMoves, MoveKeepsPromise
<1>3. CASE UNCHANGED vars
    <2>1. Shown'[c] = Shown[c] /\ told'[c] = told[c]
        BY <1>3 DEF vars, commands, jobs, Shown
    <2> QED BY <1>1, <2>1 DEF Lifecycle!After, Lifecycle!States, Lifecycle!Final
<1> QED BY <1>2, <1>3

(* The terminal event of a command that is still there names the end its   *)
(* row and job show: a final state is left for "purged" only, and an event *)
(* is never written over.                                                  *)
THEOREM EventTellsTheEndHolds == Spec => []EventTellsTheEnd
<1>1. Init => EventTellsTheEnd
    BY DEF Init, EventTellsTheEnd
<1>2. EventTellsTheEnd /\ Inv /\ Inv' /\ [Next]_vars => EventTellsTheEnd'
    <2> SUFFICES ASSUME EventTellsTheEnd, Inv, Inv', [Next]_vars, NEW c \in Cmds,
                        told'[c] # "nothing", cmd'[c] # "purged"
                 PROVE  told'[c] \in Lifecycle!Verdicts(Shown'[c])
        BY DEF EventTellsTheEnd
    <2>1. /\ Shown'[c] \in Lifecycle!After(Shown[c])
          /\ \/ told'[c] = told[c]
             \/ told[c] = "nothing" /\ told'[c] \in Lifecycle!Verdicts(Shown'[c])
        BY StepKeepsPromise
    <2>2. Shown'[c] # "purged"
        BY DEF Inv, TypeOK, Shown, Terminal
    <2>3. Shown[c] = "purged" => Shown'[c] = "purged"
        BY <2>1 DEF Lifecycle!After, Lifecycle!Final
    <2>4. CASE told'[c] = told[c]
        <3>1. told[c] \in Lifecycle!Verdicts(Shown[c])
            BY <2>2, <2>3, <2>4 DEF EventTellsTheEnd, Shown
        <3>2. Shown[c] \in Lifecycle!Final
            BY <3>1 DEF Lifecycle!Verdicts, Lifecycle!Final
        <3>3. Shown'[c] = Shown[c]
            BY <2>1, <2>2, <3>2 DEF Lifecycle!After, Lifecycle!Final
        <3> QED BY <2>4, <3>1, <3>3
    <2> QED BY <2>1, <2>4
<1> QED BY <1>1, <1>2, InvHolds, PTL DEF Spec

(* No step takes a command back, whatever breaks: what a caller is shown   *)
(* changes at most five times.                                             *)
THEOREM CommandsMoveOnHolds == Spec => CommandsMoveOn
<1>1. Inv /\ Inv' /\ [Next]_vars
          => [\A c \in Cmds : Shown'[c] # Shown[c] => Rank(c)' > Rank(c)]_vars
    <2> SUFFICES ASSUME Inv, Inv', [Next]_vars, NEW c \in Cmds, Shown'[c] # Shown[c]
                 PROVE  Rank(c)' > Rank(c)
        OBVIOUS
    <2>1. Shown[c] \in Lifecycle!States /\ Shown'[c] \in Lifecycle!After(Shown[c])
        BY StepKeepsPromise
    <2> QED BY <2>1 DEF Rank, Lifecycle!States, Lifecycle!After, Lifecycle!Final
<1> QED BY <1>1, InvHolds, PTL DEF Spec, CommandsMoveOn

(* After the tail of a sweep over the rows jb that the last pump moved,    *)
(* every ended command has its event, but for a broken expiry.             *)
LEMMA MaintainTells ==
    ASSUME Inv, Inv', NEW jb \in [Cmds -> JobStates], Maintain(jb), NEW c \in Cmds,
           job'[c] = jb[c] \/ job'[c] = "running",
           Shown'[c] \in Lifecycle!Final, told'[c] = "nothing"
    PROVE  "expire" \in DiesIn /\ cmd'[c] = "expired"
<1> USE DEF Inv, TypeOK
<1>1. Shown'[c] = IF cmd'[c] = "enqueued" THEN job'[c] ELSE cmd'[c]
    BY DEF Shown
<1>2. CASE cmd'[c] = "enqueued"
    <2>1. job'[c] = jb[c] /\ jb[c] \in Terminal
        BY <1>1, <1>2 DEF Lifecycle!Final, Terminal
    <2>2. c \notin Old(jb) /\ c \notin Overdue /\ cmd[c] = "enqueued"
        BY <1>2 DEF Maintain, CmdExpired
    <2>3. told'[c] = Ensured(c, jb[c], told[c])
        BY <2>2 DEF Maintain, LogRepaired
    <2> QED BY <2>1, <2>2, <2>3 DEF Ensured, TerminalFor, Terminal
<1>3. CASE cmd'[c] # "enqueued"
    <2>1. cmd'[c] \in {"denied", "expired", "cancelled"}
        BY <1>1, <1>3 DEF Lifecycle!Final, CmdStates
    <2> QED BY <2>1 DEF Linked, LinkedAt
<1> QED BY <1>2, <1>3

(* Whatever was lost before, in a crash or in a hook that threw, one sweep *)
(* or one boot leaves no ended command without its event, save one whose   *)
(* expiry died between its two writes.                                     *)
THEOREM SweepTellsHolds == Spec => SweepTells
<1>1. Inv /\ Inv' /\ [Next]_vars
          => [Sweep \/ Boot =>
                 \A c \in Cmds : Shown'[c] \in Lifecycle!Final /\ told'[c] = "nothing"
                     => "expire" \in DiesIn /\ cmd'[c] = "expired"]_vars
    <2> SUFFICES ASSUME Inv, Inv', Sweep \/ Boot, NEW c \in Cmds,
                        Shown'[c] \in Lifecycle!Final, told'[c] = "nothing"
                 PROVE  "expire" \in DiesIn /\ cmd'[c] = "expired"
        OBVIOUS
    <2>1. CASE Sweep
        <3>1. PICK stale \in SUBSET Orphans : Maintain(Reaped(stale)) /\ ReapAndPump(stale)
            BY <2>1 DEF Sweep
        <3>2. Reaped(stale) \in [Cmds -> JobStates]
            BY <3>1, ReapedMoves
        <3>3. job'[c] = Reaped(stale)[c] \/ job'[c] = "running"
            BY <3>1, ReapedMoves
        <3> QED BY <3>1, <3>2, <3>3, MaintainTells
    <2>2. CASE Boot
        <3>1. Swept \in [Cmds -> JobStates]
            BY DEF Inv, TypeOK, Swept, JobStates, Terminal
        <3>2. job'[c] = Swept[c] \/ job'[c] = "running"
            BY <2>2, <3>1, ClaimFacts DEF Boot, Pumped
        <3> QED BY <2>2, <3>1, <3>2, MaintainTells DEF Boot
    <2> QED BY <2>1, <2>2
<1> QED BY <1>1, InvHolds, PTL DEF Spec, SweepTells
=============================================================================
