--------------------------- MODULE JobRunnerProofs ---------------------------
(***************************************************************************)
(* What holds of JobRunner for every number of jobs, users, lanes and      *)
(* slots: its types, the lane lock, the life cycle of a row, and the       *)
(* agreement of slots and rows.                                            *)
(***************************************************************************)
EXTENDS JobRunner, FiniteSetTheorems, WellFoundedInduction, TLAPS

(* Row table st never has two running rows of one lane.                    *)
Exclusive(st) ==
    \A j, k \in Jobs : st[j] = "running" /\ st[k] = "running" /\ Lane(j) = Lane(k) => j = k

(* The rows after a pump that claimed C from the rows st.                  *)
After(st, C) ==
    [j \in Jobs |-> IF j \notin C THEN st[j]
                    ELSE IF j \in Handled THEN "running" ELSE "failed"]

(* Row table st (errors er) is the present one after requests, settles and *)
(* sweeps moved some rows, and before any row was claimed.                 *)
RowMove(j, s, e) ==
    \/ s = state[j] /\ e = error[j]
    \/ state[j] = "absent" /\ s = "queued" /\ e = error[j]
    \/ state[j] = "queued" /\ s = "cancelled"
    \/ state[j] = "running" /\ s \in Terminal
    \/ /\ state[j] = "running" /\ s = "queued"
       /\ j \in Resumable \ cancelRequested /\ attempts[j] < MaxAttempts

(* In phase ph: a held slot of a job with a handler stands for a running   *)
(* row, timers run for held slots and only for them, a process that is off holds none,  *)
(* and no running row is without a slot unless an ending write threw.      *)
SlotsAgree(ph, st, held, tm, wk) ==
    /\ \A j \in held \cap Handled : st[j] = "running"
    /\ \A j \in Jobs : tm[j] # "off" <=> j \in held \cap Handled
    /\ wk \subseteq Handled
    /\ ph = "off" => held = {}
    /\ "finish" \notin DbErrors /\ ph # "off" => RowsIn(st, "running") \subseteq held

SlotInv == SlotsAgree(phase, state, active, timer, working)

Types(st, er, held, tm, wk) ==
    /\ st \in [Jobs -> States] /\ er \in [Jobs -> Errors]
    /\ held \in SUBSET Jobs /\ held \subseteq active /\ wk \in SUBSET Jobs
    /\ tm \in [Jobs -> {"off", "armed", "grace"}]

(* A step after which nothing new can be claimed: the same rows run, the   *)
(* same slots are held, and no row was queued.                             *)
Quiet(st, held) ==
    /\ phase = "on" /\ held = active
    /\ RowsIn(st, "running") = RowsIn(state, "running")
    /\ RowsIn(st, "queued") \subseteq RowsIn(state, "queued")

(* The shape of every step: some rows move, then a pump claims a set C of  *)
(* the rows that are queued after the move, and the process goes on or is  *)
(* gone.                                                                   *)
StepTo(C, st, er, held, tm, wk) ==
    /\ Types(st, er, held, tm, wk)
    /\ \A j \in Jobs : RowMove(j, st[j], er[j])
    /\ C = {} \/ Takes(st, held, C)
    /\ ClaimRows(C, st, er)
    /\ \/ ProcessGone
       \/ /\ SlotsAgree(phase', st, held, tm, wk)
          /\ C = {} \/ phase' = "on"
          /\ phase' = "on" =>
                 \/ IsDrain(st, held, C)
                 \/ "claim" \in DbErrors
                 \/ C = {} /\ Quiet(st, held)
          /\ Claim(C, st, er, held, tm, wk)

StepShape ==
    \E C \in SUBSET Jobs : \E st, er, held, tm, wk : StepTo(C, st, er, held, tm, wk)

-----------------------------------------------------------------------------
(* Pumps.                                                                  *)

(* A pump that nothing cuts short takes as one that is.                    *)
LEMMA DrainTakes ==
    ASSUME NEW st, NEW held, NEW C \in SUBSET Jobs, IsDrain(st, held, C)
    PROVE  Takes(st, held, C)
BY DEF IsDrain, Takes

(* Every job a pump claims was queued and claimable.                       *)
LEMMA TakenFromQueue ==
    ASSUME NEW st, NEW held, NEW C \in SUBSET Jobs, Takes(st, held, C)
    PROVE  \A j \in C : /\ st[j] = "queued"
                        /\ Claimable(st, held, {k \in C \cap Handled : k < j}, j)
<1>1. \A j \in C : j <= j
    BY JobsAssumption
<1> QED BY <1>1 DEF Takes, RowsIn

(* A pump keeps lanes exclusive: of two claimed jobs of one lane the       *)
(* younger would have found the older running.                             *)
LEMMA PumpKeepsLanes ==
    ASSUME NEW st \in [Jobs -> States], NEW held, NEW C \in SUBSET Jobs,
           Exclusive(st), Takes(st, held, C)
    PROVE  Exclusive(After(st, C))
<1> SUFFICES ASSUME NEW j \in Jobs, NEW k \in Jobs,
                    After(st, C)[j] = "running", After(st, C)[k] = "running",
                    Lane(j) = Lane(k), j # k
             PROVE  FALSE
    BY DEF Exclusive
<1>1. \A i \in Jobs : After(st, C)[i] = "running" =>
          i \in C \cap Handled \/ (i \notin C /\ st[i] = "running")
    BY DEF After
<1>2. ASSUME NEW a \in Jobs, NEW b \in Jobs, a \in C, Lane(a) = Lane(b), a # b,
             st[b] = "running" \/ (b \in C \cap Handled /\ b < a)
      PROVE  FALSE
    <2>1. Claimable(st, held, {i \in C \cap Handled : i < a}, a)
        BY <1>2, TakenFromQueue
    <2>2. b \in RowsIn(st, "running") \cup {i \in C \cap Handled : i < a}
        BY <1>2 DEF RowsIn
    <2> QED BY <2>1, <2>2, <1>2 DEF Claimable
<1>3. j < k \/ k < j
    BY JobsAssumption
<1> QED BY <1>1, <1>2, <1>3 DEF Exclusive

(* What a claim of C does to the types.                                    *)
LEMMA ClaimTypes ==
    ASSUME NEW C \in SUBSET Jobs, NEW st \in [Jobs -> States], NEW er \in [Jobs -> Errors],
           NEW held \in SUBSET Jobs, NEW tm \in [Jobs -> {"off", "armed", "grace"}],
           NEW wk \in SUBSET Jobs, attempts \in [Jobs -> Nat],
           Claim(C, st, er, held, tm, wk)
    PROVE  /\ state' \in [Jobs -> States] /\ attempts' \in [Jobs -> Nat]
           /\ error' \in [Jobs -> Errors] /\ active' \subseteq Jobs
           /\ timer' \in [Jobs -> {"off", "armed", "grace"}] /\ working' \subseteq Jobs
BY DEF Claim, ClaimRows, States, Terminal, Errors

(* Types after a pump, thrown or not.                                      *)
LEMMA PumpTypes ==
    ASSUME NEW st \in [Jobs -> States], NEW er \in [Jobs -> Errors],
           NEW held \in SUBSET Jobs, NEW tm \in [Jobs -> {"off", "armed", "grace"}],
           NEW wk \in SUBSET Jobs, attempts \in [Jobs -> Nat],
           PumpOrThrow(st, er, held, tm, wk)
    PROVE  /\ state' \in [Jobs -> States] /\ attempts' \in [Jobs -> Nat]
           /\ error' \in [Jobs -> Errors] /\ active' \subseteq Jobs
           /\ timer' \in [Jobs -> {"off", "armed", "grace"}] /\ working' \subseteq Jobs
BY ClaimTypes DEF PumpOrThrow, Pump, PumpThrows

-----------------------------------------------------------------------------
(* Types.                                                                  *)

(* The rows that a settle leaves are rows.                                 *)
LEMMA FinishedTypes ==
    ASSUME TypeOK, NEW j \in Jobs, NEW s \in States, NEW e \in Errors,
           NEW r \in Finished(j, s, e)
    PROVE  r.st \in [Jobs -> States] /\ r.er \in [Jobs -> Errors]
BY DEF Finished, TypeOK

LEMMA OutcomeTypes ==
    ASSUME NEW j \in Jobs, NEW returned \in BOOLEAN
    PROVE  /\ Outcome(j, returned)[1] \in Terminal
           /\ Outcome(j, returned)[2] \in Errors
BY DEF Outcome, Terminal, Errors

(* The boot sweep leaves a row as it was, requeues it or ends it.          *)
LEMMA SweptTypes ==
    ASSUME TypeOK
    PROVE  /\ SweptState \in [Jobs -> States] /\ SweptError \in [Jobs -> Errors]
           /\ \A j \in Jobs : SweptState[j] # "running"
           /\ \A j \in Jobs : state[j] # "running" =>
                  SweptState[j] = state[j] /\ SweptError[j] = error[j]
<1> SUFFICES ASSUME NEW j \in Jobs
             PROVE  /\ Swept(j)[1] \in States /\ Swept(j)[2] \in Errors
                    /\ Swept(j)[1] # "running"
                    /\ state[j] # "running" => Swept(j)[1] = state[j] /\ Swept(j)[2] = error[j]
    BY DEF SweptState, SweptError
<1>1. CASE state[j] # "running"
    BY <1>1 DEF Swept, TypeOK
<1>2. CASE state[j] = "running" /\ j \in cancelRequested
    BY <1>2 DEF Swept, States, Terminal, Errors
<1>3. CASE state[j] = "running" /\ j \notin cancelRequested /\ j \notin Resumable
    BY <1>3 DEF Swept, States, Terminal, Errors
<1>4. CASE state[j] = "running" /\ j \notin cancelRequested /\ j \in Resumable
    BY <1>4 DEF Swept, States, Terminal, Errors, TypeOK
<1> QED BY <1>1, <1>2, <1>3, <1>4

LEMMA TypeInit == Init => TypeOK
BY DEF Init, TypeOK, States, Terminal, Errors

LEMMA TypeStep == TypeOK /\ [Next]_vars => TypeOK'
<1> SUFFICES ASSUME TypeOK, [Next]_vars PROVE TypeOK'
    OBVIOUS
<1> USE DEF States, Terminal, Errors
<1>1. ASSUME NEW j \in Jobs, Submit(j) PROVE TypeOK'
    <2>1. [state EXCEPT ![j] = "queued"] \in [Jobs -> States]
        BY DEF TypeOK
    <2> HIDE DEF States, Terminal, Errors
    <2> QED BY <1>1, <2>1, PumpTypes DEF Submit, TypeOK
<1>2. ASSUME NEW j \in Jobs, CancelQueued(j) \/ CancelRunning(j) PROVE TypeOK'
    BY <1>2 DEF CancelQueued, CancelRunning, TypeOK, process
<1>3. ASSUME NEW j \in Jobs, NEW returned \in BOOLEAN, HandlerEnds(j, returned) PROVE TypeOK'
    <2> DEFINE o == Outcome(j, returned)
               tm == [timer EXCEPT ![j] = "off"]
    <2>1. o[1] \in States /\ o[2] \in Errors
        BY OutcomeTypes
    <2>2. PICK r \in Finished(j, o[1], o[2]) :
              PumpOrThrow(r.st, r.er, active \ {j}, tm, working \ {j})
        BY <1>3 DEF HandlerEnds
    <2>3. r.st \in [Jobs -> States] /\ r.er \in [Jobs -> Errors]
        BY <2>1, FinishedTypes
    <2>4. tm \in [Jobs -> {"off", "armed", "grace"}]
          /\ active \ {j} \in SUBSET Jobs /\ working \ {j} \in SUBSET Jobs
        BY DEF TypeOK
    <2> HIDE DEF States, Terminal, Errors, tm, o
    <2> QED BY <1>3, <2>2, <2>3, <2>4, PumpTypes DEF HandlerEnds, TypeOK
<1>4. ASSUME NEW j \in Jobs, LateResult(j) \/ TimeoutFires(j) PROVE TypeOK'
    BY <1>4 DEF LateResult, TimeoutFires, TypeOK, rows
<1>5. ASSUME NEW j \in Jobs, GraceEnds(j) PROVE TypeOK'
    <2> DEFINE tm == [timer EXCEPT ![j] = "off"]
    <2>1. PICK r \in Finished(j, "failed", "timeout") :
              Pump(r.st, r.er, active \ {j}, tm, working)
        BY <1>5 DEF GraceEnds
    <2>2. r.st \in [Jobs -> States] /\ r.er \in [Jobs -> Errors]
        BY FinishedTypes
    <2>3. tm \in [Jobs -> {"off", "armed", "grace"}]
          /\ active \ {j} \in SUBSET Jobs /\ working \in SUBSET Jobs
        BY DEF TypeOK
    <2>4. PumpOrThrow(r.st, r.er, active \ {j}, tm, working)
        BY <2>1 DEF PumpOrThrow
    <2> HIDE DEF States, Terminal, Errors, tm
    <2> QED BY <1>5, <2>2, <2>3, <2>4, PumpTypes DEF GraceEnds, TypeOK
<1>6. ASSUME NEW j \in Jobs, GraceEndsFatally(j) PROVE TypeOK'
    <2>1. PICK r \in Finished(j, "failed", "timeout"), C \in SUBSET Jobs :
              ClaimRows(C, r.st, r.er)
        BY <1>6 DEF GraceEndsFatally
    <2>2. r.st \in [Jobs -> States] /\ r.er \in [Jobs -> Errors]
        BY FinishedTypes
    <2>3. /\ state' \in [Jobs -> States] /\ attempts' \in [Jobs -> Nat]
          /\ error' \in [Jobs -> Errors]
        BY <2>1, <2>2 DEF ClaimRows, TypeOK
    <2> QED BY <1>6, <2>3 DEF GraceEndsFatally, ProcessGone, TypeOK
<1>7. CASE Boot \/ BootThrows
    <2>1. PICK C \in SUBSET Jobs : Claim(C, SweptState, SweptError, {}, timer, {})
        BY <1>7 DEF Boot, BootThrows
    <2>2. /\ timer \in [Jobs -> {"off", "armed", "grace"}] /\ attempts \in [Jobs -> Nat]
          /\ {} \in SUBSET Jobs
        BY DEF TypeOK
    <2>3. SweptState \in [Jobs -> States] /\ SweptError \in [Jobs -> Errors]
        BY SweptTypes
    <2> HIDE DEF States, Terminal, Errors
    <2>4. /\ state' \in [Jobs -> States] /\ attempts' \in [Jobs -> Nat]
          /\ error' \in [Jobs -> Errors] /\ active' \subseteq Jobs
          /\ timer' \in [Jobs -> {"off", "armed", "grace"}] /\ working' \subseteq Jobs
        BY <2>1, <2>2, <2>3, ClaimTypes
    <2> QED BY <1>7, <2>4 DEF Boot, BootThrows, TypeOK
<1>9. CASE SweepOrphans
    <2>1. PICK stale \in SUBSET Orphans :
              PumpOrThrow(Reaped(stale, state), Reaped(stale, error), active, timer, working)
        BY <1>9 DEF SweepOrphans
    <2>2. /\ Reaped(stale, state) \in [Jobs -> States]
          /\ Reaped(stale, error) \in [Jobs -> Errors]
        BY DEF TypeOK, Reaped
    <2> HIDE DEF States, Terminal, Errors
    <2> QED BY <1>9, <2>1, <2>2, PumpTypes DEF SweepOrphans, TypeOK
<1>10. CASE Stop \/ Exit \/ Crash
    BY <1>10 DEF Stop, Exit, Crash, ProcessGone, TypeOK, rows
<1>11. CASE UNCHANGED vars
    BY <1>11 DEF vars, rows, process, TypeOK
<1> HIDE DEF States, Terminal, Errors
<1> QED BY <1>1, <1>2, <1>3, <1>4, <1>5, <1>6, <1>7, <1>9, <1>10, <1>11
        DEF Next, JobStep, ProcessStep

(* Every variable keeps its type in every reachable state.                 *)
THEOREM TypeCorrect == Spec => []TypeOK
BY TypeInit, TypeStep, PTL DEF Spec

-----------------------------------------------------------------------------
(* The shape of a step.                                                    *)

LEMMA SlotInit == Init => SlotInv
BY DEF Init, SlotInv, SlotsAgree, RowsIn

(* A step that claims nothing is a claim of the empty set.                 *)
LEMMA NoClaim ==
    ASSUME TypeOK, TypeOK', attempts' = attempts
    PROVE  Claim({}, state', error', active', timer', working')
BY DEF Claim, ClaimRows, TypeOK

LEMMA NoClaimShape ==
    ASSUME TypeOK, TypeOK', attempts' = attempts, active' \subseteq active,
           \A j \in Jobs : RowMove(j, state'[j], error'[j]),
           SlotsAgree(phase', state', active', timer', working'),
           phase' = "on" => Quiet(state', active')
    PROVE  StepShape
<1>1. Claim({}, state', error', active', timer', working')
    BY NoClaim
<1>2. Types(state', error', active', timer', working')
    BY DEF TypeOK, Types
<1>3. StepTo({}, state', error', active', timer', working')
    BY <1>1, <1>2 DEF StepTo, Claim
<1> QED BY <1>3 DEF StepShape

(* A pump, thrown or not, after rows moved.                                *)
LEMMA PumpShape ==
    ASSUME NEW st, NEW er, NEW held, NEW tm, NEW wk,
           Types(st, er, held, tm, wk), phase' = phase,
           \A j \in Jobs : RowMove(j, st[j], er[j]),
           SlotsAgree(phase, st, held, tm, wk),
           PumpOrThrow(st, er, held, tm, wk)
    PROVE  StepShape
<1>1. PICK C \in SUBSET Jobs : /\ Claim(C, st, er, held, tm, wk)
                               /\ C = {} \/ (Takes(st, held, C) /\ phase = "on")
                               /\ phase = "on" => IsDrain(st, held, C) \/ "claim" \in DbErrors
    BY DrainTakes DEF PumpOrThrow, Pump, PumpThrows, IsCut
<1>2. StepTo(C, st, er, held, tm, wk)
    BY <1>1 DEF StepTo, Claim
<1> QED BY <1>2 DEF StepShape

(* Settling a job that runs is a row move, and gives its slot back.        *)
LEMMA FinishedMoves ==
    ASSUME TypeOK, SlotInv, NEW j \in Jobs, j \in active \cap Handled, phase # "off",
           NEW s \in Terminal, NEW e \in Errors, NEW r \in Finished(j, s, e),
           NEW wk \in SUBSET Jobs, wk \subseteq Handled
    PROVE  /\ Types(r.st, r.er, active \ {j}, [timer EXCEPT ![j] = "off"], wk)
           /\ \A i \in Jobs : RowMove(i, r.st[i], r.er[i])
           /\ SlotsAgree(phase, r.st, active \ {j}, [timer EXCEPT ![j] = "off"], wk)
<1> DEFINE tm == [timer EXCEPT ![j] = "off"]
<1>1. state[j] = "running" /\ s # "running"
    BY DEF SlotInv, SlotsAgree, Terminal
<1>2. CASE r = [st |-> [state EXCEPT ![j] = s], er |-> [error EXCEPT ![j] = e]]
    <2>1. \A i \in Jobs : r.st[i] = IF i = j THEN s ELSE state[i]
        BY <1>2 DEF TypeOK
    <2>2. \A i \in Jobs : r.er[i] = IF i = j THEN e ELSE error[i]
        BY <1>2 DEF TypeOK
    <2>3. \A i \in Jobs : tm[i] = IF i = j THEN "off" ELSE timer[i]
        BY DEF TypeOK
    <2>4. Types(r.st, r.er, active \ {j}, tm, wk)
        BY <1>2 DEF TypeOK, Types, States
    <2>5. \A i \in Jobs : RowMove(i, r.st[i], r.er[i])
        BY <2>1, <2>2, <1>1 DEF RowMove
    <2>6. SlotsAgree(phase, r.st, active \ {j}, tm, wk)
        <3> HIDE DEF tm
        <3>1. \A i \in (active \ {j}) \cap Handled : r.st[i] = "running"
            BY <2>1 DEF SlotInv, SlotsAgree, TypeOK
        <3>2. \A i \in Jobs : tm[i] # "off" <=> i \in (active \ {j}) \cap Handled
            BY <2>3 DEF SlotInv, SlotsAgree
        <3>3. "finish" \notin DbErrors => RowsIn(r.st, "running") \subseteq active \ {j}
            BY <2>1, <1>1 DEF SlotInv, SlotsAgree, RowsIn
        <3> QED BY <3>1, <3>2, <3>3 DEF SlotsAgree
    <2> QED BY <2>4, <2>5, <2>6
<1>3. CASE "finish" \in DbErrors /\ r = [st |-> state, er |-> error]
    <2>1. \A i \in Jobs : tm[i] = IF i = j THEN "off" ELSE timer[i]
        BY DEF TypeOK
    <2>2. Types(r.st, r.er, active \ {j}, tm, wk)
        BY <1>3 DEF TypeOK, Types
    <2>3. \A i \in Jobs : RowMove(i, r.st[i], r.er[i])
        BY <1>3 DEF RowMove
    <2>4. SlotsAgree(phase, r.st, active \ {j}, tm, wk)
        BY <2>1, <1>3 DEF SlotInv, SlotsAgree, RowsIn
    <2> QED BY <2>2, <2>3, <2>4
<1> QED BY <1>2, <1>3 DEF Finished

(* The boot sweep is a row move.                                           *)
LEMMA SweepMoves ==
    ASSUME TypeOK
    PROVE  \A j \in Jobs : RowMove(j, SweptState[j], SweptError[j])
<1> SUFFICES ASSUME NEW j \in Jobs PROVE RowMove(j, Swept(j)[1], Swept(j)[2])
    BY DEF SweptState, SweptError
<1>1. CASE state[j] # "running"
    BY <1>1 DEF Swept, RowMove
<1>2. CASE state[j] = "running" /\ j \in cancelRequested
    BY <1>2 DEF Swept, RowMove, Terminal
<1>3. CASE state[j] = "running" /\ j \notin cancelRequested /\ j \notin Resumable
    BY <1>3 DEF Swept, RowMove, Terminal
<1>4. CASE state[j] = "running" /\ j \notin cancelRequested /\ j \in Resumable
    BY <1>4, LimitAssumption DEF Swept, RowMove, Terminal, TypeOK
<1> QED BY <1>1, <1>2, <1>3, <1>4

(* A process that has gone holds nothing.                                  *)
LEMMA GoneAgrees ==
    ASSUME TypeOK', ProcessGone
    PROVE  SlotsAgree(phase', state', active', timer', working')
BY DEF ProcessGone, SlotsAgree

LEMMA EveryStepHasShape ==
    ASSUME TypeOK, SlotInv, Next
    PROVE  StepShape
<1> TypeOK'
    BY TypeStep
<1>1. ASSUME NEW j \in Jobs, Submit(j) PROVE StepShape
    <2> DEFINE st == [state EXCEPT ![j] = "queued"]
    <2>1. PumpOrThrow(st, error, active, timer, working) /\ state[j] = "absent"
          /\ phase' = phase
        BY <1>1 DEF Submit
    <2>2. \A i \in Jobs : st[i] = IF i = j THEN "queued" ELSE state[i]
        BY DEF TypeOK
    <2>3. Types(st, error, active, timer, working)
        BY DEF TypeOK, Types, States
    <2>4. \A i \in Jobs : RowMove(i, st[i], error[i])
        BY <2>1, <2>2 DEF RowMove
    <2>5. SlotsAgree(phase, st, active, timer, working)
        BY <2>1, <2>2 DEF SlotInv, SlotsAgree, RowsIn
    <2> HIDE DEF st
    <2> QED BY <2>1, <2>3, <2>4, <2>5, PumpShape
<1>2. ASSUME NEW j \in Jobs, CancelQueued(j) PROVE StepShape
    <2>1. \A i \in Jobs : RowMove(i, state'[i], error'[i])
        BY <1>2 DEF CancelQueued, RowMove, TypeOK
    <2>2. SlotsAgree(phase', state', active', timer', working')
        BY <1>2 DEF CancelQueued, SlotInv, SlotsAgree, TypeOK, process, RowsIn
    <2>3. Quiet(state', active') \/ phase' # "on"
        BY <1>2 DEF CancelQueued, Quiet, RowsIn, TypeOK, process
    <2> QED BY <1>2, <2>1, <2>2, <2>3, NoClaimShape DEF CancelQueued, process
<1>3. ASSUME NEW j \in Jobs, CancelRunning(j) \/ LateResult(j) \/ TimeoutFires(j)
      PROVE  StepShape
    <2>1. \A i \in Jobs : RowMove(i, state'[i], error'[i])
        BY <1>3 DEF CancelRunning, LateResult, TimeoutFires, RowMove, rows
    <2>2. SlotsAgree(phase', state', active', timer', working')
        BY <1>3 DEF CancelRunning, LateResult, TimeoutFires, SlotInv, SlotsAgree, TypeOK, rows, RowsIn
    <2>3. Quiet(state', active') \/ phase' # "on"
        BY <1>3 DEF CancelRunning, LateResult, TimeoutFires, Quiet, RowsIn, rows
    <2> QED BY <1>3, <2>1, <2>2, <2>3, NoClaimShape
            DEF CancelRunning, LateResult, TimeoutFires, rows
<1>4. ASSUME NEW j \in Jobs, NEW returned \in BOOLEAN, HandlerEnds(j, returned)
      PROVE  StepShape
    <2> DEFINE o == Outcome(j, returned)
               tm == [timer EXCEPT ![j] = "off"]
    <2>1. j \in active \cap Handled /\ phase # "off"
        BY <1>4 DEF HandlerEnds, SlotInv, SlotsAgree
    <2>2. PICK r \in Finished(j, o[1], o[2]) :
              PumpOrThrow(r.st, r.er, active \ {j}, tm, working \ {j})
        BY <1>4 DEF HandlerEnds
    <2>3. o[1] \in Terminal /\ o[2] \in Errors
        BY OutcomeTypes
    <2>4. working \ {j} \in SUBSET Jobs /\ working \ {j} \subseteq Handled
        BY DEF TypeOK, SlotInv, SlotsAgree
    <2>5. /\ Types(r.st, r.er, active \ {j}, tm, working \ {j})
          /\ \A i \in Jobs : RowMove(i, r.st[i], r.er[i])
          /\ SlotsAgree(phase, r.st, active \ {j}, tm, working \ {j})
        BY <2>1, <2>3, <2>4, FinishedMoves
    <2>6. phase' = phase
        BY <1>4 DEF HandlerEnds
    <2> HIDE DEF o, tm
    <2> QED BY <2>2, <2>5, <2>6, PumpShape
<1>5. ASSUME NEW j \in Jobs, GraceEnds(j) PROVE StepShape
    <2> DEFINE tm == [timer EXCEPT ![j] = "off"]
    <2>1. j \in active \cap Handled /\ phase # "off"
        BY <1>5 DEF GraceEnds, SlotInv, SlotsAgree
    <2>2. PICK r \in Finished(j, "failed", "timeout") :
              Pump(r.st, r.er, active \ {j}, tm, working)
        BY <1>5 DEF GraceEnds
    <2>3. "failed" \in Terminal /\ "timeout" \in Errors
        BY DEF Terminal, Errors
    <2>4. working \in SUBSET Jobs /\ working \subseteq Handled
        BY DEF TypeOK, SlotInv, SlotsAgree
    <2>5. /\ Types(r.st, r.er, active \ {j}, tm, working)
          /\ \A i \in Jobs : RowMove(i, r.st[i], r.er[i])
          /\ SlotsAgree(phase, r.st, active \ {j}, tm, working)
        BY <2>1, <2>3, <2>4, FinishedMoves
    <2>6. PumpOrThrow(r.st, r.er, active \ {j}, tm, working) /\ phase' = phase
        BY <1>5, <2>2 DEF GraceEnds, PumpOrThrow
    <2> HIDE DEF tm
    <2> QED BY <2>5, <2>6, PumpShape
<1>6. ASSUME NEW j \in Jobs, GraceEndsFatally(j) PROVE StepShape
    <2> DEFINE tm == [timer EXCEPT ![j] = "off"]
    <2>1. j \in active \cap Handled /\ phase # "off"
        BY <1>6 DEF GraceEndsFatally, SlotInv, SlotsAgree
    <2>2. PICK r \in Finished(j, "failed", "timeout"), C \in SUBSET Jobs :
              Takes(r.st, active \ {j}, C) /\ ClaimRows(C, r.st, r.er)
        BY <1>6 DEF GraceEndsFatally, IsCut
    <2>3. "failed" \in Terminal /\ "timeout" \in Errors
        BY DEF Terminal, Errors
    <2>4. working \in SUBSET Jobs /\ working \subseteq Handled
        BY DEF TypeOK, SlotInv, SlotsAgree
    <2>5. /\ Types(r.st, r.er, active \ {j}, tm, working)
          /\ \A i \in Jobs : RowMove(i, r.st[i], r.er[i])
        BY <2>1, <2>3, <2>4, FinishedMoves
    <2>6. ProcessGone
        BY <1>6 DEF GraceEndsFatally
    <2> HIDE DEF tm
    <2>7. StepTo(C, r.st, r.er, active \ {j}, tm, working)
        BY <2>2, <2>5, <2>6 DEF StepTo
    <2> QED BY <2>7 DEF StepShape
<1>7. CASE Boot \/ BootThrows
    <2>1. PICK C \in SUBSET Jobs :
              /\ Claim(C, SweptState, SweptError, {}, timer, {})
              /\ Takes(SweptState, {}, C)
              /\ C = {} \/ phase' = "on"
              /\ phase' = "on" => IsDrain(SweptState, {}, C) \/ "claim" \in DbErrors
        BY <1>7, DrainTakes DEF Boot, BootThrows, IsCut
    <2>2. Types(SweptState, SweptError, {}, timer, {})
        BY SweptTypes DEF Types, TypeOK
    <2>3. SlotsAgree(phase', SweptState, {}, timer, {})
        BY <1>7, SweptTypes DEF Boot, BootThrows, SlotInv, SlotsAgree, RowsIn
    <2>4. StepTo(C, SweptState, SweptError, {}, timer, {})
        BY <2>1, <2>2, <2>3, SweepMoves DEF StepTo, Claim
    <2> QED BY <2>4 DEF StepShape
<1>9. CASE SweepOrphans
    <2>1. PICK stale \in SUBSET Orphans :
              PumpOrThrow(Reaped(stale, state), Reaped(stale, error), active, timer, working)
        BY <1>9 DEF SweepOrphans
    <2> DEFINE st == Reaped(stale, state)
               er == Reaped(stale, error)
    <2>2. Types(st, er, active, timer, working)
        BY DEF TypeOK, Types, States, Terminal, Errors, Reaped
    <2>3. \A i \in Jobs : RowMove(i, st[i], er[i])
        BY DEF RowMove, RowsIn, Terminal, Reaped, Orphans
    <2>4. SlotsAgree(phase, st, active, timer, working)
        BY DEF Reaped, Orphans, SlotInv, SlotsAgree, RowsIn, TypeOK
    <2>5. phase' = phase
        BY <1>9 DEF SweepOrphans
    <2> HIDE DEF st, er
    <2>6. PumpOrThrow(st, er, active, timer, working)
        BY <2>1 DEF st, er
    <2> QED BY <2>2, <2>3, <2>4, <2>5, <2>6, PumpShape
<1>10. CASE Stop
    <2>1. SlotsAgree(phase', state', active', timer', working')
        BY <1>10 DEF Stop, SlotInv, SlotsAgree, rows, RowsIn
    <2>2. \A i \in Jobs : RowMove(i, state'[i], error'[i])
        BY <1>10 DEF Stop, rows, RowMove
    <2> QED BY <1>10, <2>1, <2>2, NoClaimShape DEF Stop, rows
<1>11. CASE Exit \/ Crash
    <2>1. SlotsAgree(phase', state', active', timer', working')
        BY <1>11, GoneAgrees DEF Exit, Crash
    <2>2. \A i \in Jobs : RowMove(i, state'[i], error'[i])
        BY <1>11 DEF Exit, Crash, rows, RowMove
    <2> QED BY <1>11, <2>1, <2>2, NoClaimShape DEF Exit, Crash, ProcessGone, rows
<1> QED BY <1>1, <1>2, <1>3, <1>4, <1>5, <1>6, <1>7, <1>9, <1>10, <1>11
        DEF Next, JobStep, ProcessStep

(* A claim keeps slots and rows in agreement.                              *)
LEMMA ClaimAgrees ==
    ASSUME NEW C \in SUBSET Jobs, NEW st, NEW er, NEW held, NEW tm, NEW wk,
           StepTo(C, st, er, held, tm, wk)
    PROVE  SlotInv'
<1>0. CASE ProcessGone
    BY <1>0 DEF ProcessGone, SlotInv, SlotsAgree
<1> SUFFICES ASSUME ~ProcessGone PROVE SlotInv'
    BY <1>0
<1>1. /\ \A j \in Jobs : state'[j] = IF j \notin C THEN st[j]
                                     ELSE IF j \in Handled THEN "running" ELSE "failed"
      /\ active' = held \cup C /\ working' = wk \cup (C \cap Handled)
      /\ \A j \in Jobs : timer'[j] = IF j \in C \cap Handled THEN "armed" ELSE tm[j]
    BY DEF StepTo, Claim, ClaimRows
<1>2. held \subseteq Jobs /\ (C = {} \/ phase' = "on") /\ SlotsAgree(phase', st, held, tm, wk)
    BY DEF StepTo, Types
<1>3. \A j \in active' \cap Handled : state'[j] = "running"
    BY <1>1, <1>2 DEF SlotsAgree
<1>4. \A j \in Jobs : timer'[j] # "off" <=> j \in active' \cap Handled
    BY <1>1, <1>2 DEF SlotsAgree
<1>5. working' \subseteq Handled /\ (phase' = "off" => active' = {})
    BY <1>1, <1>2 DEF SlotsAgree
<1>6. "finish" \notin DbErrors /\ phase' # "off" => RowsIn(state', "running") \subseteq active'
    BY <1>1, <1>2 DEF SlotsAgree, RowsIn
<1> QED BY <1>3, <1>4, <1>5, <1>6 DEF SlotInv, SlotsAgree

(* The inductive invariant every theorem below rests on: types, and the    *)
(* agreement of slots and rows.                                            *)
Inv == TypeOK /\ SlotInv

LEMMA InvStep == Inv /\ [Next]_vars => Inv'
<1> SUFFICES ASSUME Inv, [Next]_vars PROVE Inv'
    OBVIOUS
<1>1. CASE Next
    BY <1>1, TypeStep, EveryStepHasShape, ClaimAgrees DEF Inv, StepShape
<1>2. CASE UNCHANGED vars
    BY <1>2, TypeStep DEF Inv, SlotInv, SlotsAgree, vars, rows, process, RowsIn
<1> QED BY <1>1, <1>2

(* Slots and rows agree in every reachable state.                          *)
THEOREM InvHolds == Spec => []Inv
BY TypeInit, SlotInit, InvStep, PTL DEF Spec, Inv

-----------------------------------------------------------------------------
(* The lane lock.                                                          *)

LEMMA LaneStep == Inv /\ LaneLock /\ [Next]_vars => LaneLock'
<1> SUFFICES ASSUME Inv, LaneLock, [Next]_vars PROVE LaneLock'
    OBVIOUS
<1>1. CASE Next
    <2>1. PICK C \in SUBSET Jobs : \E st, er, held, tm, wk : StepTo(C, st, er, held, tm, wk)
        BY <1>1, EveryStepHasShape DEF Inv, StepShape
    <2>2. PICK st, er, held, tm, wk : StepTo(C, st, er, held, tm, wk)
        BY <2>1
    <2>3. \A j \in Jobs : st[j] = "running" => state[j] = "running"
        BY <2>2 DEF StepTo, RowMove, Terminal
    <2>4. Exclusive(st) /\ st \in [Jobs -> States]
        BY <2>2, <2>3 DEF LaneLock, Exclusive, StepTo, Types
    <2>5. state' = After(st, C)
        BY <2>2 DEF StepTo, ClaimRows, After
    <2>6. CASE C = {}
        BY <2>4, <2>5, <2>6 DEF After, Exclusive, LaneLock
    <2>7. CASE Takes(st, held, C)
        BY <2>4, <2>5, <2>7, PumpKeepsLanes DEF Exclusive, LaneLock
    <2> QED BY <2>2, <2>6, <2>7 DEF StepTo
<1>2. CASE UNCHANGED vars
    BY <1>2 DEF LaneLock, vars, rows
<1> QED BY <1>1, <1>2

(* Never two running rows of one user and lane, for any number of jobs,    *)
(* through failed writes, sweeps, timeouts and restarts.                   *)
THEOREM LaneLockHolds == Spec => []LaneLock
<1>1. Init => LaneLock
    BY DEF Init, LaneLock
<1> QED BY <1>1, LaneStep, InvHolds, PTL DEF Spec

-----------------------------------------------------------------------------
(* The life cycle of a row.                                                *)

(* One step of the runner is one step of JobLifecycle.                     *)
LEMMA LifecycleStep ==
    ASSUME Inv, LaneLock, LaneLock', [Next]_vars
    PROVE  [Lifecycle!Next]_state
<1>1. CASE Next
    <2>1. PICK C \in SUBSET Jobs : \E st, er, held, tm, wk : StepTo(C, st, er, held, tm, wk)
        BY <1>1, EveryStepHasShape DEF Inv, StepShape
    <2>2. PICK st, er, held, tm, wk : StepTo(C, st, er, held, tm, wk)
        BY <2>1
    <2>3. state' \in [Jobs -> Lifecycle!States]
        BY <1>1, TypeStep DEF Inv, TypeOK, States, Terminal, Lifecycle!States, Lifecycle!Terminal
    <2>4. ASSUME NEW j \in Jobs PROVE state'[j] \in Lifecycle!After(state[j])
        <3>1. state[j] \in States /\ RowMove(j, st[j], er[j])
            BY <2>2 DEF Inv, TypeOK, StepTo
        <3>2. \/ j \notin C /\ state'[j] = st[j]
              \/ j \in C /\ st[j] = "queued" /\ state'[j] \in {"running", "failed"}
            BY <2>2, TakenFromQueue DEF StepTo, ClaimRows
        <3> QED BY <3>1, <3>2
                DEF RowMove, States, Terminal, Lifecycle!After, Lifecycle!Terminal
    <2>5. Lifecycle!OneRunningPerLane(state')
        BY DEF LaneLock, Lifecycle!OneRunningPerLane
    <2> QED BY <2>3, <2>4, <2>5 DEF Lifecycle!Next
<1>2. CASE UNCHANGED vars
    BY <1>2 DEF vars, rows
<1> QED BY <1>1, <1>2

(* The queue and runner implement JobLifecycle: rows move only along its   *)
(* edges, finished rows never move, lanes stay exclusive.                  *)
THEOREM ImplementsLifecycle == Spec => KeepsLifecycle
<1>1. Init => Lifecycle!Init
    BY DEF Init, Lifecycle!Init
<1> QED BY <1>1, LifecycleStep, InvHolds, LaneLockHolds, PTL
        DEF Spec, KeepsLifecycle, Lifecycle!Spec

(* A finished job keeps its state and its error for ever.                  *)
THEOREM FinishedStaysHolds == Spec => FinishedStays
<1> DEFINE Stays == \A j \in Jobs : state[j] \in Terminal =>
                        state'[j] = state[j] /\ error'[j] = error[j]
<1>1. ASSUME Inv, [Next]_vars PROVE Stays
    <2>1. CASE Next
        <3>1. PICK C \in SUBSET Jobs : \E st, er, held, tm, wk : StepTo(C, st, er, held, tm, wk)
            BY <1>1, <2>1, EveryStepHasShape DEF Inv, StepShape
        <3>2. PICK st, er, held, tm, wk : StepTo(C, st, er, held, tm, wk)
            BY <3>1
        <3>3. ASSUME NEW j \in Jobs, state[j] \in Terminal
              PROVE  state'[j] = state[j] /\ error'[j] = error[j]
            <4>1. st[j] = state[j] /\ er[j] = error[j]
                BY <3>2, <3>3 DEF StepTo, RowMove, Terminal
            <4>2. j \notin C
                BY <3>2, <3>3, <4>1, TakenFromQueue DEF StepTo, Terminal
            <4> QED BY <3>2, <4>1, <4>2 DEF StepTo, ClaimRows
        <3> QED BY <3>3
    <2>2. CASE UNCHANGED vars
        BY <2>2 DEF vars, rows
    <2> QED BY <1>1, <2>1, <2>2
<1>2. Inv /\ [Next]_vars => [Stays]_vars
    BY <1>1
<1> QED BY <1>2, InvHolds, PTL DEF Spec, FinishedStays

-----------------------------------------------------------------------------
(* How often a job runs.                                                   *)

Bound(j) == IF j \in Resumable THEN MaxAttempts ELSE 1

(* A row that may still be claimed has attempts to spare, and a cancel is  *)
(* only ever asked of a row that has left the queue.                       *)
AttemptInv ==
    /\ \A j \in Jobs : attempts[j] <= Bound(j)
    /\ \A j \in Jobs : state[j] = "absent" => attempts[j] = 0
    /\ \A j \in Jobs : state[j] = "queued" => attempts[j] < Bound(j)
    /\ \A j \in cancelRequested : state[j] \notin {"absent", "queued"}

LEMMA CancelSet ==
    ASSUME Next
    PROVE  \/ cancelRequested' = cancelRequested
           \/ \E j \in Jobs : CancelRunning(j)
<1>1. ASSUME NEW j \in Jobs, JobStep(j), ~CancelRunning(j)
      PROVE  cancelRequested' = cancelRequested
    BY <1>1 DEF JobStep, Submit, CancelQueued, HandlerEnds, LateResult, TimeoutFires,
                GraceEnds, GraceEndsFatally, rows
<1>2. ASSUME ProcessStep PROVE cancelRequested' = cancelRequested
    BY <1>2 DEF ProcessStep, Boot, BootThrows, SweepOrphans, Stop, Exit, Crash, rows
<1> QED BY <1>1, <1>2 DEF Next

(* What one claiming step does to one row and its attempts.                *)
LEMMA RowStep ==
    ASSUME Inv, NEW C \in SUBSET Jobs, NEW st, NEW er, NEW held, NEW tm, NEW wk,
           StepTo(C, st, er, held, tm, wk), NEW j \in Jobs
    PROVE  /\ RowMove(j, st[j], er[j])
           /\ \/ j \notin C /\ state'[j] = st[j] /\ attempts'[j] = attempts[j]
              \/ /\ j \in C /\ st[j] = "queued" /\ state'[j] \in {"running", "failed"}
                 /\ attempts'[j] = attempts[j] + 1
BY TakenFromQueue DEF StepTo, ClaimRows

LEMMA AttemptStep == Inv /\ AttemptInv /\ [Next]_vars => AttemptInv'
<1> SUFFICES ASSUME Inv, AttemptInv, [Next]_vars PROVE AttemptInv'
    OBVIOUS
<1>1. CASE Next
    <2>1. PICK C \in SUBSET Jobs : \E st, er, held, tm, wk : StepTo(C, st, er, held, tm, wk)
        BY <1>1, EveryStepHasShape DEF Inv, StepShape
    <2>2. PICK st, er, held, tm, wk : StepTo(C, st, er, held, tm, wk)
        BY <2>1
    <2>3. ASSUME NEW j \in Jobs
          PROVE  /\ attempts'[j] <= Bound(j)
                 /\ state'[j] = "absent" => attempts'[j] = 0
                 /\ state'[j] = "queued" => attempts'[j] < Bound(j)
        <3>1. /\ RowMove(j, st[j], er[j])
              /\ \/ j \notin C /\ state'[j] = st[j] /\ attempts'[j] = attempts[j]
                 \/ /\ j \in C /\ st[j] = "queued" /\ state'[j] \in {"running", "failed"}
                    /\ attempts'[j] = attempts[j] + 1
            BY <2>2, RowStep
        <3>2. attempts[j] \in Nat /\ Bound(j) \in Nat \ {0} /\ state[j] \in States
            BY LimitAssumption DEF Inv, TypeOK, Bound
        <3>3. st[j] = "queued" => attempts[j] < Bound(j)
            BY <3>1, <3>2 DEF RowMove, AttemptInv, Terminal, Bound
        <3>4. st[j] = "absent" => state[j] = "absent"
            BY <3>1 DEF RowMove, Terminal
        <3> QED BY <3>1, <3>2, <3>3, <3>4 DEF AttemptInv
    <2>4. ASSUME NEW j \in cancelRequested' PROVE state'[j] \notin {"absent", "queued"}
        <3>1. CASE cancelRequested' = cancelRequested
            <4>1. j \in Jobs /\ state[j] \notin {"absent", "queued"}
                BY <2>4, <3>1 DEF Inv, TypeOK, AttemptInv
            <4>2. st[j] \notin {"absent", "queued"}
                BY <2>2, <2>4, <3>1, <4>1, RowStep DEF RowMove, Terminal
            <4> QED BY <2>2, <4>1, <4>2, RowStep
        <3>2. CASE \E i \in Jobs : CancelRunning(i)
            BY <2>4, <3>2 DEF CancelRunning, AttemptInv
        <3> QED BY <1>1, <3>1, <3>2, CancelSet
    <2> QED BY <2>3, <2>4 DEF AttemptInv
<1>2. CASE UNCHANGED vars
    BY <1>2 DEF AttemptInv, vars, rows
<1> QED BY <1>1, <1>2

LEMMA AttemptInvHolds == Spec => []AttemptInv
<1>1. Init => AttemptInv
    BY LimitAssumption DEF Init, AttemptInv, Bound
<1> QED BY <1>1, AttemptStep, InvHolds, PTL DEF Spec

(* A job of a kind that is not resumable starts at most once, a resumable  *)
(* one at most MaxAttempts times, over any number of crashes.              *)
THEOREM AttemptsBoundedHolds == Spec => []AttemptsBounded
<1>1. AttemptInv => AttemptsBounded
    BY DEF AttemptInv, AttemptsBounded, Bound
<1> QED BY <1>1, AttemptInvHolds, PTL

(* A job whose cancel was asked for is never started again.                *)
THEOREM CancelledNeverRerunsHolds == Spec => CancelledNeverReruns
<1> DEFINE Never == \A j \in cancelRequested : attempts'[j] = attempts[j]
<1>1. ASSUME Inv, AttemptInv, [Next]_vars PROVE Never
    <2>1. CASE Next
        <3>1. PICK C \in SUBSET Jobs : \E st, er, held, tm, wk : StepTo(C, st, er, held, tm, wk)
            BY <1>1, <2>1, EveryStepHasShape DEF Inv, StepShape
        <3>2. PICK st, er, held, tm, wk : StepTo(C, st, er, held, tm, wk)
            BY <3>1
        <3>3. ASSUME NEW j \in cancelRequested PROVE attempts'[j] = attempts[j]
            <4>1. j \in Jobs /\ state[j] \notin {"absent", "queued"}
                BY <1>1 DEF Inv, TypeOK, AttemptInv
            <4>2. st[j] # "queued"
                BY <1>1, <3>2, <4>1, RowStep DEF RowMove, Terminal
            <4> QED BY <1>1, <3>2, <4>1, <4>2, RowStep
        <3> QED BY <3>3
    <2>2. CASE UNCHANGED vars
        BY <2>2 DEF vars, rows
    <2> QED BY <1>1, <2>1, <2>2
<1>2. Inv /\ AttemptInv /\ [Next]_vars => [Never]_vars
    BY <1>1
<1> QED BY <1>2, InvHolds, AttemptInvHolds, PTL DEF Spec, CancelledNeverReruns

-----------------------------------------------------------------------------
(* Slots.                                                                  *)

(* When every kind has a handler, a slot is only ever held for a row that  *)
(* runs: a settled job gave it back.  Handled = Jobs cannot be dropped.    *)
THEOREM SlotFreedHolds == ASSUME Handled = Jobs PROVE Spec => []SlotFreed
<1>1. Inv => SlotFreed
    BY DEF Inv, TypeOK, SlotInv, SlotsAgree, SlotFreed
<1> QED BY <1>1, InvHolds, PTL

(* Without a failed ending write every running row is held by the process, *)
(* so no lane can be locked for good.                                      *)
THEOREM RunningIsHeldHolds == Spec => []RunningIsHeld
<1>1. Inv => RunningIsHeld
    BY DEF Inv, SlotInv, SlotsAgree, RunningIsHeld
<1> QED BY <1>1, InvHolds, PTL

(* Fewer running rows and fewer held slots leave a claimable row           *)
(* claimable, and so is every other row of its lane.                       *)
LEMMA ClaimableMonotone ==
    ASSUME NEW st, NEW held \in SUBSET Jobs, NEW taken \in SUBSET Jobs, NEW j \in Jobs,
           NEW st2, NEW held2 \in SUBSET Jobs, NEW taken2 \in SUBSET Jobs, NEW k \in Jobs,
           RowsIn(st, "running") \cup taken \subseteq RowsIn(st2, "running") \cup taken2,
           held \cup taken \subseteq held2 \cup taken2,
           Lane(j) = Lane(k),
           Claimable(st2, held2, taken2, k)
    PROVE  Claimable(st, held, taken, j)
<1> DEFINE run == RowsIn(st, "running") \cup taken
           run2 == RowsIn(st2, "running") \cup taken2
           mine == {r \in run : UserOf[r] = UserOf[j]}
           mine2 == {r \in run2 : UserOf[r] = UserOf[k]}
<1>0. UserOf[j] = UserOf[k]
    BY DEF Lane
<1>1. \A r \in run : Lane(r) # Lane(j)
    BY DEF Claimable
<1>2. Cardinality(mine) < PerUserLimit
    <2>1. mine \in SUBSET mine2 /\ mine2 \in SUBSET Jobs
        BY <1>0 DEF RowsIn
    <2>2. IsFiniteSet(mine2) /\ IsFiniteSet(mine)
        BY <2>1, JobsAssumption, FS_Subset
    <2>3. Cardinality(mine) <= Cardinality(mine2)
        BY <2>1, <2>2, FS_Subset
    <2>4. Cardinality(mine2) < PerUserLimit
        BY DEF Claimable
    <2> HIDE DEF mine, mine2
    <2> QED BY <2>2, <2>3, <2>4, FS_CardinalityType, LimitAssumption
<1>3. Cardinality(held \cup taken) < MaxConcurrent
    <2> DEFINE more == held2 \cup taken2
    <2>1. held \cup taken \in SUBSET more /\ more \in SUBSET Jobs
        OBVIOUS
    <2>2. IsFiniteSet(more) /\ IsFiniteSet(held \cup taken)
        BY <2>1, JobsAssumption, FS_Subset
    <2>3. Cardinality(held \cup taken) <= Cardinality(more)
        BY <2>1, <2>2, FS_Subset
    <2>4. Cardinality(more) < MaxConcurrent
        BY DEF Claimable
    <2> HIDE DEF more
    <2> QED BY <2>2, <2>3, <2>4, FS_CardinalityType, LimitAssumption
<1> QED BY <1>1, <1>2, <1>3 DEF Claimable

(* After a pump nothing is left that it could have claimed.                *)
LEMMA DrainServes ==
    ASSUME NEW st \in [Jobs -> States], NEW held \in SUBSET Jobs, NEW C \in SUBSET Jobs,
           IsDrain(st, held, C), NEW j \in Jobs, After(st, C)[j] = "queued"
    PROVE  ~Claimable(After(st, C), held \cup C, {}, j)
<1> DEFINE older == {k \in C \cap Handled : k < j}
<1>1. j \notin C /\ st[j] = "queued"
    BY DEF After
<1>2. ~Claimable(st, held, older, j)
    BY <1>1 DEF IsDrain, RowsIn
<1>3. RowsIn(st, "running") \cup older \subseteq RowsIn(After(st, C), "running") \cup {}
    BY DrainTakes, TakenFromQueue DEF After, RowsIn
<1>4. /\ held \cup C \in SUBSET Jobs /\ older \in SUBSET Jobs /\ {} \in SUBSET Jobs
      /\ held \cup older \subseteq (held \cup C) \cup {}
    OBVIOUS
<1> HIDE DEF older
<1> QED BY <1>2, <1>3, <1>4, ClaimableMonotone

LEMMA ServedStep ==
    ASSUME "claim" \notin DbErrors, Inv, WorkConserving, [Next]_vars
    PROVE  WorkConserving'
<1> SUFFICES ASSUME phase' = "on", NEW j \in Jobs, state'[j] = "queued"
             PROVE  ~Claimable(state', active', {}, j)
    BY DEF WorkConserving, RowsIn
<1>1. CASE Next
    <2>1. PICK C \in SUBSET Jobs : \E st, er, held, tm, wk : StepTo(C, st, er, held, tm, wk)
        BY <1>1, EveryStepHasShape DEF Inv, StepShape
    <2>2. PICK st, er, held, tm, wk : StepTo(C, st, er, held, tm, wk)
        BY <2>1
    <2>3. state' = After(st, C) /\ active' = held \cup C /\ st \in [Jobs -> States]
          /\ held \in SUBSET Jobs
        BY <2>2 DEF StepTo, Types, Claim, ClaimRows, After, ProcessGone
    <2>4. CASE IsDrain(st, held, C)
        BY <2>3, <2>4, DrainServes
    <2>5. CASE C = {} /\ Quiet(st, held)
        <3>1. state' = st /\ active' = active
            BY <2>3, <2>5 DEF After, Quiet
        <3>2. state[j] = "queued" /\ phase = "on"
            BY <2>5, <3>1 DEF Quiet, RowsIn
        <3>3. ~Claimable(state, active, {}, j)
            BY <3>2 DEF WorkConserving, RowsIn
        <3>4. RowsIn(state', "running") = RowsIn(state, "running")
            BY <2>5, <3>1 DEF Quiet
        <3> QED BY <3>1, <3>3, <3>4 DEF Claimable
    <2> QED BY <2>2, <2>4, <2>5 DEF StepTo, ProcessGone
<1>2. CASE UNCHANGED vars
    BY <1>2 DEF WorkConserving, vars, rows, process, RowsIn
<1> QED BY <1>1, <1>2

(* No lost wakeup: as long as no claim query throws, a queued job waits    *)
(* only for a slot, its lane or its user's share, in every reachable state.*)
THEOREM WorkConservingHolds ==
    ASSUME "claim" \notin DbErrors PROVE Spec => []WorkConserving
<1>1. Init => WorkConserving
    BY DEF Init, WorkConserving
<1>2. Inv /\ WorkConserving /\ [Next]_vars => WorkConserving'
    BY ServedStep
<1> QED BY <1>1, <1>2, InvHolds, PTL DEF Spec

-----------------------------------------------------------------------------
(* Order within a lane.                                                    *)

(* A pump claims no job while an older one of its lane stays queued.       *)
LEMMA PumpKeepsOrder ==
    ASSUME NEW st \in [Jobs -> States], NEW held \in SUBSET Jobs, NEW C \in SUBSET Jobs,
           Takes(st, held, C),
           NEW j \in C, NEW k \in Jobs, k < j, Lane(k) = Lane(j)
    PROVE  After(st, C)[k] # "queued"
<1> SUFFICES ASSUME k \notin C, st[k] = "queued" PROVE FALSE
    BY DEF After
<1> DEFINE olderJ == {x \in C \cap Handled : x < j}
           olderK == {x \in C \cap Handled : x < k}
<1>0. k <= j
    BY JobsAssumption
<1>1. Claimable(st, held, olderJ, j) /\ ~Claimable(st, held, olderK, k)
    BY <1>0, TakenFromQueue DEF Takes, RowsIn
<1>2. olderK \subseteq olderJ
    <2>1. ASSUME NEW x \in C \cap Handled, x < k PROVE x < j
        <3>1. x \in Nat /\ k \in Nat /\ j \in Nat
            BY JobsAssumption
        <3> QED BY <3>1, <2>1
    <2> QED BY <2>1
<1>3. olderJ \in SUBSET Jobs /\ olderK \in SUBSET Jobs
    OBVIOUS
<1> HIDE DEF olderJ, olderK
<1>4. /\ RowsIn(st, "running") \cup olderK \subseteq RowsIn(st, "running") \cup olderJ
      /\ held \cup olderK \subseteq held \cup olderJ
    BY <1>2
<1>5. Claimable(st, held, olderK, k)
    BY <1>1, <1>3, <1>4, ClaimableMonotone
<1> QED BY <1>1, <1>5

(* Within a lane jobs start in the order they were submitted, restarts and *)
(* requeues included.                                                      *)
THEOREM LaneOrderHolds == Spec => LaneOrder
<1> DEFINE Ordered == \A j, k \in Jobs :
               attempts'[j] > attempts[j] /\ k < j /\ Lane(k) = Lane(j) => state'[k] # "queued"
<1>1. ASSUME Inv, [Next]_vars PROVE Ordered \/ UNCHANGED vars
    <2> SUFFICES ASSUME Next PROVE Ordered
        BY <1>1
    <2>1. PICK C \in SUBSET Jobs : \E st, er, held, tm, wk : StepTo(C, st, er, held, tm, wk)
        BY <1>1, EveryStepHasShape DEF Inv, StepShape
    <2>2. PICK st, er, held, tm, wk : StepTo(C, st, er, held, tm, wk)
        BY <2>1
    <2> SUFFICES ASSUME NEW j \in Jobs, NEW k \in Jobs, attempts'[j] > attempts[j],
                        k < j, Lane(k) = Lane(j)
                 PROVE  state'[k] # "queued"
        OBVIOUS
    <2>3. j \in C
        <3>1. attempts[j] \in Nat /\ attempts'[j] = IF j \in C THEN attempts[j] + 1 ELSE attempts[j]
            BY <1>1, <2>2 DEF Inv, TypeOK, StepTo, ClaimRows
        <3> QED BY <3>1
    <2>4. Takes(st, held, C) /\ state' = After(st, C)
        BY <2>2, <2>3 DEF StepTo, ClaimRows, After
    <2>5. st \in [Jobs -> States] /\ held \in SUBSET Jobs
        BY <2>2 DEF StepTo, Types
    <2> QED BY <2>3, <2>4, <2>5, PumpKeepsOrder
<1>2. Inv /\ [Next]_vars => [Ordered]_vars
    BY <1>1
<1> QED BY <1>2, InvHolds, PTL DEF Spec, LaneOrder

-----------------------------------------------------------------------------
(* Shares.                                                                 *)

(* A finite set of numbers has a last one.                                 *)
LEMMA LastOf ==
    ASSUME NEW S \in SUBSET Nat, IsFiniteSet(S), S # {}
    PROVE  \E j \in S : \A k \in S : k <= j
<1> DEFINE above(j) == {k \in S : j < k}
           tails == {above(j) : j \in S}
<1>1. tails \subseteq SUBSET S /\ tails # {}
    OBVIOUS
<1>2. IsWellFoundedOn(StrictSubsetOrdering(S), SUBSET S)
    BY FS_StrictSubsetOrderingWellFounded, FS_FiniteSubsetsOfFinite
<1>3. PICK least \in tails : \A tail \in tails : ~ <<tail, least>> \in StrictSubsetOrdering(S)
    <2> HIDE DEF tails
    <2> QED BY <1>1, <1>2, WFMin
<1>4. PICK j \in S : least = above(j)
    OBVIOUS
<1>5. ASSUME NEW k \in S, j < k PROVE FALSE
    <2>0. \A i \in S : (k < i => j < i) /\ ~(i < i)
        BY <1>5
    <2>1. above(k) \subseteq above(j) /\ k \in above(j) /\ k \notin above(k)
        BY <1>5, <2>0
    <2>2. above(k) \in tails /\ above(k) \in SUBSET S /\ above(j) \in SUBSET S
        OBVIOUS
    <2> HIDE DEF above, tails
    <2>3. <<above(k), above(j)>> \in StrictSubsetOrdering(S)
        BY <2>1, <2>2 DEF StrictSubsetOrdering
    <2> QED BY <1>3, <1>4, <2>2, <2>3
<1> QED BY <1>5

(* A pump respects a limit that every claim respects: it held when the     *)
(* last of the claimed was taken.                                          *)
LEMMA LimitKept ==
    ASSUME NEW before \in SUBSET Jobs, NEW claimed \in SUBSET Jobs, NEW limit \in Nat,
           Cardinality(before) <= limit,
           \A j \in claimed : Cardinality(before \cup {k \in claimed : k < j}) < limit
    PROVE  Cardinality(before \cup claimed) <= limit
<1>1. CASE claimed = {}
    <2>1. before \cup claimed = before
        BY <1>1
    <2> QED BY <2>1
<1>2. CASE claimed # {}
    <2>1. claimed \in SUBSET Nat /\ IsFiniteSet(claimed)
        BY JobsAssumption, FS_Subset
    <2>2. PICK j \in claimed : \A k \in claimed : k <= j
        BY <1>2, <2>1, LastOf
    <2> DEFINE older == before \cup {k \in claimed : k < j}
    <2>3. IsFiniteSet(older) /\ Cardinality(older) < limit
        BY JobsAssumption, FS_Subset
    <2>4. before \cup claimed = older \cup {j}
        <3>1. \A k \in claimed : k < j \/ k = j
            BY <2>1, <2>2
        <3> QED BY <2>2, <3>1
    <2> HIDE DEF older
    <2>5. Cardinality(older) \in Nat
        BY <2>3, FS_CardinalityType
    <2>6. Cardinality(older \cup {j}) \in {Cardinality(older), Cardinality(older) + 1}
        BY <2>3, FS_AddElement
    <2> QED BY <2>3, <2>4, <2>5, <2>6
<1> QED BY <1>1, <1>2

LEMMA ShareStep ==
    ASSUME Handled = Jobs, Inv, FairShare, [Next]_vars
    PROVE  FairShare'
<1>1. CASE UNCHANGED vars
    BY <1>1 DEF FairShare, vars, rows, process, RowsIn
<1>2. CASE Next
    <2>1. PICK C \in SUBSET Jobs : \E st, er, held, tm, wk : StepTo(C, st, er, held, tm, wk)
        BY <1>2, EveryStepHasShape DEF Inv, StepShape
    <2>2. PICK st, er, held, tm, wk : StepTo(C, st, er, held, tm, wk)
        BY <2>1
    <2>3. C = {} \/ Takes(st, held, C)
        BY <2>2 DEF StepTo
    <2>4. active' \subseteq held \cup C /\ RowsIn(state', "running") = RowsIn(st, "running") \cup C
        BY <2>2 DEF StepTo, Claim, ClaimRows, ProcessGone, RowsIn
    <2>5. held \subseteq active /\ active \subseteq Jobs
          /\ RowsIn(st, "running") \subseteq RowsIn(state, "running")
        BY <2>2 DEF StepTo, Types, RowMove, RowsIn, Terminal, Inv, TypeOK
    <2>6. \A j \in C : Claimable(st, held, {k \in C : k < j}, j)
        BY <2>3, TakenFromQueue
    <2>7. Cardinality(active') <= MaxConcurrent
        <3>1. Cardinality(held) <= MaxConcurrent
            <4>1. IsFiniteSet(active) /\ IsFiniteSet(held) /\ Cardinality(held) <= Cardinality(active)
                BY <2>5, JobsAssumption, FS_Subset
            <4> QED BY <4>1, FS_CardinalityType, LimitAssumption DEF FairShare
        <3>2. \A j \in C : Cardinality(held \cup {k \in C : k < j}) < MaxConcurrent
            BY <2>6 DEF Claimable
        <3>3. Cardinality(held \cup C) <= MaxConcurrent
            BY <2>5, <3>1, <3>2, LimitKept, LimitAssumption
        <3>4. /\ Cardinality(active') <= Cardinality(held \cup C)
              /\ Cardinality(active') \in Nat /\ Cardinality(held \cup C) \in Nat
            <4>1. held \cup C \in SUBSET Jobs /\ active' \in SUBSET (held \cup C)
                BY <2>4, <2>5
            <4> HIDE DEF LimitAssumption
            <4> QED BY <4>1, JobsAssumption, FS_Subset, FS_CardinalityType
        <3> QED BY <3>3, <3>4, LimitAssumption
    <2>8. ASSUME NEW u \in Users
          PROVE  Cardinality({j \in RowsIn(state', "running") : UserOf[j] = u}) <= PerUserLimit
        <3> DEFINE before == {j \in RowsIn(st, "running") : UserOf[j] = u}
                   held0 == {j \in RowsIn(state, "running") : UserOf[j] = u}
                   mine == {j \in C : UserOf[j] = u}
        <3>1. Cardinality(before) <= PerUserLimit
            <4>1. IsFiniteSet(held0) /\ IsFiniteSet(before) /\ Cardinality(before) <= Cardinality(held0)
                <5>1. before \in SUBSET held0 /\ held0 \in SUBSET Jobs
                    BY <2>5 DEF RowsIn
                <5> QED BY <5>1, JobsAssumption, FS_Subset
            <4>2. Cardinality(held0) <= PerUserLimit
                BY DEF FairShare
            <4> HIDE DEF before, held0
            <4> QED BY <4>1, <4>2, FS_CardinalityType, LimitAssumption
        <3>2. \A j \in mine : Cardinality(before \cup {k \in mine : k < j}) < PerUserLimit
            <4> SUFFICES ASSUME NEW j \in mine
                         PROVE  Cardinality(before \cup {k \in mine : k < j}) < PerUserLimit
                OBVIOUS
            <4> DEFINE running == RowsIn(st, "running") \cup {k \in C : k < j}
            <4>1. Cardinality({r \in running : UserOf[r] = UserOf[j]}) < PerUserLimit
                BY <2>6 DEF Claimable
            <4>2. {r \in running : UserOf[r] = UserOf[j]} = before \cup {k \in mine : k < j}
                OBVIOUS
            <4> QED BY <4>1, <4>2
        <3>3. {j \in RowsIn(state', "running") : UserOf[j] = u} = before \cup mine
            BY <2>4
        <3>4. before \in SUBSET Jobs /\ mine \in SUBSET Jobs
            BY DEF RowsIn
        <3> HIDE DEF before, mine
        <3> QED BY <3>1, <3>2, <3>3, <3>4, LimitKept, LimitAssumption
    <2> QED BY <2>7, <2>8 DEF FairShare
<1> QED BY <1>1, <1>2

(* No user runs more than its share, and no more executions hold slots     *)
(* than there are, through orphans and restarts: when every kind has a     *)
(* handler, as SlotFreedHolds.                                             *)
THEOREM FairShareHolds == ASSUME Handled = Jobs PROVE Spec => []FairShare
<1>1. Init => FairShare
    <2> SUFFICES ASSUME Init PROVE FairShare
        OBVIOUS
    <2>1. active = {} /\ RowsIn(state, "running") = {}
        BY DEF Init, RowsIn
    <2>2. \A u \in Users : {j \in RowsIn(state, "running") : UserOf[j] = u} = {}
        BY <2>1
    <2> QED BY <2>1, <2>2, FS_EmptySet, LimitAssumption DEF FairShare
<1>2. Inv /\ FairShare /\ [Next]_vars => FairShare'
    BY ShareStep
<1> QED BY <1>1, <1>2, InvHolds, PTL DEF Spec

-----------------------------------------------------------------------------
(* Handlers that outlive their job.                                        *)

(* The rows st of the handlers wk whose slots are not in held, when the    *)
(* signals ab have fired.                                                  *)
GivenUp(st, held, wk, ab) ==
    \A j \in wk \ held : j \in ab /\ st[j] \in {"failed", "running", "interrupted"}

(* A deadline fires its signal before its grace begins.                    *)
GraceAborted(tm, ab) == \A j \in Jobs : tm[j] = "grace" => j \in ab

LingerInv ==
    /\ OnlyTimedOutLinger /\ GraceAborted(timer, aborted)
    /\ phase = "off" => working = {}

LEMMA ClaimLinger ==
    ASSUME NEW C \in SUBSET Jobs, NEW st, NEW er, NEW held \in SUBSET Jobs, NEW tm,
           NEW wk \in SUBSET Jobs,
           GivenUp(st, held, wk, aborted'), GraceAborted(tm, aborted'), phase' # "off",
           Claim(C, st, er, held, tm, wk)
    PROVE  LingerInv'
<1>1. \A j \in working' \ active' : j \in wk \ held /\ state'[j] = st[j]
    BY DEF Claim, ClaimRows
<1>2. \A j \in Jobs : timer'[j] = "grace" => tm[j] = "grace"
    BY DEF Claim
<1> QED BY <1>1, <1>2 DEF LingerInv, OnlyTimedOutLinger, GivenUp, GraceAborted

LEMMA PumpLinger ==
    ASSUME NEW st, NEW er, NEW held \in SUBSET Jobs, NEW tm, NEW wk \in SUBSET Jobs,
           GivenUp(st, held, wk, aborted'), GraceAborted(tm, aborted'), phase' # "off",
           PumpOrThrow(st, er, held, tm, wk)
    PROVE  LingerInv'
<1>1. PICK C \in SUBSET Jobs : Claim(C, st, er, held, tm, wk)
    BY DEF PumpOrThrow, Pump, PumpThrows
<1> QED BY <1>1, ClaimLinger

LEMMA GoneLinger ==
    ASSUME ProcessGone
    PROVE  LingerInv'
BY DEF ProcessGone, LingerInv, OnlyTimedOutLinger, GraceAborted

(* A settle changes the row of its job only.                               *)
LEMMA FinishedElsewhere ==
    ASSUME TypeOK, NEW j \in Jobs, NEW s, NEW e, NEW r \in Finished(j, s, e)
    PROVE  /\ \A i \in Jobs : i # j => r.st[i] = state[i]
           /\ r.st[j] \in {s, state[j]}
BY DEF Finished, TypeOK

LEMMA LingerStep ==
    ASSUME Inv, LingerInv, [Next]_vars
    PROVE  LingerInv'
<1> USE DEF LingerInv, OnlyTimedOutLinger, GraceAborted
<1>0. /\ TypeOK /\ SlotInv /\ active \in SUBSET Jobs /\ working \in SUBSET Jobs
      /\ GivenUp(state, active, working, aborted)
    BY DEF Inv, TypeOK, GivenUp
<1>1. ASSUME NEW j \in Jobs, Submit(j) PROVE LingerInv'
    <2> DEFINE st == [state EXCEPT ![j] = "queued"]
    <2>1. GivenUp(st, active, working, aborted)
        BY <1>0, <1>1 DEF GivenUp, Submit, TypeOK
    <2>2. PumpOrThrow(st, error, active, timer, working) /\ aborted' = aborted /\ phase' # "off"
        BY <1>1 DEF Submit
    <2> HIDE DEF st
    <2> QED BY <1>0, <2>1, <2>2, PumpLinger
<1>2. ASSUME NEW j \in Jobs, CancelQueued(j) PROVE LingerInv'
    <2>1. UNCHANGED <<active, aborted, timer, working, phase>>
        BY <1>2 DEF CancelQueued, process
    <2>2. \A i \in working \ active : state'[i] = state[i]
        BY <1>0, <1>2 DEF CancelQueued, TypeOK
    <2> QED BY <2>1, <2>2
<1>3. ASSUME NEW j \in Jobs, CancelRunning(j) \/ LateResult(j) \/ TimeoutFires(j) PROVE LingerInv'
    BY <1>0, <1>3 DEF CancelRunning, LateResult, TimeoutFires, rows, TypeOK
<1>4. ASSUME NEW j \in Jobs, NEW returned \in BOOLEAN, HandlerEnds(j, returned) PROVE LingerInv'
    <2> DEFINE o == Outcome(j, returned)
               tm == [timer EXCEPT ![j] = "off"]
    <2>1. PICK r \in Finished(j, o[1], o[2]) :
              PumpOrThrow(r.st, r.er, active \ {j}, tm, working \ {j})
        BY <1>4 DEF HandlerEnds
    <2>2. aborted' = aborted /\ phase' # "off"
        BY <1>0, <1>4 DEF HandlerEnds, SlotInv, SlotsAgree
    <2>3. \A i \in (working \ {j}) \ (active \ {j}) : i \in working \ active /\ r.st[i] = state[i]
        BY <1>0, FinishedElsewhere
    <2>4. GivenUp(r.st, active \ {j}, working \ {j}, aborted')
        BY <1>0, <2>2, <2>3 DEF GivenUp
    <2>5. GraceAborted(tm, aborted')
        BY <1>0, <2>2 DEF TypeOK
    <2> HIDE DEF o, tm, GraceAborted
    <2> QED BY <1>0, <2>1, <2>2, <2>4, <2>5, PumpLinger
<1>5. ASSUME NEW j \in Jobs, GraceEnds(j) PROVE LingerInv'
    <2> DEFINE tm == [timer EXCEPT ![j] = "off"]
    <2>1. PICK r \in Finished(j, "failed", "timeout") :
              Pump(r.st, r.er, active \ {j}, tm, working)
        BY <1>5 DEF GraceEnds
    <2>2. aborted' = aborted /\ j \in aborted /\ phase' # "off"
        BY <1>0, <1>5 DEF GraceEnds, SlotInv, SlotsAgree
    <2>3. j \in active \cap Handled /\ state[j] = "running"
        BY <1>0, <1>5 DEF GraceEnds, SlotInv, SlotsAgree
    <2>4. GivenUp(r.st, active \ {j}, working, aborted')
        BY <1>0, <2>2, <2>3, FinishedElsewhere DEF GivenUp
    <2>5. GraceAborted(tm, aborted')
        BY <1>0, <2>2 DEF TypeOK
    <2>6. PumpOrThrow(r.st, r.er, active \ {j}, tm, working)
        BY <2>1 DEF PumpOrThrow
    <2> HIDE DEF tm, GraceAborted
    <2> QED BY <1>0, <2>2, <2>4, <2>5, <2>6, PumpLinger
<1>6. ASSUME NEW j \in Jobs, GraceEndsFatally(j) PROVE LingerInv'
    BY <1>6, GoneLinger DEF GraceEndsFatally
<1>7. CASE Boot \/ BootThrows
    <2>1. PICK C \in SUBSET Jobs : /\ Claim(C, SweptState, SweptError, {}, timer, {})
                                   /\ C = {} \/ phase' = "on"
        BY <1>7 DEF Boot, BootThrows
    <2>2. GivenUp(SweptState, {}, {}, aborted') /\ GraceAborted(timer, aborted')
        BY <1>7 DEF GivenUp, Boot, BootThrows
    <2>3. {} \in SUBSET Jobs
        OBVIOUS
    <2>4. CASE C = {}
        BY <2>1, <2>2, <2>4 DEF Claim, ClaimRows, TypeOK
    <2>5. CASE phase' = "on"
        <3> HIDE DEF GraceAborted, LingerInv
        <3> QED BY <2>1, <2>2, <2>3, <2>5, ClaimLinger
    <2> QED BY <2>1, <2>4, <2>5
<1>9. CASE SweepOrphans
    <2>1. PICK stale \in SUBSET Orphans :
              PumpOrThrow(Reaped(stale, state), Reaped(stale, error), active, timer, working)
        BY <1>9 DEF SweepOrphans
    <2>2. GivenUp(Reaped(stale, state), active, working, aborted) /\ aborted' = aborted /\ phase' # "off"
        BY <1>0, <1>9 DEF GivenUp, Reaped, SweepOrphans
    <2> QED BY <1>0, <2>1, <2>2, PumpLinger
<1>10. CASE Stop
    BY <1>10 DEF Stop, rows
<1>11. CASE Exit \/ Crash
    BY <1>11, GoneLinger DEF Exit, Crash
<1>12. CASE UNCHANGED vars
    BY <1>12 DEF vars, rows, process
<1> QED BY <1>1, <1>2, <1>3, <1>4, <1>5, <1>6, <1>7, <1>9, <1>10, <1>11, <1>12
        DEF Next, JobStep, ProcessStep

(* A handler that outlives its settled job was given up on by the          *)
(* deadline: its signal has fired, and its job is recorded as failed,      *)
(* interrupted, or still running if that write threw.                      *)
THEOREM OnlyTimedOutLingerHolds == Spec => []OnlyTimedOutLinger
<1>1. Init => LingerInv
    BY DEF Init, LingerInv, OnlyTimedOutLinger, GraceAborted
<1>2. LingerInv => OnlyTimedOutLinger
    BY DEF LingerInv
<1> QED BY <1>1, <1>2, LingerStep, InvHolds, PTL DEF Spec

-----------------------------------------------------------------------------
(* Why the queue comes to an end: what each wait is for, and how far.      *)

(* While a row is queued and the runner runs, some row runs: it holds the  *)
(* lane, a part of the share or a slot.                                    *)
LEMMA SomethingRuns ==
    ASSUME Handled = Jobs, Inv, WorkConserving, phase = "on",
           RowsIn(state, "queued") # {}
    PROVE  RowsIn(state, "running") # {}
<1>1. PICK j \in Jobs : state[j] = "queued" /\ ~Claimable(state, active, {}, j)
    BY DEF RowsIn, WorkConserving
<1>2. SUFFICES ASSUME RowsIn(state, "running") = {} PROVE FALSE
    OBVIOUS
<1>3. active = {}
    BY <1>2 DEF Inv, TypeOK, SlotInv, SlotsAgree, RowsIn
<1>4. /\ RowsIn(state, "running") \cup {} = {} /\ active \cup {} = {}
      /\ {r \in RowsIn(state, "running") \cup {} : UserOf[r] = UserOf[j]} = {}
    BY <1>2, <1>3
<1>5. Cardinality({}) < PerUserLimit /\ Cardinality({}) < MaxConcurrent
    BY FS_EmptySet, LimitAssumption
<1> QED BY <1>1, <1>4, <1>5 DEF Claimable

(* No lost wakeup leaves a queued job behind: something with a timer, or   *)
(* an orphan for the sweep, is always between it and its turn              *)
(* (job-runner.mjs: pump, execute; executor.mjs: sweepOrphans).            *)
THEOREM WaitsOnATimerHolds ==
    ASSUME Handled = Jobs, "claim" \notin DbErrors PROVE Spec => []WaitsOnATimer
<1>1. ASSUME Inv, WorkConserving PROVE WaitsOnATimer
    <2> SUFFICES ASSUME phase = "on", RowsIn(state, "queued") # {}, Orphans = {}
                 PROVE  \E j \in active : timer[j] # "off"
        BY DEF WaitsOnATimer
    <2>1. PICK j \in RowsIn(state, "running") : j \in active
        BY <1>1, SomethingRuns DEF Orphans
    <2>2. timer[j] # "off"
        BY <1>1, <2>1 DEF Inv, SlotInv, SlotsAgree, RowsIn
    <2> QED BY <2>1, <2>2
<1> QED BY <1>1, InvHolds, WorkConservingHolds, PTL

(* A row only moves on, at most 2 x MaxAttempts + 2 times, through crashes,*)
(* sweeps, cancels and failed writes (job-queue.mjs: MAX_ATTEMPTS).        *)
THEOREM RowsMoveOnHolds == Spec => RowsMoveOn
<1> DEFINE Limit == 2 * MaxAttempts + 2
           Onward(j) == /\ Rank(j)' \in 0..Limit
                        /\ state'[j] # state[j] \/ attempts'[j] # attempts[j]
                               => Rank(j)' > Rank(j)
<1>1. ASSUME Inv, AttemptInv, Inv', AttemptInv', Next, NEW j \in Jobs PROVE Onward(j)
    <2>1. PICK C \in SUBSET Jobs : \E st, er, held, tm, wk : StepTo(C, st, er, held, tm, wk)
        BY <1>1, EveryStepHasShape DEF Inv, StepShape
    <2>2. PICK st, er, held, tm, wk : StepTo(C, st, er, held, tm, wk)
        BY <2>1
    <2>3. /\ RowMove(j, st[j], er[j])
          /\ \/ j \notin C /\ state'[j] = st[j] /\ attempts'[j] = attempts[j]
             \/ /\ j \in C /\ st[j] = "queued" /\ state'[j] \in {"running", "failed"}
                /\ attempts'[j] = attempts[j] + 1
        BY <1>1, <2>2, RowStep
    <2>4. /\ attempts[j] \in Nat /\ attempts'[j] \in Nat /\ MaxAttempts \in Nat
          /\ state[j] \in States /\ state'[j] \in States
        BY <1>1, LimitAssumption DEF Inv, TypeOK
    <2>5. /\ attempts[j] <= MaxAttempts /\ attempts'[j] <= MaxAttempts
          /\ state[j] = "absent" => attempts[j] = 0
          /\ state'[j] = "queued" => attempts'[j] < MaxAttempts
        BY <1>1, <2>4, LimitAssumption DEF AttemptInv, Bound
    <2>6. Rank(j)' \in 0..Limit
        BY <2>4, <2>5 DEF Rank
    <2>7. state'[j] # state[j] \/ attempts'[j] # attempts[j] => Rank(j)' > Rank(j)
        BY <2>3, <2>4, <2>5 DEF RowMove, Rank, States, Terminal
    <2> QED BY <2>6, <2>7
<1>2. Inv /\ AttemptInv /\ Inv' /\ AttemptInv' /\ [Next]_vars
        => [\A j \in Jobs : Onward(j)]_vars
    BY <1>1
<1> QED BY <1>2, InvHolds, AttemptInvHolds, PTL DEF Spec, RowsMoveOn

(* What CommandBus takes the queue for: with one user and a share within   *)
(* the slots, the slots never decide who waits (executor.mjs: the runner's *)
(* limits; job-queue.mjs: claimNextJobSystem).                             *)
THEOREM QueueAsTheBusSees ==
    ASSUME Handled = Jobs, "claim" \notin DbErrors, PerUserLimit <= MaxConcurrent,
           NEW u \in Users, Users = {u}
    PROVE  Spec => [](ShareOrLane /\ LaneLock)
<1>1. ASSUME Inv, WorkConserving, FairShare PROVE ShareOrLane
    <2> DEFINE running == RowsIn(state, "running")
    <2> SUFFICES ASSUME phase = "on"
                 PROVE  /\ Cardinality(running) <= PerUserLimit
                        /\ \A j \in RowsIn(state, "queued") :
                              \/ Cardinality(running) = PerUserLimit
                              \/ \E k \in running : Lane(k) = Lane(j)
        BY DEF ShareOrLane
    <2>1. \A S \in SUBSET Jobs : {j \in S : UserOf[j] = u} = S
        BY RowAssumption
    <2>2. Cardinality(running) <= PerUserLimit
        BY <1>1, <2>1 DEF FairShare, RowsIn
    <2>3. /\ IsFiniteSet(running) /\ running \subseteq Jobs /\ active \subseteq running
          /\ Cardinality(running) \in Nat
        BY <1>1, JobsAssumption, FS_Subset, FS_CardinalityType
           DEF Inv, TypeOK, SlotInv, SlotsAgree, RowsIn
    <2>4. Cardinality(active) <= Cardinality(running) /\ Cardinality(active) \in Nat
        BY <2>3, FS_Subset, FS_CardinalityType
    <2>5. ASSUME NEW j \in RowsIn(state, "queued"), \A k \in running : Lane(k) # Lane(j)
          PROVE  Cardinality(running) = PerUserLimit
        <3>1. /\ running \cup {} = running /\ active \cup {} = active
              /\ {r \in running : UserOf[r] = UserOf[j]} = running
            BY <2>1, <2>3, RowAssumption DEF RowsIn
        <3>2. \/ ~(Cardinality(running) < PerUserLimit)
              \/ ~(Cardinality(active) < MaxConcurrent)
            BY <1>1, <2>5, <3>1 DEF WorkConserving, Claimable
        <3> QED BY <2>2, <2>3, <2>4, <3>2, LimitAssumption
    <2> QED BY <2>2, <2>5
<1> QED BY <1>1, InvHolds, WorkConservingHolds, FairShareHolds, LaneLockHolds, PTL
=============================================================================
