---------------------------- MODULE CliGateProofs ----------------------------
(***************************************************************************)
(* Theorems about CliGate, for any calls, keys and limits.                 *)
(***************************************************************************)
EXTENDS CliGate, FiniteSetTheorems, TLAPS

(* The waiting calls are those in the queue, each once.                    *)
Queued ==
    /\ \A i \in 1..Len(queue) : pc[queue[i]] = "queued"
    /\ \A i, j \in 1..Len(queue) : queue[i] = queue[j] => i = j

Slots == TypeOK /\ Queued /\ SlotsExact

(* A child spawned ahead belongs to a call that is over, one that no timer *)
(* or await will spawn for again; as long as it is idle no flush came      *)
(* since that call began.  A child in a call's hand is not idle any more.  *)
Ahead ==
    /\ \A k \in Calls : kid[k] = "idle" => gen[k] = flushGen
    /\ \A k \in Calls : kid[k] # "none" => pc[k] = "done" /\ k \notin probes /\ timer # k
    /\ timer \notin probes
    /\ \A c \in Calls : c \in probes \/ timer = c => pc[c] = "done"
    /\ \A c \in Calls : pc[c] = "new" => hand[c] = None
    /\ \A c \in Calls : pc[c] = "warm" => hand[c] # None
    /\ \A c \in Calls : hand[c] # None => kid[hand[c]] \notin {"none", "idle"}

Inv == Slots /\ Ahead /\ WarmFits

(* What the semaphore's operations do to the steps of the calls: c is      *)
(* granted a slot, is queued or goes on to s, and at most the head of the  *)
(* queue is granted the slot that c gave back.                             *)
Moved(c, s) ==
    /\ pc' \in [Calls -> Steps]
    /\ pc'[c] = s
    /\ \A d \in Calls \ {c} : pc'[d] = pc[d] \/ (pc[d] = "queued" /\ pc'[d] = "granted")

-----------------------------------------------------------------------------
(* The semaphore.                                                          *)

LEMMA HoldersFinite ==
    ASSUME NEW S, S \subseteq Calls
    PROVE  IsFiniteSet(S) /\ Cardinality(S) \in Nat
BY GateAssumption, FS_Subset, FS_CardinalityType

LEMMA AcquireKeeps ==
    ASSUME Slots, NEW c \in Calls, pc[c] \in {"new", "retry"}, Acquire(c)
    PROVE  /\ active' \in Nat /\ queue' \in Seq(Calls) /\ Queued' /\ SlotsExact'
           /\ Moved(c, "granted") \/ Moved(c, "queued")
<1>1. active \in Nat /\ queue \in Seq(Calls) /\ pc \in [Calls -> Steps] /\ MaxCli \in Nat
    BY GateAssumption DEF Slots, TypeOK
<1>2. IsFiniteSet(Holders) /\ c \notin Holders
    BY HoldersFinite DEF Holders, Holding
<1>3. CASE active < MaxCli /\ active' = active + 1
           /\ pc' = [pc EXCEPT ![c] = "granted"] /\ UNCHANGED queue
    <2>1. Holders' = Holders \cup {c}
        BY <1>1, <1>3 DEF Holders, Holding
    <2>2. Cardinality(Holders') = Cardinality(Holders) + 1
        BY <1>2, <2>1, FS_AddElement
    <2>3. SlotsExact'
        BY <1>1, <1>3, <2>2 DEF Slots, SlotsExact
    <2>4. Queued'
        BY <1>1, <1>3 DEF Slots, Queued
    <2>5. Moved(c, "granted")
        BY <1>1, <1>3 DEF Moved, Steps
    <2> QED BY <1>1, <1>3, <2>3, <2>4, <2>5
<1>4. CASE active >= MaxCli /\ queue' = Append(queue, c)
           /\ pc' = [pc EXCEPT ![c] = "queued"] /\ UNCHANGED active
    <2>1. Holders' = Holders
        BY <1>1, <1>2, <1>4 DEF Holders, Holding
    <2>2. active = MaxCli
        BY <1>1, <1>4 DEF Slots, SlotsExact
    <2>3. SlotsExact'
        BY <1>4, <2>1, <2>2 DEF Slots, SlotsExact
    <2>4. \A i \in 1..Len(queue) : queue[i] # c /\ queue[i] \in Calls
        BY <1>1 DEF Slots, Queued
    <2>5. /\ Len(queue') = Len(queue) + 1 /\ queue'[Len(queue) + 1] = c
          /\ \A i \in 1..Len(queue) : queue'[i] = queue[i]
          /\ Len(queue) \in Nat
        BY <1>1, <1>4
    <2>6. Queued'
        BY <1>1, <1>4, <2>4, <2>5 DEF Slots, Queued
    <2>7. Moved(c, "queued")
        BY <1>1, <1>4 DEF Moved, Steps
    <2> QED BY <1>1, <1>4, <2>3, <2>6, <2>7
<1> QED BY <1>3, <1>4 DEF Acquire

LEMMA ReleaseKeeps ==
    ASSUME Slots, NEW c \in Calls, pc[c] \in Holding,
           NEW s \in {"done", "retry"}, Release(c, s)
    PROVE  /\ active' \in Nat /\ queue' \in Seq(Calls) /\ Queued' /\ SlotsExact'
           /\ Moved(c, s)
<1>1. active \in Nat /\ queue \in Seq(Calls) /\ pc \in [Calls -> Steps] /\ MaxCli \in Nat
    BY GateAssumption DEF Slots, TypeOK
<1>2. IsFiniteSet(Holders) /\ c \in Holders
    BY HoldersFinite DEF Holders
<1>3. Cardinality(Holders \ {c}) = Cardinality(Holders) - 1 /\ active \in Nat \ {0}
    <2>1. Cardinality(Holders) \in Nat /\ Cardinality(Holders) # 0
        BY <1>2, FS_CardinalityType, FS_EmptySet
    <2> QED BY <1>2, <2>1, FS_RemoveElement DEF Slots, SlotsExact
<1>4. CASE /\ queue # <<>> /\ queue' = Tail(queue)
           /\ pc' = [pc EXCEPT ![c] = s, ![Head(queue)] = "granted"]
           /\ UNCHANGED active
    <2> DEFINE h == Head(queue)
    <2>1. h = queue[1] /\ h \in Calls /\ pc[h] = "queued" /\ Len(queue) \in Nat \ {0}
        BY <1>1, <1>4 DEF Slots, Queued
    <2>2. h # c /\ h \notin Holders
        BY <2>1 DEF Holders, Holding
    <2>3. Holders' = (Holders \ {c}) \cup {h}
        BY <1>1, <1>4, <2>1, <2>2 DEF Holders, Holding
    <2>4. Cardinality(Holders') = Cardinality(Holders)
        <3>1. IsFiniteSet(Holders \ {c}) /\ h \notin Holders \ {c}
            BY <2>2, HoldersFinite DEF Holders
        <3>2. Cardinality(Holders') = Cardinality(Holders \ {c}) + 1
            BY <2>3, <3>1, FS_AddElement
        <3> QED BY <1>2, <1>3, <3>2, FS_CardinalityType
    <2>5. SlotsExact'
        BY <1>4, <2>4 DEF Slots, SlotsExact
    <2>6. /\ queue' \in Seq(Calls) /\ Len(queue') = Len(queue) - 1
          /\ \A i \in 1..Len(queue') : queue'[i] = queue[i + 1]
        BY <1>1, <1>4, <2>1
    <2>7. \A i \in 1..Len(queue') : queue'[i] # h /\ queue'[i] # c
        BY <1>1, <2>1, <2>6 DEF Slots, Queued, Holding
    <2>8. Queued'
        BY <1>1, <1>4, <2>1, <2>6, <2>7 DEF Slots, Queued
    <2>9. Moved(c, s)
        BY <1>1, <1>4, <2>1, <2>2 DEF Moved, Steps
    <2> QED BY <1>1, <1>4, <2>5, <2>6, <2>8, <2>9
<1>5. CASE /\ queue = <<>> /\ active' = IF active > 0 THEN active - 1 ELSE 0
           /\ pc' = [pc EXCEPT ![c] = s] /\ UNCHANGED queue
    <2>1. Holders' = Holders \ {c}
        BY <1>1, <1>5 DEF Holders, Holding
    <2>2. SlotsExact'
        BY <1>1, <1>3, <1>5, <2>1 DEF Slots, SlotsExact
    <2>3. Queued'
        BY <1>1, <1>5 DEF Slots, Queued
    <2>4. Moved(c, s)
        BY <1>1, <1>5 DEF Moved, Steps
    <2> QED BY <1>1, <1>3, <1>5, <2>2, <2>3, <2>4
<1> QED BY <1>4, <1>5 DEF Release
-----------------------------------------------------------------------------
(* The children go on, and none becomes idle.                              *)
Onward ==
    /\ kid' \in [Calls -> Kid] /\ left' \subseteq Calls /\ cold' \in [Calls -> Cold]
    /\ \A k \in Calls : \/ kid'[k] = kid[k]
                        \/ kid[k] # "none" /\ kid'[k] \notin {"none", "idle"}

LEMMA ToldOnward ==
    ASSUME TypeOK, NEW k \in Calls, kid[k] # "none", kid' = Told(k),
           left' \subseteq Calls, cold' \in [Calls -> Cold]
    PROVE  Onward
BY DEF TypeOK, Told, Onward, Kid

LEMMA SettleKeeps ==
    ASSUME Inv, NEW c \in Calls, pc[c] \in Holding, Settle(c), Onward
    PROVE  Inv'
<1>1. /\ active' \in Nat /\ queue' \in Seq(Calls) /\ Queued' /\ SlotsExact'
      /\ Moved(c, "done")
    BY ReleaseKeeps DEF Inv, Settle
<1>2. TypeOK'
    BY <1>1 DEF Inv, Slots, TypeOK, Settle, Onward, Moved
<1>3. /\ pc[c] # "done" /\ kid[c] = "none" /\ c \notin probes /\ timer # c
      /\ timer' \in {c, timer}
    BY DEF Inv, Ahead, Holding, Settle
<1>4. Ahead'
    <2>1. None \notin Calls
        BY GateAssumption
    <2>2. \A k \in Calls : pc[k] = "done" => pc'[k] = "done"
        BY <1>1 DEF Moved
    <2>3. \A k \in Calls : pc'[k] \in {"new", "warm"} => pc'[k] = pc[k]
        BY <1>1 DEF Moved
    <2> QED BY <1>1, <1>3, <2>1, <2>2, <2>3
            DEF Inv, Slots, TypeOK, Ahead, Settle, Onward, Moved
<1>5. WarmFits'
    BY DEF Inv, WarmFits, Settle
<1> QED BY <1>1, <1>2, <1>4, <1>5 DEF Inv, Slots

LEMMA RunColdKeeps ==
    ASSUME Inv, NEW c \in Calls, pc[c] \in Holding, RunCold(c), Onward
    PROVE  Inv'
<1>1. /\ active' \in Nat /\ queue' \in Seq(Calls) /\ Queued' /\ SlotsExact'
      /\ Moved(c, "retry")
    BY ReleaseKeeps DEF Inv, RunCold
<1>2. TypeOK'
    BY <1>1 DEF Inv, Slots, TypeOK, RunCold, Onward, Moved
<1>3. pc[c] # "done" /\ kid[c] = "none"
    BY DEF Inv, Ahead, Holding
<1>4. \A d \in Calls : hand'[d] # None => d # c /\ hand'[d] = hand[d]
    BY DEF Inv, Slots, TypeOK, RunCold
<1>5. Ahead'
    <2>1. \A k \in Calls : pc[k] = "done" => pc'[k] = "done"
        BY <1>1, <1>3 DEF Moved
    <2>2. \A k \in Calls : pc'[k] \in {"new", "warm"} => k # c /\ pc'[k] = pc[k]
        BY <1>1 DEF Moved
    <2>3. \A d \in Calls : hand'[d] # None => hand'[d] \in Calls
        BY <1>2 DEF TypeOK
    <2> QED BY <1>1, <1>3, <1>4, <2>1, <2>2, <2>3
            DEF Inv, Slots, TypeOK, Ahead, RunCold, Onward
<1>6. WarmFits'
    BY <1>4 DEF Inv, WarmFits, RunCold
<1> QED BY <1>1, <1>2, <1>5, <1>6 DEF Inv, Slots

LEMMA StillKeeps ==
    ASSUME Inv, UNCHANGED <<sem, pc, hand, gen, flushGen, timer, probes>>, Onward
    PROVE  Inv'
<1>1. TypeOK'
    BY DEF Inv, Slots, TypeOK, Onward, sem
<1>2. Queued' /\ SlotsExact' /\ WarmFits'
    BY DEF Inv, Slots, Queued, SlotsExact, Holders, WarmFits, sem
<1>3. Ahead'
    BY DEF Inv, Slots, TypeOK, Ahead, Onward
<1> QED BY <1>1, <1>2, <1>3 DEF Inv, Slots

-----------------------------------------------------------------------------
(* The actions that neither settle a call nor send it back for a cold run.  *)

LEMMA CallKeeps ==
    ASSUME Inv, NEW c \in Calls, Call(c)
    PROVE  Inv'
<1>1. /\ active' \in Nat /\ queue' \in Seq(Calls) /\ Queued' /\ SlotsExact'
      /\ Moved(c, "granted") \/ Moved(c, "queued")
    BY AcquireKeeps DEF Inv, Call
<1>2. /\ \A d \in Calls \ {c} : gen'[d] = gen[d]
      /\ gen'[c] = flushGen /\ gen' \in [Calls -> Nat]
    BY DEF Inv, Slots, TypeOK, Call
<1>3. pc[c] = "new" /\ hand[c] = None /\ kid[c] = "none"
    BY DEF Inv, Ahead, Call
<1>4. \A k \in Calls : pc[k] = "done" => pc'[k] = "done"
    BY <1>1, <1>3 DEF Moved
<1>5. \A k \in Calls : pc'[k] \in {"new", "warm"} => k # c /\ pc'[k] = pc[k]
    BY <1>1 DEF Moved
<1>6. CASE UNCHANGED <<hand, kid>>
    <2>1. TypeOK'
        BY <1>1, <1>2, <1>6 DEF Inv, Slots, TypeOK, Call, Moved
    <2>2. Ahead'
        BY <1>2, <1>3, <1>4, <1>5, <1>6 DEF Inv, Slots, TypeOK, Ahead, Call
    <2>3. WarmFits'
        <3>1. \A d \in Calls : hand[d] # None => hand[d] \in Calls \ {c} /\ d # c
            BY <1>3 DEF Inv, Slots, TypeOK, Ahead
        <3> QED BY <3>1, <1>2, <1>6 DEF Inv, WarmFits
    <2> QED BY <1>1, <2>1, <2>2, <2>3 DEF Inv, Slots
<1>7. ASSUME NEW k \in Idle, KeyOf[k] = KeyOf[c],
             hand' = [hand EXCEPT ![c] = k], kid' = [kid EXCEPT ![k] = "held"]
      PROVE  Inv'
    <2>1. k \in Calls /\ kid[k] = "idle" /\ k # c /\ gen[k] = flushGen
        BY <1>3 DEF Idle, Inv, Ahead
    <2>2. TypeOK'
        BY <1>1, <1>2, <1>7, <2>1 DEF Inv, Slots, TypeOK, Call, Moved, Kid
    <2>3. /\ \A d \in Calls \ {c} : hand'[d] = hand[d]
          /\ hand'[c] = k
          /\ \A d \in Calls \ {k} : kid'[d] = kid[d]
          /\ kid'[k] = "held"
        BY <1>7, <2>1 DEF Inv, Slots, TypeOK
    <2>4. \A d \in Calls : hand[d] # None => hand[d] \in Calls \ {c, k} /\ d # c
        BY <1>3, <2>1 DEF Inv, Slots, TypeOK, Ahead
    <2>5. Ahead'
        <3>1. UNCHANGED <<flushGen, timer, probes>>
            BY DEF Call
        <3>2. \A d \in Calls : kid'[d] = "idle" => kid[d] = "idle" /\ d # c
            BY <1>3, <2>1, <2>3
        <3>3. \A d \in Calls : kid'[d] # "none" => kid[d] # "none"
            BY <2>1, <2>3
        <3>4. \A d \in Calls : hand'[d] # None => kid'[hand'[d]] \notin {"none", "idle"}
            BY <2>1, <2>3, <2>4 DEF Inv, Ahead
        <3>5. \A d \in Calls : pc'[d] = "new" => hand'[d] = None
            BY <1>5, <2>3 DEF Inv, Ahead
        <3>6. \A d \in Calls : pc'[d] = "warm" => hand'[d] # None
            BY <1>5, <2>3 DEF Inv, Ahead
        <3> QED BY <1>2, <1>4, <3>1, <3>2, <3>3, <3>4, <3>5, <3>6 DEF Inv, Ahead
    <2>6. WarmFits'
        BY <1>2, <1>7, <2>1, <2>3, <2>4 DEF Inv, WarmFits
    <2> QED BY <1>1, <2>2, <2>5, <2>6 DEF Inv, Slots
<1> QED BY <1>6, <1>7 DEF Call

LEMMA StartColdKeeps ==
    ASSUME Inv, NEW c \in Calls, StartCold(c)
    PROVE  Inv'
<1>1. TypeOK'
    BY DEF Inv, Slots, TypeOK, StartCold, sem, pool, Steps, Cold
<1>2. Holders' = Holders
    BY DEF Inv, Slots, TypeOK, StartCold, Holders, Holding
<1>3. Queued' /\ SlotsExact' /\ WarmFits'
    BY <1>2 DEF Inv, Slots, TypeOK, Queued, SlotsExact, WarmFits, StartCold, sem, pool
<1>4. Ahead'
    BY DEF Inv, Slots, TypeOK, Ahead, StartCold, pool
<1> QED BY <1>1, <1>3, <1>4 DEF Inv, Slots

LEMMA StartWarmKeeps ==
    ASSUME Inv, NEW c \in Calls, StartWarm(c)
    PROVE  Inv'
<1>1. CASE RunCold(c) /\ UNCHANGED <<kid, left, cold>>
    <2>1. Onward
        BY <1>1 DEF Inv, Slots, TypeOK, Onward
    <2> QED BY <1>1, <2>1, RunColdKeeps DEF StartWarm, Holding
<1>2. CASE /\ pc' = [pc EXCEPT ![c] = "warm"]
           /\ UNCHANGED <<sem, pool, left, cold>>
    <2>1. TypeOK'
        BY <1>2 DEF Inv, Slots, TypeOK, sem, pool, Steps
    <2>2. Holders' = Holders
        BY <1>2 DEF Inv, Slots, TypeOK, StartWarm, Holders, Holding
    <2>3. Queued' /\ SlotsExact' /\ WarmFits'
        BY <1>2, <2>2
           DEF Inv, Slots, TypeOK, Queued, SlotsExact, WarmFits, StartWarm, sem, pool
    <2>4. Ahead'
        BY <1>2 DEF Inv, Slots, TypeOK, Ahead, StartWarm, pool
    <2> QED BY <2>1, <2>3, <2>4 DEF Inv, Slots
<1> QED BY <1>1, <1>2 DEF StartWarm

LEMMA RetryKeeps ==
    ASSUME Inv, NEW c \in Calls, Retry(c)
    PROVE  Inv'
<1>1. /\ active' \in Nat /\ queue' \in Seq(Calls) /\ Queued' /\ SlotsExact'
      /\ Moved(c, "granted") \/ Moved(c, "queued")
    BY AcquireKeeps DEF Inv, Retry
<1>2. TypeOK'
    BY <1>1 DEF Inv, Slots, TypeOK, Retry, pool, Moved
<1>3. /\ \A k \in Calls : pc[k] = "done" => pc'[k] = "done"
      /\ \A k \in Calls : pc'[k] \in {"new", "warm"} => pc'[k] = pc[k]
    BY <1>1 DEF Moved, Retry
<1>4. Ahead' /\ WarmFits'
    BY <1>3 DEF Inv, Ahead, WarmFits, Retry, pool
<1> QED BY <1>1, <1>2, <1>4 DEF Inv, Slots

LEMMA FlushKeeps ==
    ASSUME Inv, Flush
    PROVE  Inv'
<1>1. \A k \in Calls : \/ kid[k] = "idle" /\ kid'[k] = "told"
                       \/ kid[k] # "idle" /\ kid'[k] = kid[k]
    BY DEF Flush, Idle
<1>2. TypeOK'
    BY DEF Inv, Slots, TypeOK, Flush, sem, Kid
<1>3. Queued' /\ SlotsExact' /\ WarmFits'
    BY DEF Inv, Slots, Queued, SlotsExact, Holders, WarmFits, Flush, sem
<1>4. Ahead'
    BY <1>1, GateAssumption DEF Inv, Slots, TypeOK, Ahead, Flush
<1> QED BY <1>2, <1>3, <1>4 DEF Inv, Slots

LEMMA RespawnTimerKeeps ==
    ASSUME Inv, RespawnTimer
    PROVE  Inv'
<1>1. TypeOK' /\ Queued' /\ SlotsExact' /\ WarmFits'
    BY DEF Inv, Slots, TypeOK, Queued, SlotsExact, Holders, WarmFits, RespawnTimer, sem
<1>2. Ahead'
    BY GateAssumption DEF Inv, Slots, TypeOK, Ahead, RespawnTimer
<1> QED BY <1>1, <1>2 DEF Inv, Slots

LEMMA RespawnKeeps ==
    ASSUME Inv, NEW c \in Calls, Respawn(c)
    PROVE  Inv'
<1>1. c \in probes /\ probes' = probes \ {c} /\ kid[c] = "none" /\ pc[c] = "done" /\ timer # c
    BY DEF Inv, Ahead, Respawn
<1>2. /\ kid' \in [Calls -> Kid]
      /\ \A k \in Calls : \/ kid'[k] = kid[k]
                          \/ kid[k] = "idle" /\ kid'[k] = "told"
                          \/ k = c /\ kid'[k] = "idle" /\ gen[c] = flushGen
    <2>1. CASE MayPrewarm(c) /\ kid' = [kid EXCEPT ![c] = "idle"]
        BY <2>1 DEF Inv, Slots, TypeOK, MayPrewarm, Kid
    <2>2. CASE MayPrewarm(c) /\ \E k \in Idle : kid' = [Told(k) EXCEPT ![c] = "idle"]
        BY <1>1, <2>2 DEF Inv, Slots, TypeOK, MayPrewarm, Kid, Told, Idle
    <2>3. CASE MayPrewarm(c) /\ \E k \in Idle : kid' = Told(k)
        BY <2>3 DEF Inv, Slots, TypeOK, Kid, Told, Idle
    <2>4. CASE UNCHANGED kid
        BY <2>4 DEF Inv, Slots, TypeOK
    <2> QED BY <2>1, <2>2, <2>3, <2>4 DEF Respawn
<1>3. TypeOK' /\ Queued' /\ SlotsExact' /\ WarmFits'
    BY <1>2 DEF Inv, Slots, TypeOK, Queued, SlotsExact, Holders, WarmFits, Respawn, sem
<1>4. Ahead'
    <2>1. \A d \in Calls : hand[d] # None => hand[d] \in Calls \ {c}
        BY <1>1 DEF Inv, Slots, TypeOK, Ahead
    <2> QED BY <1>1, <1>2, <2>1 DEF Inv, Ahead, Respawn
<1> QED BY <1>3, <1>4 DEF Inv, Slots

-----------------------------------------------------------------------------
(* The actions that may settle a call.                                     *)

LEMMA WarmHand ==
    ASSUME Inv, NEW c \in Calls, hand[c] # None
    PROVE  /\ hand[c] \in Calls /\ kid[hand[c]] # "none"
           /\ kid[hand[c]] # "idle" /\ TypeOK
BY DEF Inv, Slots, TypeOK, Ahead

LEMMA StartLeftKeeps ==
    ASSUME Inv, NEW c \in Calls, StartLeft(c)
    PROVE  Inv'
<1>1. Onward
    <2>1. left' \subseteq Calls /\ cold' \in [Calls -> Cold] /\ TypeOK
        BY DEF Inv, Slots, TypeOK, StartLeft
    <2>2. CASE hand[c] = None
        BY <2>1, <2>2 DEF StartLeft, TypeOK, Onward
    <2>3. CASE hand[c] # None
        BY <2>1, <2>3, WarmHand, ToldOnward DEF StartLeft
    <2> QED BY <2>2, <2>3
<1> QED BY <1>1, SettleKeeps DEF StartLeft, Holding

LEMMA AbortKeeps ==
    ASSUME Inv, NEW c \in Calls, Abort(c)
    PROVE  Inv'
<1>1. left' \subseteq Calls /\ TypeOK
    BY DEF Inv, Slots, TypeOK, Abort
<1>2. CASE pc[c] = "cold" /\ cold' = [cold EXCEPT ![c] = "told"]
           /\ Settle(c) /\ UNCHANGED kid
    <2>1. Onward
        BY <1>1, <1>2 DEF TypeOK, Onward, Cold
    <2> QED BY <1>2, <2>1, SettleKeeps DEF Holding
<1>3. CASE pc[c] = "warm" /\ kid' = Told(hand[c]) /\ Settle(c) /\ UNCHANGED cold
    <2>1. hand[c] # None /\ cold' \in [Calls -> Cold]
        BY <1>1, <1>3 DEF Inv, Ahead, TypeOK
    <2>2. Onward
        BY <1>1, <1>3, <2>1, WarmHand, ToldOnward
    <2> QED BY <1>3, <2>2, SettleKeeps DEF Holding
<1>4. CASE UNCHANGED <<sem, pc, cold, pool>>
    <2>1. Onward
        BY <1>1, <1>4 DEF TypeOK, Onward, pool
    <2> QED BY <1>4, <2>1, StillKeeps DEF pool
<1> QED BY <1>2, <1>3, <1>4 DEF Abort

LEMMA TimeOutKeeps ==
    ASSUME Inv, NEW c \in Calls, TimeOut(c)
    PROVE  Inv'
<1>1. left' \subseteq Calls /\ TypeOK
    BY DEF Inv, Slots, TypeOK, TimeOut
<1>2. CASE cold' = [cold EXCEPT ![c] = "told"] /\ UNCHANGED <<sem, pc, pool>>
    <2>1. Onward
        BY <1>1, <1>2 DEF TypeOK, Onward, Cold, pool
    <2> QED BY <1>2, <2>1, StillKeeps DEF pool
<1>3. CASE pc[c] = "warm" /\ kid' = Told(hand[c]) /\ Settle(c) /\ UNCHANGED cold
    <2>1. hand[c] # None /\ cold' \in [Calls -> Cold]
        BY <1>1, <1>3 DEF Inv, Ahead, TypeOK
    <2>2. Onward
        BY <1>1, <1>3, <2>1, WarmHand, ToldOnward
    <2> QED BY <1>3, <2>2, SettleKeeps DEF Holding
<1> QED BY <1>2, <1>3 DEF TimeOut

LEMMA ColdGoneKeeps ==
    ASSUME Inv, NEW c \in Calls, ColdGone(c)
    PROVE  Inv'
<1>1. TypeOK /\ left' \subseteq Calls /\ cold' \in [Calls -> Cold]
    BY DEF Inv, Slots, TypeOK, ColdGone, Cold
<1>2. CASE pc[c] = "cold" /\ Settle(c) /\ UNCHANGED kid
    <2>1. Onward
        BY <1>1, <1>2 DEF TypeOK, Onward
    <2> QED BY <1>2, <2>1, SettleKeeps DEF Holding
<1>3. CASE UNCHANGED <<sem, pc, pool>>
    <2>1. Onward
        BY <1>1, <1>3 DEF TypeOK, Onward, pool
    <2> QED BY <1>3, <2>1, StillKeeps DEF pool
<1> QED BY <1>2, <1>3 DEF ColdGone

LEMMA AnswerKeeps ==
    ASSUME Inv, NEW c \in Calls, Answer(c) \/ AnswerBreaks(c)
    PROVE  Inv'
<1>1. /\ TypeOK /\ left' \subseteq Calls /\ cold' \in [Calls -> Cold]
      /\ pc[c] = "warm" /\ hand[c] # None
    BY DEF Inv, Slots, TypeOK, Ahead, Answer, AnswerBreaks
<1>2. hand[c] \in Calls /\ kid[hand[c]] # "none"
    BY <1>1, WarmHand
<1>3. CASE kid' = [kid EXCEPT ![hand[c]] = "spent"]
    BY <1>1, <1>2, <1>3, SettleKeeps, RunColdKeeps
       DEF Answer, AnswerBreaks, TypeOK, Onward, Kid, Holding
<1>4. CASE kid' = Told(hand[c])
    <2>1. Onward
        BY <1>1, <1>2, <1>4, ToldOnward
    <2> QED BY <1>1, <2>1, SettleKeeps, RunColdKeeps DEF Answer, AnswerBreaks, Holding
<1> QED BY <1>3, <1>4 DEF Answer, AnswerBreaks

LEMMA KidGoneKeeps ==
    ASSUME Inv, NEW k \in Calls, kid[k] # "none", KidGone(k)
    PROVE  Inv'
<1>1. Onward
    BY DEF Inv, Slots, TypeOK, KidGone, Onward, Kid
<1>2. ASSUME NEW c \in Calls, pc[c] = "warm", Settle(c) \/ RunCold(c) PROVE Inv'
    BY <1>1, <1>2, SettleKeeps, RunColdKeeps DEF Holding
<1>3. CASE UNCHANGED <<sem, pc, hand, gen, flushGen, timer, probes>>
    BY <1>1, <1>3, StillKeeps
<1> QED BY <1>2, <1>3 DEF KidGone

LEMMA KidToldKeeps ==
    ASSUME Inv, NEW k \in Calls, KidTimer(k) \/ Overflow(k)
    PROVE  Inv'
<1>1. /\ TypeOK /\ kid[k] # "none" /\ kid' = Told(k)
      /\ left' \subseteq Calls /\ cold' \in [Calls -> Cold]
    BY DEF Inv, Slots, TypeOK, KidTimer, Overflow
<1>2. Onward
    BY <1>1, ToldOnward
<1> QED BY <1>2, StillKeeps DEF KidTimer, Overflow

-----------------------------------------------------------------------------
(* The theorems.                                                           *)

LEMMA InitInv == Init => Inv
<1> SUFFICES ASSUME Init PROVE Inv
    OBVIOUS
<1>1. TypeOK /\ Queued /\ Ahead /\ WarmFits
    BY GateAssumption
       DEF Init, TypeOK, Queued, Ahead, WarmFits, Steps, Cold, Kid
<1>2. SlotsExact
    <2>1. Holders = {}
        BY DEF Init, Holders, Holding
    <2> QED BY <2>1, FS_EmptySet, GateAssumption DEF Init, SlotsExact
<1> QED BY <1>1, <1>2 DEF Inv, Slots

LEMMA NextInv == Inv /\ [Next]_vars => Inv'
<1> SUFFICES ASSUME Inv, [Next]_vars PROVE Inv'
    OBVIOUS
<1>1. ASSUME NEW c \in Calls, Call(c) \/ StartCold(c) \/ StartWarm(c) \/ Retry(c)
      PROVE  Inv'
    BY <1>1, CallKeeps, StartColdKeeps, StartWarmKeeps, RetryKeeps
<1>2. ASSUME NEW c \in Calls, StartLeft(c) \/ Abort(c) \/ TimeOut(c)
      PROVE  Inv'
    BY <1>2, StartLeftKeeps, AbortKeeps, TimeOutKeeps
<1>3. ASSUME NEW c \in Calls, ColdEnds(c) \/ ColdDies(c)
      PROVE  Inv'
    BY <1>3, ColdGoneKeeps DEF ColdEnds, ColdDies
<1>4. ASSUME NEW c \in Calls, Answer(c) \/ AnswerBreaks(c)
      PROVE  Inv'
    BY <1>4, AnswerKeeps
<1>5. ASSUME NEW c \in Calls, KidEnds(c) \/ KidDies(c)
      PROVE  Inv'
    BY <1>5, KidGoneKeeps DEF KidEnds, KidDies
<1>6. ASSUME NEW c \in Calls, KidTimer(c) \/ Overflow(c)
      PROVE  Inv'
    BY <1>6, KidToldKeeps
<1>7. ASSUME NEW c \in Calls, Respawn(c)
      PROVE  Inv'
    BY <1>7, RespawnKeeps
<1>8. CASE Flush
    BY <1>8, FlushKeeps
<1>9. CASE RespawnTimer
    BY <1>9, RespawnTimerKeeps
<1>10. CASE UNCHANGED vars
    <2>1. Onward
        BY <1>10 DEF Inv, Slots, TypeOK, Onward, vars, pool
    <2> QED BY <1>10, <2>1, StillKeeps DEF vars, pool
<1> QED BY <1>1, <1>2, <1>3, <1>4, <1>5, <1>6, <1>7, <1>8, <1>9, <1>10 DEF Next

(* The inductive invariant holds in every reachable state.                 *)
THEOREM InvHolds == Spec => []Inv
BY InitInv, NextInv, PTL DEF Spec

(* Every variable keeps its type.                                          *)
THEOREM TypeCorrect == Spec => []TypeOK
<1>1. Inv => TypeOK
    BY DEF Inv, Slots
<1> QED BY <1>1, InvHolds, PTL

(* Semaphore.active is the number of slots held, never more than the       *)
(* limit, and no slot is free while a call waits (core/semaphore.mjs).     *)
THEOREM SlotsCounted == Spec => []SlotsExact
<1>1. Inv => SlotsExact
    BY DEF Inv, Slots
<1> QED BY <1>1, InvHolds, PTL

(* A call is answered only by a child of its own key that no one else      *)
(* holds and that was asked for after the last flush (warm-cli-pool.mjs).  *)
THEOREM WarmChildFits == Spec => []WarmFits
<1>1. Inv => WarmFits
    BY DEF Inv
<1> QED BY <1>1, InvHolds, PTL

(* Where a step grants a slot: at a free one, or to the head of the queue. *)
LEMMA GrantsInOrder ==
    ASSUME Inv, [Next]_vars, NEW c \in Calls,
           pc[c] # "granted", pc'[c] = "granted", queue # <<>>
    PROVE  c = Head(queue)
<1>1. pc \in [Calls -> Steps] /\ active \in Nat /\ MaxCli \in Nat /\ active = MaxCli
    BY GateAssumption DEF Inv, Slots, TypeOK, SlotsExact
<1>2. ASSUME NEW d \in Calls, NEW s \in {"done", "retry"}, Release(d, s)
      PROVE  c = Head(queue)
    BY <1>1, <1>2 DEF Release
<1>3. ASSUME NEW d \in Calls, Acquire(d)
      PROVE  c = Head(queue)
    BY <1>1, <1>3 DEF Acquire
<1>4. ASSUME NEW d \in Calls, Settle(d) \/ RunCold(d)
      PROVE  c = Head(queue)
    BY <1>2, <1>4 DEF Settle, RunCold
<1>5. ASSUME NEW d \in Calls, Call(d) \/ Retry(d)
      PROVE  c = Head(queue)
    BY <1>3, <1>5 DEF Call, Retry
<1>6. ASSUME NEW d \in Calls,
             StartLeft(d) \/ Abort(d) \/ TimeOut(d) \/ ColdEnds(d) \/ ColdDies(d)
             \/ Answer(d) \/ AnswerBreaks(d) \/ KidEnds(d) \/ KidDies(d)
      PROVE  c = Head(queue)
    BY <1>4, <1>6
       DEF StartLeft, Abort, TimeOut, ColdEnds, ColdDies, ColdGone, Answer, AnswerBreaks,
           KidEnds, KidDies, KidGone
<1>7. ASSUME NEW d \in Calls, StartCold(d) \/ StartWarm(d)
      PROVE  c = Head(queue)
    BY <1>1, <1>4, <1>7 DEF StartCold, StartWarm
<1>8. ASSUME UNCHANGED pc PROVE c = Head(queue)
    BY <1>8
<1> QED BY <1>5, <1>6, <1>7, <1>8
        DEF Next, vars, KidTimer, Overflow, Respawn, Flush, RespawnTimer

(* While calls wait, only the first of them is granted a slot              *)
(* (core/semaphore.mjs: acquire, release).                                 *)
THEOREM NobodyOvertakes == Spec => NoOvertaking
<1>1. Inv /\ [Next]_vars =>
        [\A c \in Calls :
           (pc[c] # "granted" /\ pc'[c] = "granted" /\ queue # <<>>)
             => c = Head(queue)]_vars
    BY GrantsInOrder
<1> QED BY <1>1, InvHolds, PTL DEF Spec, NoOvertaking

-----------------------------------------------------------------------------
(* The semaphore as a slot queue.                                          *)

LEMMA SameCount == SQ!Cardinality(Holders) = Cardinality(Holders)
BY DEF SQ!Cardinality, Cardinality

LEMMA AcquireAsks ==
    ASSUME Inv, NEW c \in Calls, pc[c] \in {"new", "retry"}, Acquire(c)
    PROVE  SQ!Ask(c)
<1>1. /\ active \in Nat /\ MaxCli \in Nat /\ queue \in Seq(Calls) /\ pc \in [Calls -> Steps]
      /\ active = Cardinality(Holders) /\ active <= MaxCli
      /\ queue # <<>> => active = MaxCli
    BY GateAssumption DEF Inv, Slots, TypeOK, SlotsExact
<1>2. c \notin Holders /\ \A i \in 1..Len(queue) : queue[i] # c
    BY DEF Holders, Holding, Inv, Slots, Queued
<1>3. CASE active < MaxCli /\ pc' = [pc EXCEPT ![c] = "granted"] /\ UNCHANGED queue
    <2>1. Holders' = Holders \cup {c}
        BY <1>1, <1>3 DEF Holders, Holding
    <2> QED BY <1>1, <1>2, <1>3, <2>1, SameCount DEF SQ!Ask, SQ!Take
<1>4. CASE /\ active >= MaxCli /\ queue' = Append(queue, c)
           /\ pc' = [pc EXCEPT ![c] = "queued"]
    <2>1. Holders' = Holders
        BY <1>1, <1>2, <1>4 DEF Holders, Holding
    <2> QED BY <1>1, <1>2, <1>4, <2>1, SameCount DEF SQ!Ask, SQ!Queue
<1> QED BY <1>3, <1>4 DEF Acquire

LEMMA ReleaseReturns ==
    ASSUME Inv, NEW c \in Calls, pc[c] \in Holding,
           NEW s \in {"done", "retry"}, Release(c, s)
    PROVE  SQ!Return(c)
<1>1. queue \in Seq(Calls) /\ pc \in [Calls -> Steps] /\ c \in Holders
    BY DEF Inv, Slots, TypeOK, Holders
<1>2. CASE /\ queue # <<>> /\ queue' = Tail(queue)
           /\ pc' = [pc EXCEPT ![c] = s, ![Head(queue)] = "granted"]
    <2>1. Head(queue) \in Calls /\ pc[Head(queue)] = "queued"
        BY <1>1, <1>2 DEF Inv, Slots, Queued
    <2>2. Holders' = (Holders \ {c}) \cup {Head(queue)}
        BY <1>1, <1>2, <2>1 DEF Holders, Holding
    <2> QED BY <1>1, <1>2, <2>2 DEF SQ!Return
<1>3. CASE queue = <<>> /\ pc' = [pc EXCEPT ![c] = s] /\ UNCHANGED queue
    <2>1. Holders' = Holders \ {c}
        BY <1>1, <1>3 DEF Holders, Holding
    <2> QED BY <1>1, <1>3, <2>1 DEF SQ!Return
<1> QED BY <1>2, <1>3 DEF Release

LEMMA StartHolds ==
    ASSUME Inv, NEW c \in Calls, pc[c] = "granted",
           pc' = [pc EXCEPT ![c] = "cold"] \/ pc' = [pc EXCEPT ![c] = "warm"]
    PROVE  Holders' = Holders
BY DEF Inv, Slots, TypeOK, Holders, Holding

LEMMA GateStep ==
    ASSUME Inv, [Next]_vars
    PROVE  [SQ!Next]_<<Holders, queue>>
<1>1. ASSUME NEW c \in Calls, Call(c) \/ Retry(c)
      PROVE  SQ!Ask(c)
    BY <1>1, AcquireAsks DEF Call, Retry
<1>2. ASSUME NEW c \in Calls, pc[c] \in Holding, Settle(c) \/ RunCold(c)
      PROVE  SQ!Return(c)
    BY <1>2, ReleaseReturns DEF Settle, RunCold
<1>3. ASSUME NEW c \in Calls, pc[c] \in Holding, Settle(c) \/ RunCold(c)
      PROVE  SQ!Next
    BY <1>2, <1>3 DEF SQ!Next
<1>4. ASSUME UNCHANGED <<pc, sem>>
      PROVE  UNCHANGED <<Holders, queue>>
    BY <1>4 DEF Holders, sem
<1>5. ASSUME NEW c \in Calls, StartCold(c) \/ StartWarm(c)
      PROVE  [SQ!Next]_<<Holders, queue>>
    BY <1>3, <1>5, StartHolds DEF StartCold, StartWarm, Holding, sem
<1>6. ASSUME NEW c \in Calls,
             StartLeft(c) \/ Abort(c) \/ TimeOut(c) \/ ColdEnds(c) \/ ColdDies(c)
             \/ Answer(c) \/ AnswerBreaks(c)
      PROVE  [SQ!Next]_<<Holders, queue>>
    BY <1>3, <1>4, <1>6
       DEF StartLeft, Abort, TimeOut, ColdEnds, ColdDies, ColdGone, Answer, AnswerBreaks,
           Holding
<1>7. ASSUME NEW k \in Calls, KidEnds(k) \/ KidDies(k)
      PROVE  [SQ!Next]_<<Holders, queue>>
    BY <1>3, <1>4, <1>7 DEF KidEnds, KidDies, KidGone, Holding
<1>8. ASSUME NEW k \in Calls, KidTimer(k) \/ Overflow(k) \/ Respawn(k)
      PROVE  [SQ!Next]_<<Holders, queue>>
    BY <1>4, <1>8 DEF KidTimer, Overflow, Respawn
<1>9. CASE Flush \/ RespawnTimer \/ UNCHANGED vars
    BY <1>4, <1>9 DEF Flush, RespawnTimer, vars
<1> QED BY <1>1, <1>5, <1>6, <1>7, <1>8, <1>9 DEF Next, SQ!Next

(* Through every abort, time-out, retry and late exit the gate is a slot    *)
(* queue: slots change hands in the order of asking (core/semaphore.mjs).   *)
THEOREM GateIsSlotQueue == Spec => KeepsSlotQueue
<1>1. Init => SQ!Init
    BY DEF Init, SQ!Init, Holders, Holding
<1>2. Inv /\ [Next]_vars => [SQ!Next]_<<Holders, queue>>
    BY GateStep
<1> QED BY <1>1, <1>2, InvHolds, PTL DEF Spec, KeepsSlotQueue, SQ!Spec

-----------------------------------------------------------------------------
(* How calls and children move on.                                         *)

(* A call that runs, or will run, cold holds no idle child; while it runs, *)
(* its own child does, and only then or after it there is one.             *)
Second ==
    /\ \A c \in Calls : pc[c] \in {"retry", "cold"} => hand[c] = None
    /\ \A c \in Calls : cold[c] # "none" => pc[c] \in {"cold", "done"}
    /\ \A c \in Calls : pc[c] = "cold" => cold[c] \in {"run", "told"}

Whole == Inv /\ Second /\ NoChildForgotten

(* Call c gives its slot back: the child it used is told, spent or gone.   *)
Leaves(c) ==
    /\ pc[c] \in Holding
    /\ \/ Moved(c, "done") /\ UNCHANGED hand /\ cold'[c] # "run"
       \/ /\ Moved(c, "retry") /\ UNCHANGED cold
          /\ hand[c] # None /\ hand' = [hand EXCEPT ![c] = None]
    /\ \A k \in Calls : kid'[k] = "held" => kid[k] = "held" /\ k # hand[c]
    /\ \A d \in Calls \ {c} : cold'[d] = cold[d]

(* Call c starts.                                                          *)
Starts(c) ==
    /\ pc[c] = "granted" /\ UNCHANGED <<hand, kid>>
    /\ \/ /\ pc' = [pc EXCEPT ![c] = "warm"] /\ hand[c] # None /\ UNCHANGED cold
       \/ /\ pc' = [pc EXCEPT ![c] = "cold"] /\ hand[c] = None
          /\ cold' = [cold EXCEPT ![c] = "run"]

(* Call c asks for a slot, new with an idle child or none, or again.       *)
Asks(c) ==
    /\ Moved(c, "granted") \/ Moved(c, "queued")
    /\ UNCHANGED cold
    /\ \/ pc[c] = "retry" /\ UNCHANGED <<hand, kid>>
       \/ /\ pc[c] = "new" /\ hand[c] = None /\ hand' \in [Calls -> Calls \cup {None}]
          /\ \A d \in Calls \ {c} : hand'[d] = hand[d]
          /\ \A k \in Calls : kid'[k] = "held" => kid[k] = "held" \/ hand'[c] = k

(* No call takes a step.                                                   *)
Stays ==
    /\ UNCHANGED <<pc, hand>>
    /\ \A k \in Calls : kid'[k] = "held" => kid[k] = "held"
    /\ \A c \in Calls : \/ cold'[c] = cold[c]
                        \/ cold[c] # "none" /\ cold'[c] = "told"
                        \/ cold[c] # "none" /\ pc[c] # "cold" /\ cold'[c] = "gone"

Older ==
    \A c \in Calls : /\ cold'[c] # cold[c] => Age(cold'[c]) > Age(cold[c])
                     /\ kid'[c] # kid[c] => Age(kid'[c]) > Age(kid[c])

(* The proofs look at one shape of step after the other.                   *)
Shape == (Stays \/ \E c \in Calls : Leaves(c) \/ Starts(c) \/ Asks(c)) /\ Older

Forward == \A c \in Calls : pc'[c] # pc[c] => Rank(c)' > Rank(c)

LEMMA LeavesKeeps ==
    ASSUME Whole, NEW c \in Calls, Leaves(c)
    PROVE  Second' /\ NoChildForgotten' /\ Forward
<1>1. /\ pc \in [Calls -> Steps] /\ hand \in [Calls -> Calls \cup {None}]
      /\ pc[c] = "warm" => hand[c] # None
      /\ pc[c] = "cold" => hand[c] = None
      /\ cold[c] # "none" => pc[c] \in {"cold", "done"}
    BY DEF Whole, Inv, Slots, TypeOK, Ahead, Second
<1>2. \A d \in Calls \ {c} : /\ pc'[d] = pc[d] \/ (pc[d] = "queued" /\ pc'[d] = "granted")
                             /\ hand'[d] = hand[d] /\ cold'[d] = cold[d]
    BY <1>1 DEF Leaves, Moved
<1>3. /\ pc[c] \in {"granted", "cold", "warm"}
      /\ \/ pc'[c] = "done" /\ hand'[c] = hand[c] /\ cold'[c] # "run"
         \/ pc'[c] = "retry" /\ hand'[c] = None /\ hand[c] # None /\ cold'[c] = "none"
    BY <1>1 DEF Leaves, Moved, Holding
<1>4. Second'
    BY <1>2, <1>3 DEF Whole, Second
<1>5. NoChildForgotten'
    <2>1. ASSUME NEW k \in Calls, kid'[k] = "held"
          PROVE  \E d \in Calls : hand'[d] = k /\ pc'[d] \in {"queued", "granted", "warm"}
        BY <1>2, <2>1 DEF Leaves, Whole, NoChildForgotten
    <2>2. \A d \in Calls : cold'[d] = "run" => pc'[d] = "cold"
        BY <1>2, <1>3 DEF Whole, NoChildForgotten
    <2> QED BY <2>1, <2>2 DEF NoChildForgotten
<1>6. \A d \in Calls \ {c} : pc'[d] # pc[d] => Rank(d)' > Rank(d)
    BY <1>2 DEF Rank
<1>7. Rank(c)' > Rank(c)
    BY <1>1, <1>3 DEF Rank
<1> QED BY <1>4, <1>5, <1>6, <1>7 DEF Forward

LEMMA StartsKeeps ==
    ASSUME Whole, NEW c \in Calls, Starts(c)
    PROVE  Second' /\ NoChildForgotten' /\ Forward
<1>1. pc \in [Calls -> Steps] /\ cold \in [Calls -> Cold]
    BY DEF Whole, Inv, Slots, TypeOK
<1>2. Second'
    BY <1>1 DEF Starts, Whole, Second
<1>3. NoChildForgotten'
    <2>1. ASSUME NEW k \in Calls, kid'[k] = "held"
          PROVE  \E d \in Calls : hand'[d] = k /\ pc'[d] \in {"queued", "granted", "warm"}
        <3>1. k # None
            BY GateAssumption
        <3> QED BY <1>1, <2>1, <3>1 DEF Starts, Whole, NoChildForgotten
    <2>2. \A d \in Calls : cold'[d] = "run" => pc'[d] = "cold"
        BY <1>1 DEF Starts, Whole, NoChildForgotten
    <2> QED BY <2>1, <2>2 DEF NoChildForgotten
<1>4. Forward
    BY <1>1 DEF Starts, Forward, Rank
<1> QED BY <1>2, <1>3, <1>4

LEMMA AsksKeeps ==
    ASSUME Whole, NEW c \in Calls, Asks(c)
    PROVE  Second' /\ NoChildForgotten' /\ Forward
<1>1. \A d \in Calls \ {c} : /\ pc'[d] = pc[d] \/ (pc[d] = "queued" /\ pc'[d] = "granted")
                             /\ hand'[d] = hand[d] /\ cold'[d] = cold[d]
    BY DEF Asks, Moved
<1>2. /\ pc[c] \in {"new", "retry"} /\ pc'[c] \in {"queued", "granted"}
      /\ cold'[c] = "none" /\ hand[c] = None
      /\ pc[c] = "retry" => hand'[c] = None
    BY DEF Asks, Moved, Whole, Second
<1>3. Second'
    BY <1>1, <1>2 DEF Whole, Second
<1>4. NoChildForgotten'
    <2>1. ASSUME NEW k \in Calls, kid'[k] = "held"
          PROVE  \E d \in Calls : hand'[d] = k /\ pc'[d] \in {"queued", "granted", "warm"}
        <3>1. CASE kid[k] = "held"
            <4>1. PICK d \in Calls : hand[d] = k /\ pc[d] \in {"queued", "granted", "warm"}
                BY <3>1 DEF Whole, NoChildForgotten
            <4> QED BY <1>1, <1>2, <4>1
        <3>2. CASE hand'[c] = k
            BY <1>2, <3>2
        <3> QED BY <2>1, <3>1, <3>2 DEF Asks
    <2>2. \A d \in Calls : cold'[d] = "run" => pc'[d] = "cold"
        BY <1>1, <1>2 DEF Whole, NoChildForgotten
    <2> QED BY <2>1, <2>2 DEF NoChildForgotten
<1>5. \A d \in Calls \ {c} : pc'[d] # pc[d] => Rank(d)' > Rank(d)
    BY <1>1 DEF Rank
<1>6. Rank(c)' > Rank(c)
    BY <1>2 DEF Rank
<1> QED BY <1>3, <1>4, <1>5, <1>6 DEF Forward

LEMMA StaysKeeps ==
    ASSUME Whole, Stays
    PROVE  Second' /\ NoChildForgotten' /\ Forward
BY DEF Whole, Stays, Second, NoChildForgotten, Forward

LEMMA ShapeKeeps ==
    ASSUME Whole, Shape
    PROVE  Second' /\ NoChildForgotten' /\ Forward /\ Older
BY LeavesKeeps, StartsKeeps, AsksKeeps, StaysKeeps DEF Shape

LEMMA ToldOlder ==
    ASSUME TypeOK, NEW k \in Calls, kid[k] # "none", kid' = Told(k)
    PROVE  /\ \A d \in Calls : kid'[d] # kid[d] => Age(kid'[d]) > Age(kid[d])
           /\ \A d \in Calls : kid'[d] = "held" => kid[d] = "held" /\ d # k
BY DEF TypeOK, Told, Kid, Age

(* A call that settles, or goes back for a cold run, leaves.               *)
LEMMA SettleShape ==
    ASSUME Whole, NEW c \in Calls, pc[c] \in Holding, Settle(c), Older, cold'[c] # "run",
           \A k \in Calls : kid'[k] = "held" => kid[k] = "held" /\ k # hand[c],
           \A d \in Calls \ {c} : cold'[d] = cold[d]
    PROVE  Shape
<1>1. Moved(c, "done") /\ UNCHANGED hand
    BY ReleaseKeeps DEF Whole, Inv, Settle
<1> QED BY <1>1 DEF Shape, Leaves

LEMMA RunColdShape ==
    ASSUME Whole, NEW c \in Calls, pc[c] \in Holding, RunCold(c), Older, UNCHANGED cold,
           hand[c] # None,
           \A k \in Calls : kid'[k] = "held" => kid[k] = "held" /\ k # hand[c]
    PROVE  Shape
<1>1. Moved(c, "retry")
    BY ReleaseKeeps DEF Whole, Inv, RunCold
<1> QED BY <1>1 DEF Shape, Leaves, RunCold

(* A call with a child in its hand stops it, and settles or runs cold.     *)
LEMMA StopShape ==
    ASSUME Whole, NEW c \in Calls, pc[c] \in Holding, hand[c] # None, UNCHANGED cold,
           pc[c] # "cold",
           kid' = Told(hand[c]) \/ kid' = [kid EXCEPT ![hand[c]] = "gone"],
           kid[hand[c]] # "gone" \/ kid' = Told(hand[c]),
           Settle(c) \/ RunCold(c)
    PROVE  Shape
<1>1. hand[c] \in Calls /\ kid[hand[c]] # "none" /\ TypeOK
    BY WarmHand DEF Whole
<1>2. /\ \A d \in Calls : kid'[d] # kid[d] => Age(kid'[d]) > Age(kid[d])
      /\ \A d \in Calls : kid'[d] = "held" => kid[d] = "held" /\ d # hand[c]
    <2>1. CASE kid' = Told(hand[c])
        BY <1>1, <2>1, ToldOlder
    <2>2. CASE kid' # Told(hand[c])
        BY <1>1, <2>2 DEF TypeOK, Kid, Age
    <2> QED BY <2>1, <2>2
<1>3. cold[c] # "run"
    BY DEF Whole, NoChildForgotten
<1>4. Older
    BY <1>2 DEF Older
<1> QED BY <1>2, <1>3, <1>4, SettleShape, RunColdShape

(* Only children change.                                                   *)
LEMMA StaysShape ==
    ASSUME Whole, UNCHANGED <<pc, hand, cold>>,
           \A d \in Calls : kid'[d] # kid[d] => Age(kid'[d]) > Age(kid[d]),
           \A d \in Calls : kid'[d] = "held" => kid[d] = "held"
    PROVE  Shape
BY DEF Shape, Stays, Older

LEMMA CallShape ==
    ASSUME Whole, NEW c \in Calls, Call(c)
    PROVE  Shape
<1>1. Moved(c, "granted") \/ Moved(c, "queued")
    BY AcquireKeeps DEF Whole, Inv, Call
<1>2. /\ pc[c] = "new" /\ hand[c] = None
      /\ kid \in [Calls -> Kid] /\ hand \in [Calls -> Calls \cup {None}]
    BY DEF Call, Whole, Inv, Slots, TypeOK, Ahead
<1>3. CASE UNCHANGED <<hand, kid>>
    BY <1>1, <1>2, <1>3 DEF Call, Shape, Asks, Older
<1>4. ASSUME NEW k \in Idle, hand' = [hand EXCEPT ![c] = k], kid' = [kid EXCEPT ![k] = "held"]
      PROVE  Shape
    <2>1. k \in Calls /\ kid[k] = "idle"
        BY DEF Idle
    <2>2. Asks(c)
        BY <1>1, <1>2, <1>4, <2>1 DEF Call, Asks
    <2>3. Older
        BY <1>2, <1>4, <2>1 DEF Call, Older, Age
    <2> QED BY <2>2, <2>3 DEF Shape
<1> QED BY <1>3, <1>4 DEF Call

LEMMA RetryShape ==
    ASSUME Whole, NEW c \in Calls, Retry(c)
    PROVE  Shape
<1>1. Moved(c, "granted") \/ Moved(c, "queued")
    BY AcquireKeeps DEF Whole, Inv, Retry
<1> QED BY <1>1 DEF Retry, Shape, Asks, Older, pool

LEMMA StartColdShape ==
    ASSUME Whole, NEW c \in Calls, StartCold(c)
    PROVE  Shape
<1>1. cold[c] = "none" /\ cold \in [Calls -> Cold]
    BY DEF StartCold, Whole, Second, Inv, Slots, TypeOK
<1>2. Starts(c)
    BY DEF StartCold, Starts, pool
<1>3. Older
    BY <1>1 DEF StartCold, Older, Age, pool
<1> QED BY <1>2, <1>3 DEF Shape

LEMMA StartWarmShape ==
    ASSUME Whole, NEW c \in Calls, StartWarm(c)
    PROVE  Shape
<1>1. CASE pc' = [pc EXCEPT ![c] = "warm"] /\ UNCHANGED <<sem, pool>>
    BY <1>1 DEF StartWarm, Shape, Starts, Older, pool
<1>2. CASE kid[hand[c]] = "gone" /\ RunCold(c) /\ UNCHANGED kid
    <2>1. \A k \in Calls : kid'[k] = "held" => kid[k] = "held" /\ k # hand[c]
        BY <1>2
    <2>2. Older /\ UNCHANGED cold /\ pc[c] \in Holding /\ hand[c] # None
        BY <1>2 DEF StartWarm, Older, Holding
    <2> QED BY <1>2, <2>1, <2>2, RunColdShape
<1> QED BY <1>1, <1>2 DEF StartWarm

LEMMA StartLeftShape ==
    ASSUME Whole, NEW c \in Calls, StartLeft(c)
    PROVE  Shape
<1>1. pc[c] \in Holding /\ pc[c] # "cold" /\ UNCHANGED cold /\ Settle(c)
    BY DEF StartLeft, Holding
<1>2. CASE hand[c] = None
    <2>1. cold[c] # "run" /\ None \notin Calls
        BY <1>1, GateAssumption DEF Whole, NoChildForgotten
    <2>2. Older /\ UNCHANGED kid
        BY <1>1, <1>2 DEF StartLeft, Older
    <2> QED BY <1>1, <1>2, <2>1, <2>2, SettleShape
<1>3. CASE hand[c] # None
    BY <1>1, <1>3, StopShape DEF StartLeft
<1> QED BY <1>2, <1>3

(* A cold call settles: its child is told or gone.                         *)
LEMMA ColdEndShape ==
    ASSUME Whole, NEW c \in Calls, pc[c] = "cold", Settle(c), UNCHANGED kid,
           NEW s \in {"told", "gone"}, cold' = [cold EXCEPT ![c] = s],
           cold[c] = "run" \/ (cold[c] = "told" /\ s = "gone") \/ cold[c] = s
    PROVE  Shape
<1>1. cold \in [Calls -> Cold] /\ hand[c] = None /\ None \notin Calls
    BY GateAssumption DEF Whole, Inv, Slots, TypeOK, Second
<1>2. Older
    BY <1>1 DEF Older, Age
<1> QED BY <1>1, <1>2, SettleShape DEF Holding

LEMMA AbortShape ==
    ASSUME Whole, NEW c \in Calls, Abort(c)
    PROVE  Shape
<1>1. CASE pc[c] = "cold" /\ cold' = [cold EXCEPT ![c] = "told"]
           /\ Settle(c) /\ UNCHANGED kid
    <2>1. cold[c] \in {"run", "told"}
        BY <1>1 DEF Whole, Second
    <2> QED BY <1>1, <2>1, ColdEndShape
<1>2. CASE pc[c] = "warm" /\ kid' = Told(hand[c]) /\ Settle(c) /\ UNCHANGED cold
    <2>1. hand[c] # None
        BY <1>2 DEF Whole, Inv, Ahead
    <2> QED BY <1>2, <2>1, StopShape DEF Holding
<1>3. CASE UNCHANGED <<sem, pc, cold, pool>>
    BY <1>3, StaysShape DEF pool
<1> QED BY <1>1, <1>2, <1>3 DEF Abort

LEMMA TimeOutShape ==
    ASSUME Whole, NEW c \in Calls, TimeOut(c)
    PROVE  Shape
<1>1. CASE /\ pc[c] = "cold" /\ cold[c] = "run" /\ cold' = [cold EXCEPT ![c] = "told"]
           /\ UNCHANGED <<sem, pc, pool>>
    <2>1. cold \in [Calls -> Cold]
        BY DEF Whole, Inv, Slots, TypeOK
    <2>2. Stays
        BY <1>1, <2>1 DEF Stays, pool
    <2>3. Older
        BY <1>1, <2>1 DEF Older, Age, pool
    <2> QED BY <2>2, <2>3 DEF Shape
<1>2. CASE pc[c] = "warm" /\ kid' = Told(hand[c]) /\ Settle(c) /\ UNCHANGED cold
    <2>1. hand[c] # None
        BY <1>2 DEF Whole, Inv, Ahead
    <2> QED BY <1>2, <2>1, StopShape DEF Holding
<1> QED BY <1>1, <1>2 DEF TimeOut

LEMMA ColdGoneShape ==
    ASSUME Whole, NEW c \in Calls, cold[c] \in {"run", "told"}, ColdGone(c)
    PROVE  Shape
<1>1. CASE pc[c] = "cold" /\ Settle(c) /\ UNCHANGED kid
    BY <1>1, ColdEndShape DEF ColdGone
<1>2. CASE pc[c] # "cold" /\ UNCHANGED <<sem, pc, pool>>
    <2>1. cold \in [Calls -> Cold]
        BY DEF Whole, Inv, Slots, TypeOK
    <2>2. Stays
        BY <1>2, <2>1 DEF ColdGone, Stays, pool
    <2>3. Older
        BY <1>2, <2>1 DEF ColdGone, Older, Age, pool
    <2> QED BY <2>2, <2>3 DEF Shape
<1> QED BY <1>1, <1>2 DEF ColdGone

LEMMA AnswerShape ==
    ASSUME Whole, NEW c \in Calls, Answer(c) \/ AnswerBreaks(c)
    PROVE  Shape
<1>1. /\ pc[c] \in Holding /\ pc[c] # "cold" /\ hand[c] # None /\ UNCHANGED cold
      /\ Settle(c) \/ RunCold(c)
    BY DEF Answer, AnswerBreaks, Holding, Whole, Inv, Ahead
<1>2. CASE kid[hand[c]] = "held" /\ kid' = [kid EXCEPT ![hand[c]] = "spent"]
    <2>1. hand[c] \in Calls /\ TypeOK
        BY <1>1, WarmHand DEF Whole
    <2>2. \A k \in Calls : kid'[k] = "held" => kid[k] = "held" /\ k # hand[c]
        BY <1>2, <2>1 DEF TypeOK
    <2>3. Older
        BY <1>1, <1>2, <2>1 DEF TypeOK, Older, Age
    <2>4. cold[c] # "run"
        BY <1>1 DEF Whole, NoChildForgotten
    <2> QED BY <1>1, <2>2, <2>3, <2>4, SettleShape, RunColdShape
<1>3. CASE kid' = Told(hand[c])
    BY <1>1, <1>3, StopShape
<1> QED BY <1>2, <1>3 DEF Answer, AnswerBreaks

LEMMA KidGoneShape ==
    ASSUME Whole, NEW k \in Calls, kid[k] \notin {"none", "gone"}, KidGone(k)
    PROVE  Shape
<1>1. UNCHANGED cold /\ kid' = [kid EXCEPT ![k] = "gone"] /\ kid \in [Calls -> Kid]
    BY DEF KidGone, Whole, Inv, Slots, TypeOK
<1>2. ASSUME NEW c \in Calls, pc[c] = "warm", hand[c] = k, Settle(c) \/ RunCold(c)
      PROVE  Shape
    <2>1. pc[c] \in Holding /\ hand[c] # None
        BY <1>2 DEF Holding, Whole, Inv, Ahead
    <2> QED BY <1>1, <1>2, <2>1, StopShape
<1>3. CASE UNCHANGED <<sem, pc, hand, gen, flushGen, timer, probes>>
    <2>1. /\ \A d \in Calls : kid'[d] # kid[d] => Age(kid'[d]) > Age(kid[d])
          /\ \A d \in Calls : kid'[d] = "held" => kid[d] = "held"
        BY <1>1 DEF Age, Kid
    <2> QED BY <1>1, <1>3, <2>1, StaysShape
<1> QED BY <1>2, <1>3 DEF KidGone

LEMMA KidToldShape ==
    ASSUME Whole, NEW k \in Calls, KidTimer(k) \/ Overflow(k)
    PROVE  Shape
<1>1. TypeOK /\ kid[k] # "none" /\ kid' = Told(k) /\ UNCHANGED <<pc, hand, cold>>
    BY DEF Whole, Inv, Slots, KidTimer, Overflow
<1> QED BY <1>1, ToldOlder, StaysShape

LEMMA PoolShape ==
    ASSUME Whole, Flush \/ RespawnTimer \/ UNCHANGED vars
    PROVE  Shape
<1>1. UNCHANGED <<pc, hand, cold>> /\ kid \in [Calls -> Kid]
    BY DEF Flush, RespawnTimer, vars, pool, Whole, Inv, Slots, TypeOK
<1>2. \A k \in Calls : kid'[k] = kid[k] \/ (kid[k] = "idle" /\ kid'[k] = "told")
    BY DEF Flush, RespawnTimer, vars, pool, Idle
<1>3. /\ \A d \in Calls : kid'[d] # kid[d] => Age(kid'[d]) > Age(kid[d])
      /\ \A d \in Calls : kid'[d] = "held" => kid[d] = "held"
    BY <1>2 DEF Age
<1> QED BY <1>1, <1>3, StaysShape

LEMMA RespawnShape ==
    ASSUME Whole, NEW c \in Calls, Respawn(c)
    PROVE  Shape
<1>1. UNCHANGED <<pc, hand, cold>> /\ kid[c] = "none" /\ kid \in [Calls -> Kid]
    BY DEF Respawn, Whole, Inv, Slots, TypeOK, Ahead
<1>2. \A k \in Calls : \/ kid'[k] = kid[k]
                       \/ kid[k] = "idle" /\ kid'[k] = "told"
                       \/ kid[k] = "none" /\ kid'[k] = "idle"
    <2>1. CASE kid' = [kid EXCEPT ![c] = "idle"]
        BY <1>1, <2>1
    <2>2. CASE \E k \in Idle : kid' = [Told(k) EXCEPT ![c] = "idle"]
        BY <1>1, <2>2 DEF Told, Idle
    <2>3. CASE \E k \in Idle : kid' = Told(k)
        BY <1>1, <2>3 DEF Told, Idle
    <2> QED BY <2>1, <2>2, <2>3 DEF Respawn
<1>3. /\ \A d \in Calls : kid'[d] # kid[d] => Age(kid'[d]) > Age(kid[d])
      /\ \A d \in Calls : kid'[d] = "held" => kid[d] = "held"
    BY <1>2 DEF Age
<1> QED BY <1>1, <1>3, StaysShape

LEMMA EveryStepHasShape ==
    ASSUME Whole, [Next]_vars
    PROVE  Shape
<1>1. ASSUME NEW c \in Calls, Call(c) \/ StartCold(c) \/ StartWarm(c) \/ Retry(c)
      PROVE  Shape
    BY <1>1, CallShape, StartColdShape, StartWarmShape, RetryShape
<1>2. ASSUME NEW c \in Calls, StartLeft(c) \/ Abort(c) \/ TimeOut(c)
      PROVE  Shape
    BY <1>2, StartLeftShape, AbortShape, TimeOutShape
<1>3. ASSUME NEW c \in Calls, ColdEnds(c) \/ ColdDies(c)
      PROVE  Shape
    BY <1>3, ColdGoneShape DEF ColdEnds, ColdDies
<1>4. ASSUME NEW c \in Calls, Answer(c) \/ AnswerBreaks(c)
      PROVE  Shape
    BY <1>4, AnswerShape
<1>5. ASSUME NEW c \in Calls, KidEnds(c) \/ KidDies(c)
      PROVE  Shape
    BY <1>5, KidGoneShape DEF KidEnds, KidDies
<1>6. ASSUME NEW c \in Calls, KidTimer(c) \/ Overflow(c) \/ Respawn(c)
      PROVE  Shape
    BY <1>6, KidToldShape, RespawnShape
<1> QED BY <1>1, <1>2, <1>3, <1>4, <1>5, <1>6, PoolShape DEF Next

LEMMA WholeHolds == Spec => []Whole
<1>1. Init => Whole
    BY InitInv DEF Init, Whole, Second, NoChildForgotten
<1>2. Whole /\ [Next]_vars => Whole'
    BY NextInv, EveryStepHasShape, ShapeKeeps DEF Whole
<1> QED BY <1>1, <1>2, PTL DEF Spec

(* Each step of a call takes it further: no failure, retry or hand-over    *)
(* sends it back, so it asks for a slot at most twice and ends once. What   *)
(* is left to fairness is only that the next step is taken                 *)
(* (warm-cli-pool.mjs: spawnWithWarm; providers.mjs: spawnCli).            *)
THEOREM CallsGoForward == Spec => CallsMoveOn
<1>1. Whole /\ [Next]_vars =>
        [\A c \in Calls : pc'[c] # pc[c] => Rank(c)' > Rank(c)]_vars
    BY EveryStepHasShape, ShapeKeeps DEF Forward
<1> QED BY <1>1, WholeHolds, PTL DEF Spec, CallsMoveOn

(* A child is spawned once, and never comes back to the pool or to a call  *)
(* after it was told to end (warm-cli-pool.mjs: kill, acquireWarm).        *)
THEOREM ChildrenEnd == Spec => ChildrenGo
<1>1. Whole /\ [Next]_vars =>
        [\A c \in Calls :
           /\ cold'[c] # cold[c] => Age(cold'[c]) > Age(cold[c])
           /\ kid'[c] # kid[c] => Age(kid'[c]) > Age(kid[c])]_vars
    BY EveryStepHasShape, ShapeKeeps DEF Older
<1> QED BY <1>1, WholeHolds, PTL DEF Spec, ChildrenGo

(* A child out of the pool is in the hand of a call that still has its     *)
(* turn before it, and one that runs a prompt has a call with a hang       *)
(* breaker (warm-cli-pool.mjs: acquireWarm, runWarm; providers.mjs).       *)
THEOREM ChildrenAreKnown == Spec => []NoChildForgotten
<1>1. Whole => NoChildForgotten
    BY DEF Whole
<1> QED BY <1>1, WholeHolds, PTL
=============================================================================
