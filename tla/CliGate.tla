------------------------------- MODULE CliGate -------------------------------
(* The gate every provider CLI is spawned through (providers.mjs: spawnCli,  *)
(* spawnCliStream), its semaphore (core/semaphore.mjs), and the pool of      *)
(* children spawned ahead of their prompt (warm-cli-pool.mjs).               *)
(*                                                                           *)
(* A call takes a slot, or waits for one in a queue; a release hands the     *)
(* slot to the head of the queue.  A call whose client left gives up when    *)
(* its turn comes.  A "warm" call first takes an idle child of its own key   *)
(* (binary, arguments, environment, directory, user) if there is one; when   *)
(* that child fails it before answering, the call runs once more, cold, with *)
(* a slot of its own.  At its end it arms the one respawn timer, whose       *)
(* callback looks at the machine's memory - an await - and then spawns the   *)
(* next idle child, unless the pool was flushed since the call began.  A     *)
(* flush follows everything that makes idle children wrong: a logout, an SDK *)
(* or plugin update, a revoked consent, a new binary.                        *)
(*                                                                           *)
(* A child is known by the call it works for, an idle child by the call      *)
(* whose timer spawned it.  Prompts, outputs and clocks are abstracted: a    *)
(* timer may fire at any time once it is armed.                              *)
EXTENDS Naturals, Sequences, FiniteSets

CONSTANTS
  None,       \* no call
  Calls,      \* the calls of spawnCli and spawnCliStream
  Warm,       \* those that pass warm: true (the mode classifier's)
  KeyOf,      \* KeyOf[c]: the pool key of call c
  MaxCli,     \* LLMIDE_MAX_CONCURRENT_CLI
  MaxIdle,    \* LLMIDE_WARM_CLI_MAX
  MaxFlushes, \* bound: flushes of the pool
  Stubborn    \* the calls whose children survive SIGTERM

ASSUME GateAssumption ==
  /\ None \notin Calls
  /\ IsFiniteSet(Calls)
  /\ Warm \subseteq Calls
  /\ Stubborn \subseteq Calls
  /\ MaxCli \in Nat \ {0}
  /\ MaxIdle \in Nat
  /\ MaxFlushes \in Nat

VARIABLES
  active,   \* Semaphore.active
  queue,    \* Semaphore.queue: the waiting calls
  pc,       \* pc[c]: where call c stands
  left,     \* the calls whose signal is aborted
  cold,     \* cold[c]: the child spawned for c's prompt
  kid,      \* kid[c]: the child spawned ahead by c's respawn timer
  hand,     \* hand[c]: the idle child that c acquired
  gen,      \* gen[c]: flushGeneration when warm call c began
  flushGen, \* flushGeneration
  timer,    \* the call that armed respawnTimer
  probes    \* the calls whose respawn waits for refreshMemoryProbe

sem == <<active, queue>>
pool == <<kid, hand, gen, flushGen, timer, probes>>
vars == <<sem, pc, left, cold, pool>>

Steps == {"new", "queued", "granted", "cold", "warm", "retry", "done"}
\* A call in one of these states holds a slot.
Holding == {"granted", "cold", "warm"}
\* A child runs, or was sent SIGTERM and still runs, or is gone.
Cold == {"none", "run", "told", "gone"}
\* Idle children are in the pool; a spent one has answered.
Kid == {"none", "idle", "held", "spent", "told", "gone"}

Init ==
  /\ active = 0
  /\ queue = <<>>
  /\ pc = [c \in Calls |-> "new"]
  /\ left = {}
  /\ cold = [c \in Calls |-> "none"]
  /\ kid = [c \in Calls |-> "none"]
  /\ hand = [c \in Calls |-> None]
  /\ gen = [c \in Calls |-> 0]
  /\ flushGen = 0
  /\ timer = None
  /\ probes = {}

------------------------------------------------------------------------------
(* The semaphore.                                                            *)

Acquire(c) ==
  \/ /\ active < MaxCli
     /\ active' = active + 1
     /\ pc' = [pc EXCEPT ![c] = "granted"]
     /\ UNCHANGED queue
  \/ /\ active >= MaxCli
     /\ queue' = Append(queue, c)
     /\ pc' = [pc EXCEPT ![c] = "queued"]
     /\ UNCHANGED active

\* Mutants of Release: the hand-over counts as a release too; the newest
\* waiter goes first.
ReleaseTwice(c, s) ==
  /\ active' = IF active > 0 THEN active - 1 ELSE 0
  /\ IF queue # <<>>
     THEN queue' = Tail(queue) /\ pc' = [pc EXCEPT ![c] = s, ![Head(queue)] = "granted"]
     ELSE queue' = queue /\ pc' = [pc EXCEPT ![c] = s]
ReleaseNewest(c, s) ==
  LET n == Len(queue) IN
  IF n > 0
  THEN /\ queue' = SubSeq(queue, 1, n - 1)
       /\ pc' = [pc EXCEPT ![c] = s, ![queue[n]] = "granted"]
       /\ UNCHANGED active
  ELSE /\ active' = IF active > 0 THEN active - 1 ELSE 0
       /\ pc' = [pc EXCEPT ![c] = s]
       /\ UNCHANGED queue

\* Call c gives its slot back and goes on to step s.
Release(c, s) ==
  \/ /\ queue # <<>>
     /\ queue' = Tail(queue)
     /\ pc' = [pc EXCEPT ![c] = s, ![Head(queue)] = "granted"]
     /\ UNCHANGED active
  \/ /\ queue = <<>>
     /\ active' = IF active > 0 THEN active - 1 ELSE 0
     /\ pc' = [pc EXCEPT ![c] = s]
     /\ UNCHANGED queue

------------------------------------------------------------------------------
(* The calls.                                                                *)

Idle == {k \in Calls : kid[k] = "idle"}

\* kill: SIGTERM to a child that still runs.
Told(k) == [kid EXCEPT ![k] = IF @ = "gone" THEN @ ELSE "told"]

\* The promise of c settles: its slot goes back, a warm call arms the timer.
Settle(c) ==
  /\ Release(c, "done")
  /\ timer' = IF c \in Warm THEN c ELSE timer
  /\ UNCHANGED <<hand, gen, flushGen, probes>>

\* The warm child was no use: the slot goes back, c will ask for another.
RunCold(c) ==
  /\ Release(c, "retry")
  /\ hand' = [hand EXCEPT ![c] = None]
  /\ UNCHANGED <<gen, flushGen, timer, probes>>

Call(c) ==
  /\ pc[c] = "new"
  /\ Acquire(c)
  /\ gen' = [gen EXCEPT ![c] = flushGen]
  /\ \/ \E k \in Idle :
          /\ c \in Warm
          /\ KeyOf[k] = KeyOf[c]
          /\ hand' = [hand EXCEPT ![c] = k]
          /\ kid' = [kid EXCEPT ![k] = "held"]
     \/ /\ c \in Warm => \A k \in Idle : KeyOf[k] # KeyOf[c]
        /\ UNCHANGED <<hand, kid>>
  /\ UNCHANGED <<left, cold, flushGen, timer, probes>>

\* The turn of a call whose client has left in the meantime.
StartLeft(c) ==
  /\ pc[c] = "granted"
  /\ c \in left
  /\ kid' = IF hand[c] = None THEN kid ELSE Told(hand[c])
  /\ Settle(c)
  /\ UNCHANGED <<left, cold>>

StartCold(c) ==
  /\ pc[c] = "granted"
  /\ c \notin left
  /\ hand[c] = None
  /\ pc' = [pc EXCEPT ![c] = "cold"]
  /\ cold' = [cold EXCEPT ![c] = "run"]
  /\ UNCHANGED <<sem, left, pool>>

StartWarm(c) ==
  /\ pc[c] = "granted"
  /\ c \notin left
  /\ hand[c] # None
  /\ \/ /\ kid[hand[c]] # "gone"
        /\ pc' = [pc EXCEPT ![c] = "warm"]
        /\ UNCHANGED <<sem, pool>>
     \/ /\ kid[hand[c]] = "gone"      \* it exited before use
        /\ RunCold(c)
        /\ UNCHANGED kid
  /\ UNCHANGED <<left, cold>>

Retry(c) ==
  /\ pc[c] = "retry"
  /\ Acquire(c)
  /\ UNCHANGED <<left, cold, pool>>

\* The client goes.  A running call is rejected at once, its child is told.
Abort(c) ==
  /\ pc[c] \notin {"new", "done"}
  /\ c \notin left
  /\ left' = left \cup {c}
  /\ \/ /\ pc[c] = "cold"
        /\ cold' = [cold EXCEPT ![c] = "told"]
        /\ Settle(c)
        /\ UNCHANGED kid
     \/ /\ pc[c] = "warm"
        /\ kid' = Told(hand[c])
        /\ Settle(c)
        /\ UNCHANGED cold
     \/ /\ pc[c] \notin {"cold", "warm"}
        /\ UNCHANGED <<sem, pc, cold, pool>>

\* Mutant of TimeOut: cold runs have no hang breaker.
TimeOutWarm(c) ==
  /\ pc[c] = "warm"
  /\ kid' = Told(hand[c])
  /\ Settle(c)
  /\ UNCHANGED <<left, cold>>

\* The hang breaker.  A cold call still waits for its child to close.
TimeOut(c) ==
  /\ \/ /\ pc[c] = "cold"
        /\ cold[c] = "run"
        /\ cold' = [cold EXCEPT ![c] = "told"]
        /\ UNCHANGED <<sem, pc, pool>>
     \/ /\ pc[c] = "warm"
        /\ kid' = Told(hand[c])
        /\ Settle(c)
        /\ UNCHANGED cold
  /\ UNCHANGED left

------------------------------------------------------------------------------
(* The children.                                                             *)

\* A child closes, or it could not be spawned at all.
ColdGone(c) ==
  /\ cold' = [cold EXCEPT ![c] = "gone"]
  /\ \/ /\ pc[c] = "cold"
        /\ Settle(c)
        /\ UNCHANGED kid
     \/ /\ pc[c] # "cold"      \* settled before, by the abort
        /\ UNCHANGED <<sem, pc, pool>>
  /\ UNCHANGED left

ColdEnds(c) == cold[c] = "run" /\ ColdGone(c)

ColdDies(c) == cold[c] = "told" /\ c \notin Stubborn /\ ColdGone(c)

\* The result line: an answer, an error, or "log in", which c retries cold.
Answer(c) ==
  /\ pc[c] = "warm"
  /\ kid[hand[c]] = "held"
  /\ kid' = [kid EXCEPT ![hand[c]] = "spent"]
  /\ Settle(c) \/ RunCold(c)
  /\ UNCHANGED <<left, cold>>

\* The prompt cannot be written, or the output passes the cap.
AnswerBreaks(c) ==
  /\ pc[c] = "warm"
  /\ kid' = Told(hand[c])
  /\ Settle(c) \/ RunCold(c)
  /\ UNCHANGED <<left, cold>>

\* A warm child closes: with a call waiting for its answer, or without.
KidGone(k) ==
  /\ kid' = [kid EXCEPT ![k] = "gone"]
  /\ \/ \E c \in Calls : pc[c] = "warm" /\ hand[c] = k /\ (Settle(c) \/ RunCold(c))
     \/ /\ \A c \in Calls : ~(pc[c] = "warm" /\ hand[c] = k)
        /\ UNCHANGED <<sem, pc, hand, gen, flushGen, timer, probes>>
  /\ UNCHANGED <<left, cold>>

KidEnds(k) == kid[k] \in {"idle", "held", "spent"} /\ KidGone(k)

KidDies(k) == kid[k] = "told" /\ k \notin Stubborn /\ KidGone(k)

\* Mutant of KidTimer: no exit grace is armed after an answer.
KidTimerIdle(k) ==
  /\ kid[k] = "idle"
  /\ kid' = Told(k)
  /\ UNCHANGED <<sem, pc, left, cold, hand, gen, flushGen, timer, probes>>

\* IDLE_MS is over for an idle child, EXIT_GRACE for one that has answered.
KidTimer(k) ==
  /\ kid[k] \in {"idle", "spent"}
  /\ kid' = Told(k)
  /\ UNCHANGED <<sem, pc, left, cold, hand, gen, flushGen, timer, probes>>

\* A child that no call listens to yet passes OUTPUT_CAP_BYTES.
Overflow(k) ==
  /\ kid[k] \in {"idle", "held"}
  /\ \A c \in Calls : ~(pc[c] = "warm" /\ hand[c] = k)
  /\ kid' = Told(k)
  /\ UNCHANGED <<sem, pc, left, cold, hand, gen, flushGen, timer, probes>>

------------------------------------------------------------------------------
(* The pool.                                                                 *)

Flush ==
  /\ flushGen < MaxFlushes
  /\ flushGen' = flushGen + 1
  /\ timer' = None
  /\ kid' = [k \in Calls |-> IF k \in Idle THEN "told" ELSE kid[k]]
  /\ UNCHANGED <<sem, pc, left, cold, hand, gen, probes>>

RespawnTimer ==
  /\ timer # None
  /\ probes' = probes \cup {timer}
  /\ timer' = None
  /\ UNCHANGED <<sem, pc, left, cold, kid, hand, gen, flushGen>>

\* Mutant of MayPrewarm: the generation is not looked at after the await.
MayPrewarmStale(c) == MaxIdle > 0 /\ \A k \in Idle : KeyOf[k] # KeyOf[c]

MayPrewarm(c) ==
  /\ gen[c] = flushGen
  /\ MaxIdle > 0
  /\ \A k \in Idle : KeyOf[k] # KeyOf[c]

\* The memory is known.  The callback may find too little of it, a full pool
\* whose child is not due yet, or a spawn that throws.
Respawn(c) ==
  /\ c \in probes
  /\ probes' = probes \ {c}
  /\ \/ /\ MayPrewarm(c)
        /\ Cardinality(Idle) < MaxIdle
        /\ kid' = [kid EXCEPT ![c] = "idle"]
     \/ /\ MayPrewarm(c)
        /\ Cardinality(Idle) >= MaxIdle
        /\ \E k \in Idle : kid' = [Told(k) EXCEPT ![c] = "idle"]
     \/ /\ MayPrewarm(c)
        /\ Cardinality(Idle) >= MaxIdle
        /\ \E k \in Idle : kid' = Told(k)
     \/ UNCHANGED kid
  /\ UNCHANGED <<sem, pc, left, cold, hand, gen, flushGen, timer>>

------------------------------------------------------------------------------
Next ==
  \/ \E c \in Calls :
       \/ Call(c) \/ StartLeft(c) \/ StartCold(c) \/ StartWarm(c) \/ Retry(c)
       \/ Abort(c) \/ TimeOut(c) \/ ColdEnds(c) \/ ColdDies(c)
       \/ Answer(c) \/ AnswerBreaks(c) \/ KidEnds(c) \/ KidDies(c)
       \/ KidTimer(c) \/ Overflow(c) \/ Respawn(c)
  \/ Flush
  \/ RespawnTimer

Spec == Init /\ [][Next]_vars

\* The event loop runs what is due: a continuation, a timer, an awaited probe.
\* A child that was sent SIGTERM ends, unless it is stubborn.  Nothing else is
\* promised: no child need answer, no client need leave.
FairSpec ==
  /\ Spec
  /\ \A c \in Calls :
       /\ WF_vars(StartLeft(c) \/ StartCold(c) \/ StartWarm(c) \/ Retry(c))
       /\ WF_vars(TimeOut(c))
       /\ WF_vars(KidTimer(c))
       /\ WF_vars(ColdDies(c))
       /\ WF_vars(KidDies(c))
       /\ WF_vars(Respawn(c))
  /\ WF_vars(RespawnTimer)

------------------------------------------------------------------------------
(* Properties.                                                               *)

\* Every variable has its type.
TypeOK ==
  /\ active \in Nat
  /\ queue \in Seq(Calls)
  /\ pc \in [Calls -> Steps]
  /\ left \subseteq Calls
  /\ cold \in [Calls -> Cold]
  /\ kid \in [Calls -> Kid]
  /\ hand \in [Calls -> Calls \cup {None}]
  /\ gen \in [Calls -> Nat]
  /\ flushGen \in Nat
  /\ timer \in Calls \cup {None}
  /\ probes \subseteq Calls

Holders == {c \in Calls : pc[c] \in Holding}

\* The semaphore's count is the number of calls that hold a slot, it never
\* passes the limit, and no slot is free while a call waits: whatever order
\* hand-overs, aborts, time-outs, retries and late exits come in.
SlotsExact ==
  /\ active = Cardinality(Holders)
  /\ active <= MaxCli
  /\ queue # <<>> => active = MaxCli

\* A call gets a slot before every call that asked after it: while calls
\* wait, only the first of them is granted one.
NoOvertaking ==
  [][\A c \in Calls :
       (pc[c] # "granted" /\ pc'[c] = "granted" /\ queue # <<>>)
         => c = Head(queue)]_vars

\* The semaphore keeps its promise: whatever calls, children and clients do,
\* each step takes one slot, gives one back to the head of the queue, puts one
\* call in it, or leaves both alone.
SQ == INSTANCE SlotQueue WITH Clients <- Calls, Limit <- MaxCli, hold <- Holders, line <- queue
KeepsSlotQueue == SQ!Spec

\* A call is answered by an idle child of its own key and user that nobody
\* else holds, and that was asked for after the last flush before the call:
\* never by one with the login, plugins or consents of an earlier time, although
\* a respawn may sit in its timer or its await while the pool is flushed.
WarmFits ==
  \A c \in Calls : hand[c] # None =>
    /\ KeyOf[hand[c]] = KeyOf[c]
    /\ gen[hand[c]] = gen[c]
    /\ \A d \in Calls \ {c} : hand[d] # hand[c]

\* How far call c has come.  With an idle child in its hand it has a turn to
\* wait for that a cold call does not have.
Rank(c) ==
  CASE pc[c] = "new" -> 0
    [] pc[c] = "queued" /\ hand[c] # None -> 1
    [] pc[c] = "granted" /\ hand[c] # None -> 2
    [] pc[c] = "warm" -> 3
    [] pc[c] = "retry" -> 4
    [] pc[c] = "queued" /\ hand[c] = None -> 5
    [] pc[c] = "granted" /\ hand[c] = None -> 6
    [] pc[c] = "cold" -> 7
    [] OTHER -> 8

\* No call goes in circles: whatever fails it moves only forward, so that it
\* asks for a slot at most twice and answers, or fails, once.
CallsMoveOn == [][\A c \in Calls : pc'[c] # pc[c] => Rank(c)' > Rank(c)]_vars

Age(s) ==
  CASE s = "none" -> 0
    [] s \in {"idle", "run"} -> 1
    [] s = "held" -> 2
    [] s = "spent" -> 3
    [] s = "told" -> 4
    [] OTHER -> 5

\* No child comes back: one that was told to end is never offered or used
\* again, and none is spawned in the place of one that is not gone.
ChildrenGo ==
  [][\A c \in Calls :
       /\ cold'[c] # cold[c] => Age(cold'[c]) > Age(cold[c])
       /\ kid'[c] # kid[c] => Age(kid'[c]) > Age(kid[c])]_vars

\* No child is forgotten: one whose timers were cleared because a call took it
\* is still in the hand of a call that will start it, stop it or hear of its
\* end, and one that runs is watched by its call's hang breaker.
NoChildForgotten ==
  /\ \A k \in Calls : kid[k] = "held" =>
       \E c \in Calls : hand[c] = k /\ pc[c] \in {"queued", "granted", "warm"}
  /\ \A c \in Calls : cold[c] = "run" => pc[c] = "cold"

\* Every call ends: a hung child is stopped, a waiting call gets its turn, a
\* failed warm answer is followed by one cold run.  The calls are finitely
\* many and end once, so it is enough that they are all over again and again.
EveryCallEnds == []<>(\A c \in Calls : pc[c] \in {"new", "done"})

\* No child stays for ever: not idle, not in the hand of a waiting call, not
\* after its answer, its time-out or its call's abort.
NoChildLingers ==
  []<>(\A c \in Calls : cold[c] \in {"none", "gone"} /\ kid[c] \in {"none", "gone"})
=============================================================================
