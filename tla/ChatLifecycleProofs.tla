------------------------- MODULE ChatLifecycleProofs -------------------------
(***************************************************************************)
(* Theorems about ChatLifecycle, for any turns, clocks and faults.         *)
(***************************************************************************)
EXTENDS ChatLifecycle, TLAPS

LEMMA SecBound ==
    ASSUME NEW x \in Time
    PROVE  Sec(x) \in Time
BY ChatAssumption DEF Time, Sec

LEMMA MinOfTwo ==
    ASSUME NEW x \in Time, NEW y \in Time
    PROVE  Min({x, y}) \in {x, y}
<1>1. \E z \in {x, y} : \A w \in {x, y} : z <= w
    BY DEF Time
<1> QED BY <1>1 DEF Min

LEMMA StampTyped ==
    ASSUME TypeOK, Stamp
    PROVE  clock' \in Time
BY ChatAssumption DEF TypeOK, Stamp, Time

-----------------------------------------------------------------------------
(* Types.                                                                  *)

LEMMA TurnTyped ==
    ASSUME TypeOK, NEW t \in Turns,
           Ask(t) \/ Refuse(t) \/ Start(t) \/ SdkInit(t) \/ Unresumable(t) \/ End(t)
    PROVE  TypeOK'
<1> USE DEF TypeOK
<1>1. CASE Ask(t) \/ Refuse(t)
    BY <1>1 DEF Ask, Refuse, Go, server, net, failed
<1>2. CASE Start(t)
    <2>1. clock' \in Time /\ map' \in [sdk : Turns \cup {None}, used : Time]
        BY <1>2, StampTyped DEF Start
    <2>2. row' \in [Turns -> Turns \cup {None}] /\ resume' \in [Turns -> BOOLEAN]
        BY <1>2, <2>1 DEF Start
    <2>3. cur' \in [Turns -> Turns \cup {None}]
        BY <1>2, <2>1 DEF Start
    <2> QED BY <1>2, <2>1, <2>2, <2>3 DEF Start, Go, net, failed
<1>3. CASE SdkInit(t)
    <2>1. clock' \in Time
        BY <1>3, StampTyped DEF SdkInit
    <2>2. cur' \in [Turns -> Turns \cup {None}]
        BY <1>3 DEF SdkInit
    <2>3. script' \in [Turns -> Time]
        BY <1>3, <2>1 DEF SdkInit
    <2> QED BY <1>3, <2>1, <2>2, <2>3 DEF SdkInit, net, failed
<1>4. CASE Unresumable(t)
    BY <1>4 DEF Unresumable, Over, Go, server, net, failed
<1>5. CASE End(t)
    <2>1. CASE cur[t] = None /\ UNCHANGED <<clock, map, script, later, stray>>
        BY <1>5, <2>1 DEF End, Over, Go, net, failed
    <2>2. ASSUME cur[t] # None, Stamp, NEW last \in {script[cur[t]], clock'},
                 Bound(t, last) \/ Unbound(t, last)
          PROVE  TypeOK'
        <3>1. clock' \in Time /\ last \in Time
            BY <2>2, StampTyped
        <3>2. map' \in [sdk : Turns \cup {None}, used : Time] \cup {None}
            BY <2>2, <3>1 DEF Bound, Unbound
        <3>3. script' \in [Turns -> Time]
            BY <2>2, <3>1, ChatAssumption DEF Bound, Unbound, Time
        <3>4. later' \subseteq Turns /\ stray' \subseteq Turns
            BY <2>2 DEF Bound, Unbound, Kept, Replaced
        <3> QED BY <1>5, <3>1, <3>2, <3>3, <3>4 DEF End, Over, Go, net, failed
    <2> QED BY <1>5, <2>1, <2>2 DEF End
<1> QED BY <1>1, <1>2, <1>3, <1>4, <1>5

LEMMA PurgedTyped ==
    ASSUME TypeOK, NEW ids \in SUBSET Turns, Purged(ids)
    PROVE  script' \in [Turns -> Time] /\ stray' \subseteq Turns
BY ChatAssumption DEF TypeOK, Purged, Kept, Time

LEMMA SinceTyped ==
    ASSUME TypeOK, NEW a \in posts
    PROVE  Since(a) \in Time /\ Since(a) \in Nat
BY DEF TypeOK, Since, Time

LEMMA OwedTyped ==
    ASSUME TypeOK, NEW a \in posts
    PROVE  Owed(a) \in [asked : Time, ids : SUBSET Turns]
<1>1. Mapped \subseteq Turns /\ Since(a) \in Time
    BY SinceTyped DEF TypeOK, Mapped
<1>2. CASE tomb = None
    BY <1>1, <1>2 DEF Owed
<1>3. CASE tomb # None
    <2>1. tomb.asked \in Time /\ tomb.ids \subseteq Turns
        BY <1>3 DEF TypeOK
    <2> QED BY <1>1, <1>3, <2>1, MinOfTwo DEF Owed
<1> QED BY <1>2, <1>3

LEMMA ServerTyped ==
    ASSUME TypeOK,
           UpdateStarts \/ UpdateEnds \/ DropSession \/ ServePurge \/ \E a \in posts : ServeDelete(a)
    PROVE  TypeOK'
<1>0. Mapped \subseteq Turns
    BY DEF TypeOK, Mapped
<1>1. CASE UpdateStarts \/ UpdateEnds
    BY <1>1 DEF TypeOK, UpdateStarts, UpdateEnds, turns, net, failed
<1>2. CASE DropSession
    <2>1. script' \in [Turns -> Time] /\ stray' \subseteq Turns
        BY <1>0, <1>2, PurgedTyped DEF DropSession
    <2> QED BY <1>2, <2>1 DEF TypeOK, DropSession, turns, net
<1>3. CASE ServePurge
    <2>1. script' \in [Turns -> Time] /\ stray' \subseteq Turns /\ map' \in {map, None}
        BY <1>0, <1>3, PurgedTyped DEF TypeOK, ServePurge
    <2> QED BY <1>3, <2>1 DEF TypeOK, ServePurge, turns
<1>4. ASSUME NEW a \in posts, ServeDelete(a) PROVE TypeOK'
    <2>1. Owed(a).ids \in SUBSET Turns
        BY OwedTyped
    <2>2. /\ script' \in [Turns -> Time] /\ stray' \subseteq Turns /\ map' \in {map, None}
          /\ tomb' \in {Owed(a), None} /\ local' \in {local, 0}
        BY <1>4, <2>1, PurgedTyped DEF TypeOK, ServeDelete, Purge, StillOwed, Told
    <2>3. 0 \in Time
        BY ChatAssumption DEF Time
    <2> QED BY <1>4, <2>2, <2>3, OwedTyped DEF TypeOK, ServeDelete, turns
<1> QED BY <1>1, <1>2, <1>3, <1>4

LEMMA AppTyped ==
    ASSUME TypeOK, Launch \/ Quit \/ Exit \/ Save \/ Delete \/ Trash \/ DeleteCall \/ Tick
    PROVE  TypeOK'
<1> USE DEF TypeOK
<1>1. 0 \in Time
    BY ChatAssumption DEF Time
<1>2. CASE Launch \/ Quit
    BY <1>2 DEF Launch, Quit, Runs, turns, server, net, failed
<1>3. CASE Exit
    BY <1>1, <1>3 DEF Exit, Off, Runs, turns, server, net, failed
<1>4. CASE Save \/ Tick
    BY <1>4, StampTyped DEF Save, Tick, turns, server, net, failed
<1>5. CASE Delete
    BY <1>5, StampTyped DEF Delete, turns, server, net, failed
<1>6. CASE Trash
    BY <1>1, <1>6 DEF Trash, FileGoes, FileStays, turns, server, net, failed
<1>7. CASE DeleteCall
    BY <1>7, SecBound DEF DeleteCall, turns, server, failed
<1> QED BY <1>2, <1>3, <1>4, <1>5, <1>6, <1>7

LEMMA RunTyped ==
    ASSUME TypeOK,
           Tombs \/ \E r \in Runs : State(r) \/ Verify(r) \/ Receipt(r) \/ SendPurge(r) \/ RunStops(r)
    PROVE  TypeOK'
<1> USE DEF TypeOK
<1>1. 0 \in Time
    BY ChatAssumption DEF Time
<1>2. CASE Tombs
    <2>1. /\ UNCHANGED <<clock, turn, row, resume, cur, updating, map, script, receipt, tomb, app,
                         local, del, asks, deleted, later, stray>>
          /\ posts' \subseteq posts \cup {AskedAt} /\ file' \in {file, 0} /\ spared' \in BOOLEAN
        BY <1>2 DEF Tombs, FileGoes, FileStays, turns, server
    <2>2. AskedAt \in Time
        BY SecBound DEF AskedAt
    <2>3. run' \in [Runs -> [step : {"off", "tombs", "state", "verify", "receipt", "purge"},
                             saw : Time, used : Time, hash : Time]]
        BY <1>2 DEF Tombs, Runs
    <2> QED BY <1>1, <2>1, <2>2, <2>3
<1>3. ASSUME NEW r \in Runs, State(r) PROVE TypeOK'
    <2>1. map # None => map.used \in Time
        OBVIOUS
    <2> QED BY <1>1, <1>3, <2>1 DEF State, Off, turns, server, net, failed
<1>4. ASSUME NEW r \in Runs, Verify(r) PROVE TypeOK'
    <2>1. run' \in [Runs -> [step : {"off", "tombs", "state", "verify", "receipt", "purge"},
                             saw : Time, used : Time, hash : Time]]
        <3> DEFINE Run == [step : {"off", "tombs", "state", "verify", "receipt", "purge"},
                           saw : Time, used : Time, hash : Time]
        <3>1. file \in Time /\ run \in [Runs -> Run] /\ run[r] \in Run
            OBVIOUS
        <3>2. [run[r] EXCEPT !.step = "receipt", !.used = 0, !.hash = file] \in Run /\ Off \in Run
            BY ONLY <1>1, <3>1 DEF Off
        <3>3. run' = [run EXCEPT ![r] =
                 IF FileIsCurrent(r)
                 THEN [run[r] EXCEPT !.step = "receipt", !.used = 0, !.hash = file] ELSE Off]
            BY ONLY <1>4 DEF Verify
        <3> HIDE DEF Run, TypeOK
        <3>4. run' \in [Runs -> Run]
            BY <3>1, <3>2, <3>3
        <3> QED BY <3>4 DEF Run
    <2>2. UNCHANGED <<clock, turn, row, resume, cur, updating, map, script, receipt, tomb, app, file,
                      local, del, asks, posts, deleted, later, stray, spared>>
        BY ONLY <1>4 DEF Verify, turns, server, net, failed
    <2> QED BY <2>1, <2>2
<1>5. ASSUME NEW r \in Runs, Receipt(r) PROVE TypeOK'
    BY <1>1, <1>5, StampTyped DEF Receipt, Off, turns, net, failed
<1>6. ASSUME NEW r \in Runs, SendPurge(r) PROVE TypeOK'
    BY <1>1, <1>6 DEF SendPurge, Off, turns, server, failed
<1>7. ASSUME NEW r \in Runs, RunStops(r) PROVE TypeOK'
    BY <1>1, <1>7 DEF RunStops, Off, turns, server, net, failed
<1> QED BY <1>2, <1>3, <1>4, <1>5, <1>6, <1>7

LEMMA InitTyped == Init => TypeOK
<1> SUFFICES ASSUME Init PROVE TypeOK
    OBVIOUS
<1>1. 0 \in Time /\ 1 \in Time
    BY ChatAssumption DEF Time
<1>2. /\ turn \in [Turns -> {"new", "classify", "run", "over"}]
      /\ row \in [Turns -> Turns \cup {None}] /\ cur \in [Turns -> Turns \cup {None}]
      /\ resume \in [Turns -> BOOLEAN] /\ script \in [Turns -> Time]
    BY <1>1 DEF Init
<1>3. receipt \in [at : Time, of : Time, saw : Time]
    BY <1>1 DEF Init, NoReceipt
<1>4. run \in [Runs -> [step : {"off", "tombs", "state", "verify", "receipt", "purge"},
                       saw : Time, used : Time, hash : Time]]
    BY <1>1 DEF Init, Off
<1> QED BY <1>1, <1>2, <1>3, <1>4 DEF Init, TypeOK

LEMMA NextTyped ==
    ASSUME TypeOK, [Next]_vars
    PROVE  TypeOK'
<1>1. CASE UNCHANGED vars
    BY <1>1 DEF TypeOK, vars, turns, server, net, failed
<1> QED BY <1>1, TurnTyped, ServerTyped, AppTyped, RunTyped DEF Next

LEMMA TypeHolds == Spec => []TypeOK
BY InitTyped, NextTyped, PTL DEF Spec

(* Every variable keeps its type.                                          *)
THEOREM TypeCorrect == Spec => []TypeOK
BY TypeHolds

-----------------------------------------------------------------------------
(* Turns and transcripts.                                                  *)

(* A session that a turn has not opened yet is nobody's.                   *)
Fresh(u) ==
    turn[u] \in {"new", "classify"} =>
        u \notin Mapped /\ \A t \in Running : row[t] # u

(* What a running turn knows of its session: the row is as it found it, or *)
(* was dropped together with the transcript, or the transcript would not   *)
(* go.                                                                     *)
Knows(t) ==
    /\ Mapped \subseteq {row[t]} /\ row[t] # t
    /\ row[t] # None => row[t] \in Mapped \/ script[row[t]] = 0 \/ row[t] \in stray
    /\ resume[t] => row[t] # None /\ cur[t] = row[t]
    /\ ~resume[t] => cur[t] \in {None, t}

Owned ==
    /\ OneTurn /\ NoOrphanTranscript
    /\ \A u \in Turns : Fresh(u)
    /\ \A t \in Running : Knows(t)

(* What a step that removes transcripts does to that of s: it is gone, or  *)
(* as it was and not found again.                                          *)
Thins(s) == script'[s] = 0 \/ (script'[s] = script[s] /\ (s \in stray => s \in stray'))

(* A purge leaves behind what it cannot remove, and only that.             *)
LEMMA PurgedThins ==
    ASSUME TypeOK, NEW ids \in SUBSET Turns, Purged(ids)
    PROVE  /\ \A s \in Turns : Thins(s)
           /\ \A s \in ids : script'[s] = 0 \/ s \in stray'
<1>1. PICK kept \in Kept(ids) :
        /\ script' = [s \in Turns |-> IF s \in ids \ kept THEN 0 ELSE script[s]]
        /\ stray' = (stray \ ids) \cup kept
    BY DEF Purged
<1>2. \A s \in Turns : s \in ids \ kept => script'[s] = 0
    BY <1>1
<1>3. \A s \in Turns \ (ids \ kept) : script'[s] = script[s] /\ (s \in stray => s \in stray')
    BY <1>1
<1>4. \A s \in Turns : Thins(s)
    BY <1>2, <1>3 DEF Thins
<1>5. \A s \in ids : script'[s] = 0 \/ s \in stray'
    BY <1>1
<1> QED BY <1>4, <1>5

(* A step that starts and ends no turn, and changes no transcript but to   *)
(* remove it.                                                              *)
LEMMA StillOwned ==
    ASSUME TypeOK, Owned,
           UNCHANGED <<row, resume, cur>>,
           \A t \in Turns : turn'[t] = turn[t] \/ (turn[t] # "run" /\ turn'[t] \in {"classify", "over"}),
           \A t \in Turns : turn'[t] = "classify" => turn[t] \in {"new", "classify"},
           updating' = updating \/ Running = {},
           map' = map \/ (map' = None /\ \A s \in Mapped : script'[s] = 0 \/ s \in stray'),
           \A s \in Turns : Thins(s)
    PROVE  Owned'
<1>1. Running' = Running /\ Mapped' \subseteq Mapped
    BY DEF Running, Mapped, TypeOK
<1>2. OneTurn'
    BY <1>1 DEF Owned, OneTurn
<1>3. \A s \in Mapped : s \in Mapped' \/ script'[s] = 0 \/ s \in stray'
    BY DEF Mapped
<1>4. NoOrphanTranscript'
    BY <1>1, <1>3 DEF Owned, NoOrphanTranscript, Thins
<1>5. \A u \in Turns : Fresh(u)'
    BY <1>1 DEF Owned, Fresh, TypeOK
<1>6. \A t \in Running : Knows(t)'
    <2> SUFFICES ASSUME NEW t \in Running PROVE Knows(t)'
        OBVIOUS
    <2>1. Knows(t) /\ row[t] \in Turns \cup {None}
        BY DEF Owned, Running, TypeOK
    <2>2. row[t] # None => row[t] \in Mapped' \/ script'[row[t]] = 0 \/ row[t] \in stray'
        BY <1>3, <2>1 DEF Knows, Thins
    <2> QED BY <1>1, <2>1, <2>2 DEF Knows
<1> QED BY <1>1, <1>2, <1>4, <1>5, <1>6 DEF Owned

LEMMA StartOwned ==
    ASSUME TypeOK, Owned, NEW t \in Turns, Start(t)
    PROVE  Owned'
<1> USE DEF TypeOK
<1>1. Running = {} /\ Running' = {t} /\ ~updating /\ ~updating'
    BY DEF Start, MayStart, Go, Running
<1>2. Mapped' = Mapped /\ script' = script /\ stray' = stray
    <2>0. script' = script /\ stray' = stray
        BY DEF Start, failed
    <2>1. CASE map = None
        <3>1. map'.sdk = None
            BY <2>1 DEF Start
        <3> QED BY <2>0, <2>1, <3>1 DEF Start, Mapped
    <2>2. CASE map # None
        BY <2>0, <2>2 DEF Start, Mapped
    <2> QED BY <2>0, <2>1, <2>2
<1>3. /\ row'[t] = map'.sdk /\ Mapped' \subseteq {row'[t]}
      /\ row'[t] # None => row'[t] \in Mapped'
    BY DEF Start, Mapped
<1>4. /\ resume'[t] => row'[t] # None /\ cur'[t] = row'[t]
      /\ ~resume'[t] => cur'[t] = None
    BY <1>3 DEF Start
<1>5. \A u \in Turns : Fresh(u)'
    <2> SUFFICES ASSUME NEW u \in Turns, turn'[u] \in {"new", "classify"} PROVE Fresh(u)'
        BY DEF Fresh
    <2>1. turn[u] = turn'[u]
        BY DEF Start, Go
    <2>2. u \notin Mapped
        BY <2>1 DEF Owned, Fresh
    <2>3. row'[t] # u
        BY <1>2, <1>3, <2>2, ChatAssumption
    <2> QED BY <1>1, <1>2, <2>2, <2>3 DEF Fresh
<1>6. OneTurn' /\ NoOrphanTranscript'
    BY <1>1, <1>2 DEF Owned, OneTurn, NoOrphanTranscript
<1>7. Knows(t)'
    <2>1. row'[t] # t
        BY <1>2, <1>3, ChatAssumption DEF Start, Owned, Fresh
    <2> QED BY <1>3, <1>4, <2>1 DEF Knows
<1> QED BY <1>1, <1>5, <1>6, <1>7 DEF Owned

LEMMA SdkInitOwned ==
    ASSUME TypeOK, Owned, NEW t \in Turns, SdkInit(t)
    PROVE  Owned'
<1> USE DEF TypeOK
<1>1. /\ Running = {t} /\ Running' = Running /\ Mapped' = Mapped /\ turn[t] = "run"
      /\ stray' = stray
    BY DEF SdkInit, Running, Mapped, Owned, OneTurn, failed
<1>2. Knows(t)
    BY <1>1 DEF Owned
<1>3. cur'[t] \in Turns /\ cur'[t] \in {t, row[t]} /\ (resume[t] => cur'[t] = row[t])
      /\ (~resume[t] => cur'[t] = t /\ cur[t] = None)
    BY <1>2 DEF SdkInit, Knows
<1>4. \A s \in Turns \ {cur'[t]} : script'[s] = script[s]
    BY DEF SdkInit
<1>5. NoOrphanTranscript'
    BY <1>1, <1>3, <1>4, ChatAssumption DEF SdkInit, Owned, NoOrphanTranscript
<1>6. \A u \in Turns : Fresh(u)'
    BY <1>1 DEF SdkInit, Owned, Fresh
<1>7. Knows(t)'
    <2>1. row[t] # None => row[t] \in Mapped \/ script'[row[t]] = 0 \/ row[t] \in stray
        <3>1. CASE resume[t]
            BY <1>2, <3>1 DEF SdkInit, Knows
        <3>2. CASE ~resume[t]
            BY <1>2, <1>3, <1>4, <3>2 DEF Knows
        <3> QED BY <3>1, <3>2
    <2> QED BY <1>1, <1>2, <1>3, <2>1 DEF SdkInit, Knows
<1> QED BY <1>1, <1>5, <1>6, <1>7 DEF SdkInit, Owned, OneTurn

LEMMA EndOwned ==
    ASSUME TypeOK, Owned, NEW t \in Turns, End(t)
    PROVE  Owned'
<1> USE DEF TypeOK
<1>1. Running = {t} /\ Running' = {} /\ turn[t] = "run"
    BY DEF End, Over, Go, Running, Owned, OneTurn
<1>2. Knows(t)
    BY <1>1 DEF Owned
<1>3. CASE cur[t] = None /\ UNCHANGED <<map, script, stray>>
    <2>0. Mapped' = Mapped
        BY <1>3 DEF Mapped
    <2>1. resume[t] # TRUE
        BY <1>2, <1>3 DEF Knows
    <2>2. NoOrphanTranscript'
        BY <1>1, <1>2, <1>3, <2>0, ChatAssumption DEF Owned, NoOrphanTranscript, Knows
    <2>3. \A u \in Turns : Fresh(u)'
        BY <1>1, <2>0 DEF End, Over, Go, Owned, Fresh
    <2> QED BY <1>1, <2>2, <2>3 DEF Owned, OneTurn
<1>4. ASSUME cur[t] # None, Stamp, NEW last \in {script[cur[t]], clock'}, Bound(t, last)
      PROVE  Owned'
    <2>1. Mapped' \subseteq {cur[t]} /\ (map' # None => cur[t] \in Mapped')
        BY <1>4 DEF Bound, Mapped
    <2>2. map' # None
        <3>1. clock' \in Nat
            BY <1>4, StampTyped DEF Time
        <3> QED BY <1>4, <3>1, ChatAssumption DEF Bound
    <2>3. \A s \in Turns \ {cur[t]} : script'[s] = 0 \/ s \in stray'
        <3>1. PICK kept \in Kept(Replaced(t)) :
                /\ script' = [s \in Turns |-> IF s = cur[t] THEN last
                                             ELSE IF s \in Replaced(t) \ kept THEN 0 ELSE script[s]]
                /\ stray' = (stray \ {cur[t]}) \cup kept
            BY <1>4 DEF Bound
        <3> SUFFICES ASSUME NEW s \in Turns \ {cur[t]}, script[s] # 0, s \notin stray,
                            s \notin Replaced(t)
                     PROVE  FALSE
            BY <3>1
        <3>2. s = row[t]
            BY <1>1, <1>2 DEF Owned, NoOrphanTranscript, Knows
        <3> QED BY <1>2, <3>2, ChatAssumption DEF Replaced, Knows
    <2>4. NoOrphanTranscript'
        BY <2>1, <2>2, <2>3 DEF NoOrphanTranscript
    <2>5. \A u \in Turns : Fresh(u)'
        <3> SUFFICES ASSUME NEW u \in Turns, turn'[u] \in {"new", "classify"} PROVE u \notin Mapped'
            BY <1>1 DEF Fresh
        <3>1. turn[u] = turn'[u] /\ u # t
            BY <1>1 DEF End, Over, Go
        <3>2. row[t] # u
            BY <1>1, <3>1 DEF Owned, Fresh
        <3>3. cur[t] \in {t, row[t]}
            BY <1>2, <1>4 DEF Knows
        <3> QED BY <2>1, <3>1, <3>2, <3>3
    <2> QED BY <1>1, <2>4, <2>5 DEF Owned, OneTurn
<1>5. ASSUME cur[t] # None, NEW last, Unbound(t, last)
      PROVE  Owned'
    <2>1. Mapped' = Mapped /\ stray' = stray \cup {cur[t]}
        BY <1>5 DEF Unbound, Mapped
    <2>2. \A s \in Turns \ {cur[t]} : script'[s] = script[s]
        BY <1>5 DEF Unbound
    <2>3. row[t] # None /\ row[t] # cur[t] =>
              row[t] \in Mapped \/ script'[row[t]] = 0 \/ row[t] \in stray
        BY <1>2, <2>2 DEF Knows
    <2>4. NoOrphanTranscript'
        BY <1>1, <1>5, <2>1, <2>2, <2>3, ChatAssumption DEF Owned, NoOrphanTranscript
    <2>5. \A u \in Turns : Fresh(u)'
        BY <1>1, <2>1 DEF End, Over, Go, Owned, Fresh
    <2> QED BY <1>1, <2>4, <2>5 DEF Owned, OneTurn
<1> QED BY <1>3, <1>4, <1>5 DEF End

LEMMA UnresumableOwned ==
    ASSUME TypeOK, Owned, NEW t \in Turns, Unresumable(t)
    PROVE  Owned'
<1> USE DEF TypeOK
<1>1. Running = {t} /\ Running' = {} /\ turn[t] = "run"
    BY DEF Unresumable, Over, Go, Running, Owned, OneTurn
<1>2. Knows(t) /\ script[row[t]] = 0 /\ cur[t] = row[t]
    BY <1>1 DEF Owned, Unresumable, Knows
<1>3. Mapped' = Mapped /\ script' = script /\ stray' = stray
    BY DEF Unresumable, server, Mapped, failed
<1>4. NoOrphanTranscript'
    BY <1>1, <1>2, <1>3 DEF Owned, NoOrphanTranscript
<1>5. \A u \in Turns : Fresh(u)'
    BY <1>1, <1>3 DEF Unresumable, Over, Go, Owned, Fresh
<1> QED BY <1>1, <1>4, <1>5 DEF Owned, OneTurn

LEMMA InitOwned == Init => Owned
<1> SUFFICES ASSUME Init PROVE Owned
    OBVIOUS
<1>1. Running = {} /\ Mapped = {} /\ updating = FALSE /\ \A s \in Turns : script[s] = 0
    BY DEF Init, Running, Mapped
<1> QED BY <1>1 DEF Owned, OneTurn, NoOrphanTranscript, Fresh

(* What a purge takes, the row can only name if it is taken with it.       *)
LEMMA NextOwned ==
    ASSUME TypeOK, Owned, [Next]_vars
    PROVE  Owned'
<1> USE DEF TypeOK
<1>0. Mapped \subseteq Turns
    BY DEF Mapped
<1>1. ASSUME UNCHANGED <<turns, server, stray>> PROVE Owned'
    BY <1>1, StillOwned DEF turns, server, Thins
<1>2. ASSUME NEW t \in Turns, Ask(t) \/ Refuse(t) PROVE Owned'
    <2>1. UNCHANGED <<row, resume, cur, updating, map, script, stray>>
        BY <1>2 DEF Ask, Refuse, server, failed
    <2>2. turn[t] # "run" /\ turn'[t] \in {"classify", "over"}
        BY <1>2 DEF Ask, Refuse, Go
    <2>3. \A u \in Turns \ {t} : turn'[u] = turn[u]
        BY <1>2 DEF Ask, Refuse, Go
    <2>4. turn'[t] = "classify" => turn[t] \in {"new", "classify"}
        BY <1>2 DEF Ask, Refuse, Go
    <2>5. \A u \in Turns :
              turn'[u] = turn[u] \/ (turn[u] # "run" /\ turn'[u] \in {"classify", "over"})
        BY <2>2, <2>3
    <2>6. \A u \in Turns : turn'[u] = "classify" => turn[u] \in {"new", "classify"}
        BY <2>3, <2>4
    <2>7. \A s \in Turns : Thins(s)
        BY <2>1 DEF Thins
    <2>8. /\ UNCHANGED <<row, resume, cur>>
          /\ updating' = updating \/ Running = {}
          /\ map' = map \/ (map' = None /\ \A s \in Mapped : script'[s] = 0 \/ s \in stray')
        BY <2>1
    <2> HIDE DEF TypeOK
    <2> QED BY <2>5, <2>6, <2>7, <2>8, StillOwned
<1>3. CASE UpdateStarts \/ UpdateEnds
    <2>1. UNCHANGED <<turn, row, resume, cur, map, script, stray>>
        BY <1>3 DEF UpdateStarts, UpdateEnds, turns, failed
    <2>2. CASE UpdateStarts
        BY <2>1, <2>2, StillOwned DEF UpdateStarts, Thins
    <2>3. CASE UpdateEnds
        <3>1. Running' = Running /\ Mapped' = Mapped
            BY <2>1 DEF Running, Mapped
        <3>2. OneTurn' /\ NoOrphanTranscript'
            BY <2>1, <2>3, <3>1 DEF UpdateEnds, Owned, OneTurn, NoOrphanTranscript
        <3>3. (\A u \in Turns : Fresh(u)') /\ \A t \in Running' : Knows(t)'
            BY <2>1, <3>1 DEF Owned, Fresh, Knows
        <3> QED BY <3>2, <3>3 DEF Owned
    <2> QED BY <1>3, <2>2, <2>3
<1>4. CASE DropSession
    BY <1>0, <1>4, PurgedThins, StillOwned DEF DropSession, turns
<1>5. CASE ServePurge
    <2>1. CASE Purged(Mapped) /\ (map' = None \/ map' = map)
        BY <1>0, <1>5, <2>1, PurgedThins, StillOwned DEF ServePurge, turns
    <2>2. CASE UNCHANGED <<map, script, stray>>
        BY <1>5, <2>2, StillOwned DEF ServePurge, turns, Thins
    <2> QED BY <1>5, <2>1, <2>2 DEF ServePurge
<1>6. ASSUME NEW a \in posts, ServeDelete(a) PROVE Owned'
    <2> DEFINE o == Owed(a)
    <2>1. CASE Purged(o.ids) /\ map' \in {map, None}
        <3>1. o.ids \in SUBSET Turns
            BY OwedTyped
        <3>2. Mapped \subseteq o.ids
            BY DEF Owed
        <3>3. \A s \in Turns : Thins(s)
            BY <2>1, <3>1, PurgedThins
        <3>4. \A s \in Mapped : script'[s] = 0 \/ s \in stray'
            BY <2>1, <3>1, <3>2, PurgedThins
        <3> QED BY <1>6, <2>1, <3>3, <3>4, StillOwned DEF ServeDelete, turns
    <2>2. CASE UNCHANGED <<map, script, stray>>
        BY <1>6, <2>2, StillOwned DEF ServeDelete, turns, Thins
    <2> QED BY <1>6, <2>1, <2>2 DEF ServeDelete, Purge
<1>7. CASE Launch \/ Quit \/ Exit \/ Save \/ Delete \/ Trash \/ DeleteCall \/ Tick
    BY <1>1, <1>7 DEF Launch, Quit, Exit, Save, Delete, Trash, DeleteCall, Tick, failed
<1>8. CASE Tombs
    BY <1>1, <1>8 DEF Tombs
<1>9. ASSUME NEW r \in Runs, State(r) \/ Verify(r) \/ SendPurge(r) \/ RunStops(r) PROVE Owned'
    BY <1>1, <1>9 DEF State, Verify, SendPurge, RunStops, failed
<1>10. ASSUME NEW r \in Runs, Receipt(r) PROVE Owned'
    BY <1>10, StillOwned DEF Receipt, turns, failed, Thins
<1>11. CASE UNCHANGED vars
    BY <1>1, <1>11 DEF vars, failed
<1> QED BY <1>2, <1>3, <1>4, <1>5, <1>6, <1>7, <1>8, <1>9, <1>10, <1>11,
           StartOwned, SdkInitOwned, UnresumableOwned, EndOwned DEF Next

LEMMA OwnedHolds == Spec => []Owned
<1>1. TypeOK /\ Owned /\ [Next]_vars => Owned'
    BY NextOwned
<1> QED BY <1>1, InitOwned, TypeHolds, PTL DEF Spec

(* One turn of the chat runs at a time, and none while an update replaces  *)
(* the files it runs on, although the lock is looked at before and after   *)
(* the classifier is awaited: for any number of turns.                     *)
THEOREM ChatLockHolds == Spec => []OneTurn
<1>1. Owned => OneTurn
    BY DEF Owned
<1> QED BY <1>1, OwnedHolds, PTL

(* Through every exit of a turn, replaced session and half-done purge, a   *)
(* transcript is named by the row or by the turn that runs: a later purge  *)
(* finds it.  What is lost sight of is what would not go when its row      *)
(* went, and the session of a turn that could not be bound.                *)
THEOREM TranscriptsAreFound == Spec => []NoOrphanTranscript
<1>1. Owned => NoOrphanTranscript
    BY DEF Owned
<1> QED BY <1>1, OwnedHolds, PTL

-----------------------------------------------------------------------------
(* The chat that is used again after its delete.                           *)

LEMMA SecBelow ==
    ASSUME NEW x \in Time
    PROVE  Sec(x) <= x /\ Sec(x) \in Nat
BY ChatAssumption DEF Time, Sec

(* The row of a chat used again is newer than the delete and than every    *)
(* request to delete it that is under way.                                 *)
UsedAgain ==
    /\ local <= clock /\ \A a \in posts : a <= clock
    /\ Mapped \cap later # {} => map.used > local /\ \A a \in posts : map.used > a

LEMMA OwedNoLater ==
    ASSUME TypeOK, NEW a \in posts, clock <= a + MaxAge
    PROVE  Owed(a).asked <= a /\ Owed(a).asked \in Nat
<1>0. posts \subseteq Time /\ clock \in Nat /\ MaxAge \in Nat
    BY ChatAssumption DEF TypeOK, Time
<1>1. a \in Nat /\ Since(a) = a
    BY <1>0 DEF Time, Since
<1>2. CASE tomb = None
    BY <1>1, <1>2 DEF Owed
<1>3. CASE tomb # None
    <2>1. tomb.asked \in Nat
        BY <1>3 DEF TypeOK, Time
    <2>2. \E z \in {a, tomb.asked} : \A w \in {a, tomb.asked} : z <= w
        BY <1>1, <2>1
    <2>3. Min({a, tomb.asked}) \in {a, tomb.asked} /\ Min({a, tomb.asked}) <= a
        BY <2>2 DEF Min
    <2> QED BY <1>1, <1>3, <2>1, <2>3 DEF Owed
<1> QED BY <1>2, <1>3

(* A step that keeps the row, or drops it, and adds no delete.             *)
LEMMA StillUsedAgain ==
    ASSUME TypeOK, UsedAgain, clock' \in Nat, clock <= clock',
           posts' \subseteq posts, local' \in {local, 0},
           map' = map \/ Mapped' = {}, Mapped \cap later' \subseteq later
    PROVE  UsedAgain'
<1>1. clock \in Nat /\ local \in Nat /\ \A a \in posts : a \in Nat
    BY DEF TypeOK, Time
<1>2. local' <= clock' /\ \A a \in posts' : a <= clock'
    BY <1>1 DEF UsedAgain
<1>3. CASE Mapped' = {}
    BY <1>2, <1>3 DEF UsedAgain
<1>4. CASE map' = map /\ Mapped' # {}
    <2>1. Mapped' = Mapped /\ map # None
        BY <1>4 DEF Mapped
    <2>2. map.used \in Nat
        BY <2>1 DEF TypeOK, Time
    <2>3. Mapped' \cap later' # {} => Mapped \cap later # {}
        BY <2>1
    <2> QED BY <1>1, <1>2, <1>4, <2>2, <2>3 DEF UsedAgain
<1> QED BY <1>3, <1>4

LEMMA TurnUsedAgain ==
    ASSUME TypeOK, Owned, UsedAgain, NEW t \in Turns,
           Ask(t) \/ Refuse(t) \/ Start(t) \/ SdkInit(t) \/ Unresumable(t) \/ End(t)
    PROVE  UsedAgain'
<1>1. clock \in Nat /\ local \in Nat /\ \A a \in posts : a \in Nat
    BY DEF TypeOK, Time
<1>2. CASE Ask(t)
    <2>1. t \notin Mapped
        BY <1>2 DEF Ask, Owned, Fresh
    <2> QED BY <1>1, <1>2, <2>1, StillUsedAgain DEF Ask, server, net
<1>3. CASE Refuse(t) \/ Unresumable(t)
    BY <1>1, <1>3, StillUsedAgain DEF Refuse, Unresumable, server, net
<1>4. CASE Start(t)
    <2>1. map' = map \/ Mapped' = {}
        BY <1>4 DEF Start, Mapped
    <2>2. clock' \in Nat /\ clock <= clock'
        BY <1>1, <1>4 DEF Start, Stamp
    <2> QED BY <1>4, <2>1, <2>2, StillUsedAgain DEF Start, net
<1>5. CASE SdkInit(t)
    <2>1. clock' \in Nat /\ clock <= clock'
        BY <1>1, <1>5 DEF SdkInit, Stamp
    <2> QED BY <1>5, <2>1, StillUsedAgain DEF SdkInit, net
<1>6. CASE End(t)
    <2>0. local' = local /\ posts' = posts
        BY <1>6 DEF End, net
    <2>1. CASE UNCHANGED <<clock, map, later>>
        BY <1>1, <2>0, <2>1, StillUsedAgain
    <2>2. CASE Stamp /\ map' = [sdk |-> cur[t], used |-> clock']
        <3>1. clock' \in Nat /\ clock < clock' /\ map'.used = clock'
            BY <1>1, <2>2 DEF Stamp
        <3> QED BY <1>1, <2>0, <3>1 DEF UsedAgain
    <2>3. CASE Stamp /\ UNCHANGED <<map, later>>
        <3>1. clock' \in Nat /\ clock <= clock'
            BY <1>1, <2>3 DEF Stamp
        <3> QED BY <2>0, <2>3, <3>1, StillUsedAgain
    <2> QED BY <1>6, <2>1, <2>2, <2>3 DEF End, Bound, Unbound
<1> QED BY <1>2, <1>3, <1>4, <1>5, <1>6

LEMMA NextUsedAgain ==
    ASSUME TypeOK, Owned, UsedAgain, [Next]_vars
    PROVE  UsedAgain'
<1>1. /\ clock \in Nat /\ local \in Nat /\ clock \in Time /\ local \in Time
      /\ \A a \in posts : a \in Nat
    BY DEF TypeOK, Time
<1>2. ASSUME UNCHANGED <<clock, map, local, posts, later>> PROVE UsedAgain'
    BY <1>1, <1>2, StillUsedAgain
<1>3. CASE UpdateStarts \/ UpdateEnds
    BY <1>2, <1>3 DEF UpdateStarts, UpdateEnds, net
<1>4. CASE DropSession \/ ServePurge
    <2>1. map' = map \/ Mapped' = {}
        BY <1>4 DEF DropSession, ServePurge, Mapped
    <2> QED BY <1>1, <1>4, <2>1, StillUsedAgain DEF DropSession, ServePurge, net
<1>5. ASSUME NEW a \in posts, ServeDelete(a) PROVE UsedAgain'
    <2>1. map' = map \/ Mapped' = {}
        BY <1>5 DEF ServeDelete, Purge, Mapped
    <2>2. local' \in {local, 0} /\ posts' \subseteq posts /\ UNCHANGED <<clock, later>>
        BY <1>5 DEF ServeDelete, Purge, StillOwed, Told
    <2> QED BY <1>1, <2>1, <2>2, StillUsedAgain
<1>6. CASE Launch \/ Quit \/ Exit \/ Trash
    BY <1>2, <1>6 DEF Launch, Quit, Exit, Trash, server, net
<1>7. CASE Save \/ Tick
    <2>1. clock' \in Nat /\ clock <= clock'
        BY <1>1, <1>7 DEF Save, Tick, Stamp
    <2> QED BY <1>7, <2>1, StillUsedAgain DEF Save, Tick, server, net
<1>8. CASE Delete
    <2>1. local' \in {local, clock'} /\ clock' = clock + 1 /\ posts' = posts /\ later' = {}
        BY <1>8 DEF Delete, Stamp, net
    <2> QED BY <1>1, <2>1 DEF UsedAgain
<1>9. CASE DeleteCall
    <2>1. local' = local /\ clock' = clock /\ posts' = posts \cup {Sec(clock)} /\ later' = {}
        BY <1>9 DEF DeleteCall
    <2> QED BY <1>1, <2>1, SecBelow DEF UsedAgain
<1>10. CASE Tombs
    <2>1. UNCHANGED <<clock, map, local, later>>
        BY <1>10 DEF Tombs, server
    <2>2. posts' \subseteq posts \cup {Sec(local)}
        BY <1>10 DEF Tombs, AskedAt
    <2>3. Mapped' = Mapped
        BY <2>1 DEF Mapped
    <2>4. Mapped \cap later # {} => map.used \in Nat
        BY DEF Mapped, TypeOK, Time
    <2> QED BY <1>1, <2>1, <2>2, <2>3, <2>4, SecBelow DEF UsedAgain
<1>11. ASSUME NEW r \in Runs, State(r) \/ Verify(r) \/ SendPurge(r) \/ RunStops(r) PROVE UsedAgain'
    BY <1>2, <1>11 DEF State, Verify, SendPurge, RunStops, server, net
<1>12. ASSUME NEW r \in Runs, Receipt(r) PROVE UsedAgain'
    <2>1. clock' \in Nat /\ clock <= clock'
        BY <1>1, <1>12 DEF Receipt, Stamp
    <2> QED BY <1>12, <2>1, StillUsedAgain DEF Receipt, net
<1>13. CASE UNCHANGED vars
    BY <1>2, <1>13 DEF vars, server, net
<1> QED BY <1>3, <1>4, <1>5, <1>6, <1>7, <1>8, <1>9, <1>10, <1>11, <1>12, <1>13, TurnUsedAgain
        DEF Next

LEMMA UsedAgainHolds == Spec => []UsedAgain
<1>1. Init => UsedAgain
    BY DEF Init, UsedAgain, Mapped
<1>2. TypeOK /\ Owned /\ UsedAgain /\ [Next]_vars => UsedAgain'
    BY NextUsedAgain
<1> QED BY <1>1, <1>2, TypeHolds, OwnedHolds, PTL DEF Spec

(* A chat in which a turn started after the delete was asked keeps its row *)
(* and transcripts, however often the delete is sent, as long as it counts *)
(* from the time it names.                                                 *)
THEOREM UsedAgainIsKept == Spec => ReusedKeeps
<1> DEFINE Served(a) == ServeDelete(a) /\ clock <= a + MaxAge /\ Mapped \cap later # {}
                           => UNCHANGED <<map, script>>
<1>1. ASSUME TypeOK, UsedAgain, NEW a \in posts, ServeDelete(a), clock <= a + MaxAge,
             Mapped \cap later # {}
      PROVE  UNCHANGED <<map, script>>
    <2>1. map # None
        BY <1>1 DEF Mapped
    <2>2. map.used \in Nat /\ a \in Nat /\ map.used > a
        BY <1>1, <2>1 DEF TypeOK, Time, UsedAgain
    <2>3. \A unread \in Unread : Reused(Owed(a), unread)
        BY <1>1, <2>1, <2>2, OwedNoLater DEF Reused
    <2> QED BY <1>1, <2>3 DEF ServeDelete
<1>2. TypeOK /\ UsedAgain => [\A a \in posts : Served(a)]_vars
    BY <1>1
<1>3. Spec => [][\A a \in posts : Served(a)]_vars
    BY <1>2, TypeHolds, UsedAgainHolds, PTL
<1> QED BY <1>3 DEF ReusedKeeps

-----------------------------------------------------------------------------
(* What a purge under a receipt takes.                                     *)

LEMMA SecMonotone ==
    ASSUME NEW x \in Time, NEW y \in Time, x <= y
    PROVE  Sec(x) <= Sec(y)
<1>1. x \in Nat /\ y \in Nat /\ TicksPerSecond \in Nat /\ TicksPerSecond > 0
    BY ChatAssumption DEF Time
<1>2. x \div TicksPerSecond <= y \div TicksPerSecond
    BY <1>1
<1>3. \A m, n, k \in Nat : m <= n => m * k <= n * k
    OBVIOUS
<1>4. x \div TicksPerSecond \in Nat /\ y \div TicksPerSecond \in Nat
    BY <1>1
<1> QED BY <1>1, <1>2, <1>3, <1>4 DEF Sec

(* The row is as new as its transcript, unless a turn writes it, or a use   *)
(* of it could not be recorded.                                            *)
Written ==
    /\ \A s \in Turns : script[s] <= clock
    /\ map # None => map.used <= clock
    /\ \A s \in Mapped : script[s] <= map.used \/ s \in stray \/ \E t \in Running : cur[t] = s

(* The row was last used by the time x.                                    *)
Seen(x) == map # None /\ map.used <= x

(* An archive run, and the receipt, know of the use that was there to see. *)
Vouched ==
    /\ receipt.saw <= clock /\ (Seen(receipt.saw) /\ receipt.at # 0 => Sec(map.used) <= receipt.of)
    /\ \A r \in Runs :
          /\ run[r].saw <= clock
          /\ run[r].step = "verify" /\ Seen(run[r].saw) => map.used = run[r].used
          /\ run[r].step = "receipt" /\ Seen(run[r].saw) => Sec(map.used) <= run[r].hash

LEMMA StillWritten ==
    ASSUME TypeOK, Written, clock' \in Nat, clock <= clock', cur' = cur, Running' = Running,
           map' \in {map, None},
           \A s \in Turns : Thins(s)
    PROVE  Written'
<1>1. clock \in Nat /\ \A s \in Turns : script[s] \in Nat
    BY DEF TypeOK, Time
<1>2. map # None => map.used \in Nat
    BY DEF TypeOK, Time
<1>3. \A s \in Turns : script'[s] <= clock'
    BY <1>1 DEF Written, Thins
<1>4. map' # None => map'.used <= clock'
    BY <1>1, <1>2 DEF Written
<1>5. CASE Mapped' = {}
    BY <1>3, <1>4, <1>5 DEF Written
<1>6. CASE Mapped' # {} /\ map' = map
    <2>1. Mapped' = Mapped /\ map # None /\ Mapped \subseteq Turns
        BY <1>6 DEF Mapped, TypeOK
    <2>2. ASSUME NEW s \in Mapped
          PROVE  script'[s] <= map'.used \/ s \in stray' \/ \E t \in Running' : cur'[t] = s
        <3>1. Thins(s) /\ (script[s] <= map.used \/ s \in stray \/ \E t \in Running : cur[t] = s)
            BY <2>1, <2>2 DEF Written
        <3> QED BY <1>2, <1>6, <2>1, <3>1 DEF Thins
    <2> QED BY <1>3, <1>4, <2>1, <2>2 DEF Written
<1> QED BY <1>5, <1>6 DEF Mapped

LEMMA TurnWritten ==
    ASSUME TypeOK, Owned, Written, NEW t \in Turns,
           Ask(t) \/ Refuse(t) \/ Start(t) \/ SdkInit(t) \/ Unresumable(t) \/ End(t)
    PROVE  Written'
<1>1. clock \in Nat /\ \A s \in Turns : script[s] \in Nat
    BY DEF TypeOK, Time
<1>2. CASE Ask(t) \/ Refuse(t)
    <2>1. Running' = Running
        BY <1>2 DEF Ask, Refuse, Go, Running, TypeOK
    <2> QED BY <1>1, <1>2, <2>1, StillWritten DEF Ask, Refuse, server, failed, Thins
<1>3. CASE Start(t)
    <2>1. clock' \in Nat /\ clock <= clock' /\ script' = script /\ stray' = stray
        BY <1>1, <1>3 DEF Start, Stamp, failed
    <2>2. \A s \in Mapped : script[s] <= map.used \/ s \in stray
        BY <1>3 DEF Start, MayStart, Written
    <2>3. CASE map = None
        <3>1. Mapped' = {} /\ map'.used <= clock'
            BY <1>3, <2>1, <2>3 DEF Start, Mapped
        <3> QED BY <1>1, <2>1, <3>1 DEF Written
    <2>4. CASE map # None
        <3>1. map' = map /\ Mapped' = Mapped
            BY <1>3, <2>4 DEF Start, Mapped
        <3>2. map.used \in Nat
            BY <2>4 DEF TypeOK, Time
        <3> QED BY <1>1, <2>1, <2>2, <3>1, <3>2 DEF Written
    <2> QED BY <2>3, <2>4
<1>4. CASE SdkInit(t)
    <2>1. Running = {t} /\ Running' = Running /\ Knows(t)
        BY <1>4 DEF SdkInit, Running, Owned, OneTurn
    <2>2. (resume[t] => cur'[t] = cur[t]) /\ (~resume[t] => cur[t] = None)
        BY <1>4 DEF SdkInit, TypeOK
    <2>3. clock' \in Nat /\ clock <= clock' /\ map' = map /\ stray' = stray /\ Mapped' = Mapped
        BY <1>1, <1>4 DEF SdkInit, Stamp, failed, Mapped
    <2>4. \A s \in Turns : script'[s] = IF s = cur'[t] THEN clock' ELSE script[s]
        BY <1>4 DEF SdkInit, TypeOK
    <2>5. map # None => map.used \in Nat
        BY DEF TypeOK, Time
    <2>6. \A s \in Turns : script'[s] <= clock'
        BY <1>1, <2>3, <2>4 DEF Written
    <2>7. ASSUME NEW s \in Mapped
          PROVE  script'[s] <= map'.used \/ s \in stray' \/ \E u \in Running' : cur'[u] = s
        <3>1. s \in Turns /\ s # None
            BY <2>7 DEF Mapped, TypeOK
        <3>2. script[s] <= map.used \/ s \in stray \/ cur[t] = s
            BY <2>1, <2>7 DEF Written
        <3> QED BY <2>1, <2>2, <2>3, <2>4, <3>1, <3>2
    <2>8. map' # None => map'.used <= clock'
        BY <1>1, <2>3, <2>5 DEF Written
    <2> QED BY <2>3, <2>6, <2>7, <2>8 DEF Written
<1>5. CASE Unresumable(t)
    <2>1. Running = {t} /\ Running' = {} /\ Knows(t)
        BY <1>5 DEF Unresumable, Over, Go, Running, Owned, OneTurn, TypeOK
    <2>2. Mapped' = Mapped /\ UNCHANGED <<clock, map, script>>
        BY <1>5 DEF Unresumable, server, Mapped
    <2>3. \A s \in Mapped : script[s] = 0 /\ map # None
        BY <1>5, <2>1 DEF Unresumable, Knows, Mapped
    <2>4. \A s \in Mapped : script'[s] <= map'.used
        BY <2>2, <2>3 DEF TypeOK, Time
    <2> QED BY <2>2, <2>4 DEF Written
<1>6. CASE End(t)
    <2>1. Running = {t} /\ Knows(t)
        BY <1>6 DEF End, Running, Owned, OneTurn
    <2>2. \A s \in Mapped : script[s] <= map.used \/ s \in stray \/ cur[t] = s
        BY <2>1 DEF Written
    <2>3. map # None => map.used \in Nat /\ map.used <= clock
        BY DEF TypeOK, Time, Written
    <2>4. CASE cur[t] = None /\ UNCHANGED <<clock, map, script, later, stray>>
        <3>1. Mapped' = Mapped /\ \A s \in Mapped : script[s] <= map.used \/ s \in stray
            BY <2>2, <2>4 DEF Mapped
        <3> QED BY <2>4, <3>1 DEF Written
    <2>5. ASSUME cur[t] # None, Stamp, NEW last \in {script[cur[t]], clock'}, Bound(t, last)
          PROVE  Written'
        <3>1. clock' \in Nat /\ clock <= clock' /\ map'.used = clock'
            BY <1>1, <2>5 DEF Stamp, Bound
        <3>2. \A s \in Turns : script'[s] \in {0, script[s], clock'}
            BY <2>5 DEF Bound
        <3>3. \A s \in Turns : script'[s] <= clock'
            BY <1>1, <3>1, <3>2 DEF Written
        <3>4. Mapped' \subseteq Turns
            BY <2>5 DEF Bound, Mapped, TypeOK
        <3> QED BY <3>1, <3>3, <3>4 DEF Written
    <2>6. ASSUME cur[t] # None, Stamp, NEW last \in {script[cur[t]], clock'}, Unbound(t, last)
          PROVE  Written'
        <3>1. /\ clock' \in Nat /\ clock <= clock' /\ map' = map /\ Mapped' = Mapped
              /\ stray' = stray \cup {cur[t]}
            BY <1>1, <2>6 DEF Stamp, Unbound, Mapped
        <3>2. \A s \in Turns : script'[s] \in {script[s], clock'} /\ (s # cur[t] => script'[s] = script[s])
            BY <2>6 DEF Unbound, TypeOK
        <3>3. \A s \in Turns : script'[s] <= clock'
            BY <1>1, <3>1, <3>2 DEF Written
        <3>4. \A s \in Mapped : script'[s] <= map'.used \/ s \in stray'
            BY <2>2, <3>1, <3>2 DEF Mapped, TypeOK
        <3>5. map' # None => map'.used <= clock'
            BY <1>1, <2>3, <3>1
        <3> QED BY <3>1, <3>3, <3>4, <3>5 DEF Written
    <2> QED BY <1>6, <2>4, <2>5, <2>6 DEF End
<1> QED BY <1>2, <1>3, <1>4, <1>5, <1>6

LEMMA NextWritten ==
    ASSUME TypeOK, Owned, Written, [Next]_vars
    PROVE  Written'
<1>1. clock \in Nat /\ \A s \in Turns : script[s] \in Nat
    BY DEF TypeOK, Time
<1>0. Mapped \subseteq Turns
    BY DEF Mapped, TypeOK
<1>2. ASSUME UNCHANGED <<turns, server, stray>>, clock' = clock \/ Stamp PROVE Written'
    <2>1. clock' \in Nat /\ clock <= clock'
        BY <1>1, <1>2 DEF Stamp
    <2> QED BY <1>2, <2>1, StillWritten DEF turns, server, Running, Thins
<1>3. CASE UpdateStarts \/ UpdateEnds
    BY <1>1, <1>3, StillWritten DEF UpdateStarts, UpdateEnds, turns, Running, failed, Thins
<1>4. CASE DropSession
    BY <1>0, <1>1, <1>4, PurgedThins, StillWritten DEF DropSession, turns, Running
<1>5. CASE ServePurge
    <2>1. \A s \in Turns : Thins(s)
        BY <1>0, <1>5, PurgedThins DEF ServePurge, Thins
    <2> QED BY <1>1, <1>5, <2>1, StillWritten DEF ServePurge, turns, Running
<1>6. ASSUME NEW a \in posts, ServeDelete(a) PROVE Written'
    <2>0. Owed(a).ids \in SUBSET Turns
        BY OwedTyped
    <2>1. \A s \in Turns : Thins(s)
        BY <1>6, <2>0, PurgedThins DEF ServeDelete, Purge, Thins
    <2>2. map' \in {map, None} /\ UNCHANGED <<clock, turns>>
        BY <1>6 DEF ServeDelete, Purge
    <2> QED BY <1>1, <2>1, <2>2, StillWritten DEF turns, Running
<1>7. CASE Launch \/ Quit \/ Exit \/ Save \/ Delete \/ Trash \/ DeleteCall \/ Tick
    BY <1>2, <1>7 DEF Launch, Quit, Exit, Save, Delete, Trash, DeleteCall, Tick, failed
<1>8. CASE Tombs
    BY <1>2, <1>8 DEF Tombs
<1>9. ASSUME NEW r \in Runs, State(r) \/ Verify(r) \/ SendPurge(r) \/ RunStops(r) PROVE Written'
    BY <1>2, <1>9 DEF State, Verify, SendPurge, RunStops, failed
<1>10. ASSUME NEW r \in Runs, Receipt(r) PROVE Written'
    <2>1. clock' \in Nat /\ clock <= clock'
        BY <1>1, <1>10 DEF Receipt, Stamp
    <2> QED BY <1>10, <2>1, StillWritten DEF Receipt, turns, Running, failed, Thins
<1>11. CASE UNCHANGED vars
    BY <1>2, <1>11 DEF vars, failed
<1> QED BY <1>3, <1>4, <1>5, <1>6, <1>7, <1>8, <1>9, <1>10, <1>11, TurnWritten DEF Next

LEMMA Types ==
    ASSUME TypeOK
    PROVE  /\ clock \in Nat /\ 0 \in Time /\ receipt.saw \in Nat
           /\ map # None => map.used \in Nat /\ map.used \in Time
           /\ \A r \in Runs : run[r].saw \in Nat
<1>1. 0 \in Time /\ Time \subseteq Nat
    BY ChatAssumption DEF Time
<1>2. map # None => map.used \in Time
    BY DEF TypeOK
<1>3. receipt.saw \in Time /\ clock \in Time
    BY DEF TypeOK
<1>4. \A r \in Runs : run[r].saw \in Time
    BY DEF TypeOK
<1> QED BY <1>1, <1>2, <1>3, <1>4

(* A row that is new, gone or used now was not seen before.                *)
LEMMA StillVouched ==
    ASSUME TypeOK, Vouched, clock' \in Nat, clock <= clock', receipt' = receipt,
           map' \in {map, None} \/ (map'.used \in Nat /\ map'.used > clock),
           \A r \in Runs : run'[r] = run[r] \/ (run'[r].step \notin {"verify", "receipt"}
                                               /\ run'[r].saw \in {0, run[r].saw})
    PROVE  Vouched'
<1>1. ASSUME NEW x \in Nat, x <= clock, map' # None, map'.used <= x
      PROVE  map' = map /\ Seen(x)
    BY <1>1, Types DEF Seen
<1>2. receipt'.saw <= clock' /\ (Seen(receipt.saw)' /\ receipt.at # 0 => Sec(map.used)' <= receipt.of)
    BY <1>1, Types DEF Vouched, Seen
<1>3. \A r \in Runs :
          /\ run'[r].saw <= clock'
          /\ run'[r].step = "verify" /\ Seen(run[r].saw)' => map'.used = run'[r].used
          /\ run'[r].step = "receipt" /\ Seen(run[r].saw)' => Sec(map.used)' <= run'[r].hash
    <2> SUFFICES ASSUME NEW r \in Runs
                 PROVE /\ run'[r].saw <= clock'
                       /\ run'[r].step = "verify" /\ Seen(run[r].saw)' => map'.used = run'[r].used
                       /\ run'[r].step = "receipt" /\ Seen(run[r].saw)' => Sec(map.used)' <= run'[r].hash
        OBVIOUS
    <2>1. CASE run'[r] = run[r]
        BY <1>1, <2>1, Types DEF Vouched, Seen
    <2>2. CASE run'[r].step \notin {"verify", "receipt"} /\ run'[r].saw \in {0, run[r].saw}
        BY <2>2, Types DEF Vouched
    <2> QED BY <2>1, <2>2
<1> QED BY <1>2, <1>3 DEF Vouched

LEMMA RunVouched ==
    ASSUME TypeOK, Vouched, NEW r \in Runs, State(r) \/ Verify(r) \/ Receipt(r)
    PROVE  Vouched'
<1>1. \A q \in Runs \ {r} : run'[q] = run[q]
    BY DEF State, Verify, Receipt, TypeOK
<1>3. CASE State(r)
    <2>1. UNCHANGED <<clock, map, receipt>>
        BY <1>3 DEF State, server
    <2>2. CASE run'[r] = Off
        BY <1>1, <2>1, <2>2, Types, StillVouched DEF Off
    <2>3. CASE run'[r] = [step |-> "verify", saw |-> clock, used |-> map.used, hash |-> 0]
        BY <1>1, <2>1, <2>3, Types DEF Vouched, Seen
    <2> QED BY <1>3, <2>2, <2>3 DEF State, TypeOK
<1>4. CASE Verify(r)
    <2>1. UNCHANGED <<clock, map, receipt>>
        BY <1>4 DEF Verify, server
    <2>2. CASE run'[r] = Off
        BY <1>1, <2>1, <2>2, Types, StillVouched DEF Off
    <2>3. CASE FileIsCurrent(r) /\ run'[r] = [run[r] EXCEPT !.step = "receipt", !.used = 0, !.hash = file]
        <3>1. run'[r].step = "receipt" /\ run'[r].saw = run[r].saw /\ run'[r].hash = file
            BY <2>3 DEF TypeOK
        <3>2. Seen(run[r].saw) => map.used = run[r].used
            BY <1>4 DEF Verify, Vouched
        <3>3. Seen(run[r].saw) => Sec(map.used) <= file
            BY <2>3, <3>2 DEF FileIsCurrent, TypeOK, Time, Seen, Sec
        <3> QED BY <1>1, <2>1, <3>1, <3>3 DEF Vouched, Seen
    <2> QED BY <1>4, <2>2, <2>3 DEF Verify, TypeOK
<1>5. CASE Receipt(r)
    <2>1. clock' \in Nat /\ clock <= clock' /\ map' = map
        BY <1>5, Types DEF Receipt, Stamp
    <2>2. receipt'.saw = run[r].saw /\ receipt'.of = run[r].hash
        BY <1>5 DEF Receipt
    <2>3. run'[r].step = "purge" /\ run'[r].saw = 0
        BY <1>5 DEF Receipt, Off, TypeOK
    <2>4. run[r].saw <= clock /\ (Seen(run[r].saw) => Sec(map.used) <= run[r].hash)
        BY <1>5 DEF Receipt, Vouched
    <2> QED BY <1>1, <2>1, <2>2, <2>3, <2>4, Types DEF Vouched, Seen
<1> QED BY <1>3, <1>4, <1>5

LEMMA NextVouched ==
    ASSUME TypeOK, Vouched, [Next]_vars
    PROVE  Vouched'
<1>1. ASSUME UNCHANGED <<map, receipt, run>>, clock' = clock \/ Stamp PROVE Vouched'
    <2>1. clock' \in Nat /\ clock <= clock'
        BY <1>1, Types DEF Stamp
    <2> QED BY <1>1, <2>1, StillVouched
<1>2. ASSUME NEW t \in Turns, Ask(t) \/ Refuse(t) \/ SdkInit(t) \/ Unresumable(t) PROVE Vouched'
    BY <1>1, <1>2 DEF Ask, Refuse, SdkInit, Unresumable, server
<1>3. ASSUME NEW t \in Turns, Start(t) \/ End(t) PROVE Vouched'
    <2>1. clock' \in Nat /\ clock <= clock' /\ UNCHANGED <<receipt, run>>
        BY <1>3, Types DEF Start, End, Stamp
    <2>2. map' = map \/ (map'.used \in Nat /\ map'.used > clock)
        BY <1>3, Types DEF Start, End, Bound, Unbound, Stamp
    <2> QED BY <2>1, <2>2, StillVouched
<1>4. CASE UpdateStarts \/ UpdateEnds \/ Save \/ Delete \/ Trash \/ DeleteCall \/ Tick
    BY <1>1, <1>4 DEF UpdateStarts, UpdateEnds, Save, Delete, Trash, DeleteCall, Tick, server
<1>5. CASE DropSession \/ ServePurge
    <2>1. map' \in {map, None} /\ UNCHANGED <<clock, receipt, run>>
        BY <1>5 DEF DropSession, ServePurge
    <2> QED BY <2>1, Types, StillVouched
<1>6. ASSUME NEW a \in posts, ServeDelete(a) PROVE Vouched'
    <2>1. map' \in {map, None} /\ UNCHANGED <<clock, receipt, run>>
        BY <1>6 DEF ServeDelete, Purge
    <2> QED BY <2>1, Types, StillVouched
<1>7. CASE Launch \/ Quit \/ Exit \/ Tombs
    <2>1. UNCHANGED <<clock, map, receipt>>
        BY <1>7 DEF Launch, Quit, Exit, Tombs, server
    <2>2. \A r \in Runs : run'[r] = run[r] \/ (run'[r].step \notin {"verify", "receipt"}
                                              /\ run'[r].saw \in {0, run[r].saw})
        BY <1>7 DEF Launch, Quit, Exit, Tombs, Off, TypeOK
    <2> QED BY <2>1, <2>2, Types, StillVouched
<1>8. ASSUME NEW r \in Runs, SendPurge(r) \/ RunStops(r) PROVE Vouched'
    <2>1. UNCHANGED <<clock, map, receipt>>
        BY <1>8 DEF SendPurge, RunStops, server
    <2>2. \A q \in Runs : run'[q] = run[q] \/ (run'[q].step \notin {"verify", "receipt"}
                                              /\ run'[q].saw \in {0, run[q].saw})
        BY <1>8 DEF SendPurge, RunStops, Off, TypeOK
    <2> QED BY <2>1, <2>2, Types, StillVouched
<1>9. CASE UNCHANGED vars
    BY <1>1, <1>9 DEF vars, server
<1> QED BY <1>2, <1>3, <1>4, <1>5, <1>6, <1>7, <1>8, <1>9, RunVouched DEF Next

LEMMA VouchedHolds == Spec => [](Written /\ Vouched)
<1>1. Init => Written /\ Vouched
    <2> SUFFICES ASSUME Init PROVE Written /\ Vouched
        OBVIOUS
    <2>1. map = None /\ clock = 1 /\ (\A s \in Turns : script[s] = 0) /\ Mapped = {}
        BY DEF Init, Mapped
    <2>2. receipt.saw = 0 /\ \A r \in Runs : run[r].saw = 0 /\ run[r].step = "off"
        BY DEF Init, NoReceipt, Off
    <2> QED BY <2>1, <2>2 DEF Written, Vouched, Seen
<1>2. TypeOK /\ Owned /\ Written /\ Vouched /\ [Next]_vars => (Written /\ Vouched)'
    BY NextWritten, NextVouched
<1> QED BY <1>1, <1>2, TypeHolds, OwnedHolds, PTL DEF Spec

(* A purge takes only what the file of the receipt holds, up to the second *)
(* of that file, or what was used while the run that left the receipt was  *)
(* on its way, up to the second of the receipt, or what a turn wrote whose *)
(* use could not be recorded.                                              *)
THEOREM PurgeTakesWhatIsFiled == Spec => PurgedIsFiled
<1> DEFINE Filed == ServePurge => \A s \in Turns : script[s] # 0 /\ script'[s] = 0 =>
                      \/ Sec(script[s]) <= receipt.of
                      \/ receipt.saw < map.used /\ Sec(script[s]) <= receipt.at
                      \/ s \in stray /\ script[s] > map.used
<1>1. ASSUME TypeOK, Written, Vouched, ServePurge,
             NEW s \in Turns, script[s] # 0, script'[s] = 0
      PROVE  \/ Sec(script[s]) <= receipt.of
             \/ receipt.saw < map.used /\ Sec(script[s]) <= receipt.at
             \/ s \in stray /\ script[s] > map.used
    <2>1. receipt.at # 0 /\ Running = {} /\ ~Stale /\ s \in Mapped
        BY <1>1 DEF ServePurge, Purged
    <2>2. map # None /\ (script[s] <= map.used \/ s \in stray)
        BY <1>1, <2>1 DEF Written, Mapped
    <2>3. /\ script[s] \in Time /\ map.used \in Time /\ receipt.at \in Time /\ receipt.of \in Nat
          /\ receipt.saw \in Nat /\ map.used \in Nat /\ receipt.at \in Nat
        BY <1>1, <2>2 DEF TypeOK, Time
    <2> SUFFICES ASSUME script[s] <= map.used
                 PROVE  \/ Sec(script[s]) <= receipt.of
                        \/ receipt.saw < map.used /\ Sec(script[s]) <= receipt.at
        BY <1>1, <2>2, <2>3 DEF TypeOK, Time
    <2>4. Sec(script[s]) <= Sec(map.used) /\ Sec(script[s]) \in Nat /\ Sec(map.used) \in Nat
        BY <2>2, <2>3, SecMonotone, SecBelow
    <2>5. Sec(map.used) <= Sec(receipt.at) /\ Sec(receipt.at) <= receipt.at /\ Sec(receipt.at) \in Nat
        BY <2>1, <2>2, <2>3, <2>4, SecBelow DEF Stale
    <2>6. CASE map.used <= receipt.saw
        <3>1. Sec(map.used) <= receipt.of
            BY <1>1, <2>1, <2>2, <2>6 DEF Vouched, Seen
        <3> QED BY <2>3, <2>4, <3>1
    <2>7. CASE receipt.saw < map.used
        BY <2>3, <2>4, <2>5, <2>7
    <2> QED BY <2>3, <2>6, <2>7
<1>2. TypeOK /\ Written /\ Vouched => [Filed]_vars
    BY <1>1
<1>3. Spec => [][Filed]_vars
    BY <1>2, TypeHolds, VouchedHolds, PTL
<1> QED BY <1>3 DEF PurgedIsFiled

-----------------------------------------------------------------------------
(* A quiet chat that is deleted.                                           *)

(* A quiet delete is sent, and forgotten, when the file is gone or would    *)
(* not go.                                                                 *)
FileFirst ==
    /\ deleted = "no" => posts = {} /\ tomb = None /\ local = 0 /\ del = "no"
    /\ deleted = "quiet" /\ (posts # {} \/ tomb # None \/ del = "call" \/ local = 0)
          => file = 0 \/ spared

(* Nothing of the chat was used after the time a.                          *)
Aged(a) ==
    /\ map # None => map.used <= a
    /\ \A s \in Turns : script[s] <= a

(* All that is left of the chat is older than every time that is named for *)
(* the delete, and nothing is once the app has forgotten it.               *)
Calm ==
    /\ \A t \in Turns : turn[t] \in {"new", "over"}
    /\ \A a \in posts : Aged(a)
    /\ tomb # None => Aged(tomb.asked)
    /\ local # 0 => Aged(Sec(local))
    /\ local = 0 => map = None /\ \A s \in Turns : script[s] # 0 => s \in stray

CalmDelete == deleted = "quiet" /\ later = {} => Calm

LEMMA NextFileFirst ==
    ASSUME TypeOK, FileFirst, [Next]_vars
    PROVE  FileFirst'
<1>1. ASSUME UNCHANGED <<posts, tomb, local, file, spared>>, del' \in {del, "no"},
             deleted' = deleted PROVE FileFirst'
    BY <1>1 DEF FileFirst
<1>2. ASSUME NEW t \in Turns,
             Ask(t) \/ Refuse(t) \/ Start(t) \/ SdkInit(t) \/ Unresumable(t) \/ End(t)
      PROVE  FileFirst'
    BY <1>1, <1>2 DEF Ask, Refuse, Start, SdkInit, Unresumable, End, server, net, failed
<1>3. CASE UpdateStarts \/ UpdateEnds \/ DropSession \/ ServePurge
    BY <1>1, <1>3 DEF UpdateStarts, UpdateEnds, DropSession, ServePurge, net, failed
<1>4. ASSUME NEW a \in posts, ServeDelete(a) PROVE FileFirst'
    <2>1. deleted # "no" /\ (deleted = "quiet" => file = 0 \/ spared)
        BY DEF FileFirst
    <2>2. UNCHANGED <<file, spared, del, deleted>>
        BY <1>4 DEF ServeDelete
    <2> QED BY <2>1, <2>2 DEF FileFirst
<1>5. CASE Launch \/ Quit \/ Exit \/ Tick
    BY <1>1, <1>5 DEF Launch, Quit, Exit, Tick, server, net, failed
<1>6. CASE Save
    <2>1. UNCHANGED <<posts, tomb, local, del, deleted, spared>> /\ file # 0 /\ local = 0
        BY <1>6 DEF Save, server, net, failed
    <2> QED BY <2>1 DEF FileFirst
<1>7. CASE Delete
    <2>1. UNCHANGED <<posts, tomb, file>> /\ del' = "trash" /\ del = "no"
        BY <1>7 DEF Delete, server, net
    <2>2. CASE local = 0
        <3>1. local' # 0
            BY <1>7, <2>2 DEF Delete, Stamp, TypeOK, Time
        <3>2. deleted' = IF Quiet(clock') /\ posts = {} /\ tomb = None THEN "quiet" ELSE "used"
            BY <1>7, <2>2 DEF Delete
        <3> QED BY <2>1, <3>1, <3>2 DEF FileFirst
    <2>3. CASE local # 0
        <3>1. deleted' \in {deleted, "used"} /\ UNCHANGED <<local, spared>>
            BY <1>7, <2>3 DEF Delete
        <3> QED BY <2>1, <2>3, <3>1 DEF FileFirst
    <2> QED BY <2>2, <2>3
<1>8. CASE Trash
    <2>1. UNCHANGED <<posts, tomb, local, deleted>> /\ (file' = 0 \/ spared') /\ deleted # "no"
        BY <1>8 DEF Trash, FileGoes, FileStays, server, net, FileFirst
    <2> QED BY <2>1 DEF FileFirst
<1>9. CASE DeleteCall
    <2>1. UNCHANGED <<tomb, local, file, spared>> /\ deleted' \in {deleted, "used"} /\ deleted # "no"
        BY <1>9 DEF DeleteCall, server, failed, FileFirst
    <2>2. deleted = "quiet" => file = 0 \/ spared
        BY <1>9 DEF DeleteCall, FileFirst
    <2> QED BY <2>1, <2>2 DEF FileFirst
<1>10. CASE Tombs
    <2>1. CASE local = 0
        BY <1>1, <1>10, <2>1 DEF Tombs, server
    <2>2. CASE local # 0
        <3>1. UNCHANGED <<tomb, local, del, deleted>> /\ (file' = 0 \/ spared') /\ deleted # "no"
            BY <1>10, <2>2 DEF Tombs, FileGoes, FileStays, server, FileFirst
        <3> QED BY <3>1 DEF FileFirst
    <2> QED BY <2>1, <2>2
<1>11. ASSUME NEW r \in Runs, State(r) \/ Verify(r) \/ Receipt(r) \/ SendPurge(r) \/ RunStops(r)
       PROVE  FileFirst'
    BY <1>1, <1>11 DEF State, Verify, Receipt, SendPurge, RunStops, server, net, failed
<1>12. CASE UNCHANGED vars
    BY <1>1, <1>12 DEF vars, server, net, failed
<1> QED BY <1>2, <1>3, <1>4, <1>5, <1>6, <1>7, <1>8, <1>9, <1>10, <1>11, <1>12 DEF Next

(* A step that only removes leaves what is aged aged.                      *)
LEMMA StillAged ==
    ASSUME TypeOK, NEW a, Aged(a), a \in Nat, map' \in {map, None},
           \A s \in Turns : Thins(s)
    PROVE  Aged(a)'
<1>1. \A s \in Turns : script'[s] <= a
    BY DEF Aged, Thins
<1> QED BY <1>1 DEF Aged

(* A step that asks for nothing and only removes.                          *)
LEMMA StillCalm ==
    ASSUME TypeOK, Calm, UNCHANGED <<turn, local>>, posts' \subseteq posts, tomb' \in {tomb, None},
           map' \in {map, None}, \A s \in Turns : Thins(s)
    PROVE  Calm'
<1>1. Sec(local)' = Sec(local) /\ Sec(local) \in Nat /\ posts \subseteq Nat
    BY SecBelow DEF Sec, TypeOK, Time
<1>2. tomb # None => tomb.asked \in Nat
    BY DEF TypeOK, Time
<1>3. \A a \in posts' : Aged(a)'
    BY <1>1, StillAged DEF Calm
<1>4. tomb' # None => Aged(tomb.asked)'
    <2> SUFFICES ASSUME tomb' # None PROVE Aged(tomb.asked)'
        OBVIOUS
    <2>1. tomb' = tomb /\ Aged(tomb.asked) /\ tomb.asked \in Nat
        BY <1>2 DEF Calm
    <2>2. map' \in {map, None} /\ \A s \in Turns : script'[s] <= tomb.asked
        BY <2>1 DEF Aged, Thins
    <2> QED BY <2>1, <2>2 DEF Aged
<1>5. local' # 0 => Aged(Sec(local))'
    <2> SUFFICES ASSUME local' # 0 PROVE Aged(Sec(local))'
        OBVIOUS
    <2>1. Aged(Sec(local))
        BY DEF Calm
    <2>2. \A s \in Turns : script'[s] <= Sec(local)
        BY <1>1, <2>1 DEF Aged, Thins
    <2> QED BY <1>1, <2>1, <2>2 DEF Aged
<1>6. local' = 0 => map' = None /\ \A s \in Turns : script'[s] # 0 => s \in stray'
    BY DEF Calm, Thins
<1> QED BY <1>3, <1>4, <1>5, <1>6 DEF Calm

LEMMA ServeDeleteCalm ==
    ASSUME TypeOK, Owned, Written, Calm, NEW a \in posts, ServeDelete(a)
    PROVE  Calm'
<1> DEFINE o == Owed(a)
<1>1. o.asked \in Nat /\ o.ids \in SUBSET Turns /\ Mapped \subseteq o.ids
    <2>1. o \in [asked : Time, ids : SUBSET Turns]
        BY OwedTyped
    <2>2. Mapped \subseteq o.ids
        BY DEF Owed
    <2> QED BY <2>1, <2>2 DEF Time
<1>2. Aged(o.asked)
    <2>1. Aged(Since(a))
        BY DEF Since, Calm, Written, Aged
    <2>2. CASE tomb = None
        BY <2>1, <2>2 DEF Owed
    <2>3. CASE tomb # None
        <3>1. Since(a) \in Time /\ tomb.asked \in Time
            BY <2>3, SinceTyped DEF TypeOK
        <3>2. o.asked \in {Since(a), tomb.asked}
            BY <2>3, <3>1, MinOfTwo DEF Owed
        <3> QED BY <2>1, <2>3, <3>2 DEF Calm
    <2> QED BY <2>2, <2>3
<1>3. \A unread \in Unread : ~Reused(o, unread)
    <2>1. map # None => map.used \in Nat /\ map.used <= o.asked
        BY <1>2 DEF Aged, TypeOK, Time
    <2>2. \A s \in o.ids : script[s] \in Nat /\ script[s] <= o.asked
        BY <1>1, <1>2 DEF Aged, TypeOK, Time
    <2> HIDE DEF o
    <2>3. \A s \in o.ids : ~(script[s] > o.asked)
        BY <1>1, <2>2
    <2>4. ~(map # None /\ map.used > o.asked)
        BY <1>1, <2>1
    <2> QED BY <2>3, <2>4 DEF Reused
<1>4. Purge(o) /\ posts' \subseteq posts /\ turn' = turn
    <2>1. Running = {}
        BY DEF Calm, Running
    <2> QED BY <1>3, <2>1 DEF ServeDelete, turns
<1>5. /\ \A s \in Turns : Thins(s)
      /\ \A s \in o.ids : script'[s] = 0 \/ s \in stray'
    BY <1>1, <1>4, PurgedThins DEF Purge
<1>6. map' \in {map, None} /\ (local' = local \/ (local' = 0 /\ map' = None)) /\ tomb' \in {o, None}
    BY <1>4 DEF Purge, Told, StillOwed
<1>7. posts \subseteq Nat
    BY DEF TypeOK, Time
<1>8. \A b \in posts' : Aged(b)'
    BY <1>4, <1>5, <1>6, <1>7, StillAged DEF Calm
<1>9. \A s \in Turns : script'[s] <= o.asked
    BY <1>1, <1>2, <1>5 DEF Aged, Thins
<1>10. tomb' # None => Aged(tomb.asked)'
    <2> HIDE DEF o
    <2> QED BY <1>2, <1>6, <1>9 DEF Aged
<1>11. \A s \in Turns : script'[s] # 0 => s \in Mapped \/ s \in stray'
    <2>1. \A s \in Turns : script[s] # 0 => s \in Mapped \cup stray
        BY DEF Calm, Running, Owned, NoOrphanTranscript
    <2> QED BY <1>5, <2>1 DEF Thins
<1>12. \A s \in Turns : script'[s] # 0 => s \in stray'
    BY <1>1, <1>5, <1>11
<1>13. CASE local' = 0
    BY <1>4, <1>6, <1>8, <1>10, <1>12, <1>13 DEF Calm
<1>14. CASE local' = local /\ local' # 0
    <2>1. Aged(Sec(local)) /\ Sec(local) \in Nat /\ Sec(local)' = Sec(local)
        BY <1>14, SecBelow DEF Calm, Sec, TypeOK
    <2>2. \A s \in Turns : script'[s] <= Sec(local)
        BY <1>5, <2>1 DEF Aged, Thins
    <2>3. Aged(Sec(local))'
        BY <1>6, <2>1, <2>2 DEF Aged
    <2> QED BY <1>4, <1>8, <1>10, <1>14, <2>3 DEF Calm
<1> QED BY <1>6, <1>13, <1>14

(* What was quiet is aged.                                                 *)
LEMMA QuietIsAged ==
    ASSUME TypeOK, NEW x \in Time, Quiet(x)
    PROVE  Aged(Sec(x))
<1>1. Sec(x) \in Nat
    BY SecBelow
<1>2. \A s \in Turns : script[s] \in Nat
    BY DEF TypeOK, Time
<1>3. map # None => map.used \in Nat
    BY DEF TypeOK, Time
<1> QED BY <1>1, <1>2, <1>3 DEF Quiet, Aged

LEMMA DeleteCalm ==
    ASSUME TypeOK, CalmDelete, Delete, deleted' = "quiet"
    PROVE  Calm'
<1>1. UNCHANGED <<turn, map, script, tomb, posts, stray>> /\ clock' \in Time
    BY StampTyped DEF Delete, turns, server, net
<1>2. \A a : Aged(a) => Aged(a)'
    BY <1>1 DEF Aged
<1>3. CASE local = 0
    <2>1. Quiet(clock') /\ posts = {} /\ tomb = None /\ local' = clock'
        BY <1>3 DEF Delete
    <2>2. Sec(local)' = Sec(clock') /\ local' # 0
        BY <1>1, <2>1, Types DEF Sec, Delete, Stamp
    <2>3. Aged(Sec(clock'))
        BY <1>1, <2>1, QuietIsAged
    <2>4. Aged(Sec(local))'
        BY <1>1, <2>2, <2>3 DEF Aged
    <2> QED BY <1>1, <2>1, <2>2, <2>4 DEF Quiet, Calm
<1>4. CASE local # 0
    <2>1. deleted = "quiet" /\ later = {} /\ local' = local
        BY <1>4 DEF Delete
    <2>2. Calm /\ Sec(local)' = Sec(local)
        BY <2>1 DEF CalmDelete, Sec
    <2>3. Aged(Sec(local))'
        BY <1>1, <1>4, <2>2 DEF Calm, Aged
    <2> QED BY <1>1, <1>2, <1>4, <2>1, <2>2, <2>3 DEF Calm, Aged
<1> QED BY <1>3, <1>4

LEMMA NextCalm ==
    ASSUME TypeOK, Owned, Written, CalmDelete, [Next]_vars
    PROVE  CalmDelete'
<1> SUFFICES ASSUME deleted' = "quiet" /\ later' = {} PROVE Calm'
    BY DEF CalmDelete
<1>0. Mapped \subseteq Turns
    BY DEF Mapped, TypeOK
<1>1. ASSUME deleted = "quiet" /\ later = {}, UNCHANGED <<turn, server, local, posts, stray>>
      PROVE  Calm'
    BY <1>1, StillCalm DEF CalmDelete, server, Thins
<1>2. ASSUME NEW t \in Turns,
             Ask(t) \/ Refuse(t) \/ Start(t) \/ SdkInit(t) \/ Unresumable(t) \/ End(t)
      PROVE  Calm'
    <2>1. deleted = "quiet" /\ later = {} /\ ~Ask(t)
        BY <1>2 DEF Ask, Refuse, Start, SdkInit, Unresumable, End, Bound, Unbound
    <2>2. turn[t] \in {"new", "over"}
        BY <2>1 DEF CalmDelete, Calm
    <2> QED BY <1>2, <2>1, <2>2 DEF Refuse, Start, SdkInit, Unresumable, End
<1>3. CASE UpdateStarts \/ UpdateEnds
    BY <1>3, StillCalm DEF UpdateStarts, UpdateEnds, turns, net, failed, CalmDelete, Thins
<1>4. CASE DropSession \/ ServePurge
    <2>1. \A s \in Turns : Thins(s)
        BY <1>0, <1>4, PurgedThins DEF DropSession, ServePurge, Thins
    <2>2. map' \in {map, None} /\ UNCHANGED <<turn, tomb, local, posts, deleted, later>>
        BY <1>4 DEF DropSession, ServePurge, turns, net
    <2> QED BY <2>1, <2>2, StillCalm DEF CalmDelete
<1>5. ASSUME NEW a \in posts, ServeDelete(a) PROVE Calm'
    <2>1. UNCHANGED <<deleted, later>>
        BY <1>5 DEF ServeDelete
    <2> QED BY <1>5, <2>1, ServeDeleteCalm DEF CalmDelete
<1>6. CASE Launch \/ Quit \/ Exit \/ Save \/ Trash \/ Tick
    BY <1>1, <1>6 DEF Launch, Quit, Exit, Save, Trash, Tick, turns, net, failed
<1>7. CASE Delete
    BY <1>7, DeleteCalm
<1>8. CASE DeleteCall
    <2>1. /\ deleted = "quiet" /\ later = {} /\ UNCHANGED <<turn, local, server, stray>>
          /\ posts' = posts \cup {Sec(clock)} /\ Quiet(clock)
        BY <1>8 DEF DeleteCall, turns, failed
    <2>2. Aged(Sec(clock))
        BY <2>1, QuietIsAged DEF TypeOK
    <2>3. Sec(local)' = Sec(local)
        BY <2>1 DEF Sec
    <2> QED BY <2>1, <2>2, <2>3 DEF server, CalmDelete, Calm, Aged
<1>9. CASE Tombs
    <2>1. /\ deleted = "quiet" /\ later = {} /\ UNCHANGED <<turn, local, server, stray>>
          /\ posts' \subseteq posts \cup {Sec(local)} /\ (local = 0 => posts' = posts)
        BY <1>9 DEF Tombs, AskedAt, turns
    <2>2. Sec(local)' = Sec(local) /\ Calm
        BY <2>1 DEF Sec, CalmDelete
    <2> QED BY <2>1, <2>2 DEF server, Calm, Aged
<1>10. ASSUME NEW r \in Runs, State(r) \/ Verify(r) \/ SendPurge(r) \/ RunStops(r) PROVE Calm'
    BY <1>1, <1>10 DEF State, Verify, SendPurge, RunStops, turns, net, failed
<1>11. ASSUME NEW r \in Runs, Receipt(r) PROVE Calm'
    BY <1>11, StillCalm DEF Receipt, turns, net, failed, CalmDelete, Thins
<1>12. CASE UNCHANGED vars
    BY <1>1, <1>12 DEF vars, turns, net, failed
<1> QED BY <1>2, <1>3, <1>4, <1>5, <1>6, <1>7, <1>8, <1>9, <1>10, <1>11, <1>12 DEF Next

(* A quiet chat that was deleted is gone, file and working state, when the *)
(* app has forgotten the delete: through kills, lost answers and purges    *)
(* that fail halfway.  A file that could not be moved, and transcripts     *)
(* that could not be removed, are what may be left.                        *)
THEOREM QuietChatIsGone == Spec => []QuietDeleteGoes
<1>1. Init => FileFirst /\ CalmDelete
    BY DEF Init, FileFirst, CalmDelete
<1>2. TypeOK /\ Owned /\ Written /\ FileFirst /\ CalmDelete /\ [Next]_vars
          => (FileFirst /\ CalmDelete)'
    BY NextFileFirst, NextCalm
<1>3. FileFirst /\ CalmDelete => QuietDeleteGoes
    BY DEF FileFirst, CalmDelete, Calm, QuietDeleteGoes
<1> QED BY <1>1, <1>2, <1>3, TypeHolds, OwnedHolds, VouchedHolds, PTL DEF Spec
=============================================================================
