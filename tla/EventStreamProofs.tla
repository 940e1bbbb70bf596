-------------------------- MODULE EventStreamProofs --------------------------
(***************************************************************************)
(* Theorems about EventStream, for any readers, streams, sizes and caps.   *)
(***************************************************************************)
EXTENDS EventStream, FiniteSetTheorems, SequenceTheorems, TLAPS

(* How full the log may be: a row is kept for the marker while it is not   *)
(* written, and one for the terminal event.                                *)
Room ==
    /\ Len(log) >= 1
    /\ Len(log) <= MaxRows - (IF Has(log, "terminal") THEN 0 ELSE IF Has(log, "mark") THEN 1 ELSE 2)
    /\ ~Has(log, "terminal")
           => bytes <= MaxBytes - Reserve + (IF Has(log, "mark") THEN MarkSize ELSE 0)
    /\ \E t \in TerminalSizes \cup {0} : bytes <= MaxBytes - Reserve + MarkSize + t
    /\ cut => Has(log, "mark")

(* w[1], w[2], ... is g + 1, g + 2, ...                                   *)
Counts(w, g) == w \in Seq(Nat) /\ \A i \in 1..Len(w) : w[i] = g + i

(* A reader's frames under way are the ids between the last one it holds   *)
(* and the cursor of its stream.                                           *)
Aligned(r, s) ==
    /\ st[s] # "free"
    /\ got[r] + Len(wire[s]) = cursor[s]
    /\ Counts(wire[s], got[r])

Lined ==
    /\ \A s \in Streams : cursor[s] <= Len(log)
    /\ \A r \in Readers : got[r] <= Len(log)
    /\ \A r \in Readers : conn[r] # None => Aligned(r, conn[r])
    /\ \A r, q \in Readers : conn[r] # None /\ conn[r] = conn[q] => r = q
    /\ \A s \in Streams : st[s] = "free" => wire[s] = <<>>

Open == {s \in Streams : st[s] = "open"}

Inv == TypeOK /\ Room /\ Lined /\ ReadersCounted

-----------------------------------------------------------------------------
(* What a step does to the log: nothing, or one row that has room.         *)

Kinds == {"event", "mark", "terminal"}

NewRow(k) ==
    /\ ~Has(log, "terminal") /\ log' = Append(log, k)
    /\ \/ k = "event" /\ \E n \in EventSizes : ~Over(n) /\ bytes' = bytes + n
       \/ k = "mark" /\ ~Has(log, "mark") /\ bytes' = bytes + MarkSize
       \/ k = "terminal" /\ \E t \in TerminalSizes : bytes' = bytes + t

LogStep ==
    \/ log' = log /\ bytes' = bytes
    \/ \E k \in Kinds : NewRow(k)

LEMMA HasAppend ==
    ASSUME NEW l \in Seq(Kinds), NEW k \in Kinds, NEW x
    PROVE  Has(Append(l, k), x) <=> Has(l, x) \/ k = x
<1>1. DOMAIN l = 1..Len(l) /\ DOMAIN Append(l, k) = 1..(Len(l) + 1)
    OBVIOUS
<1>2. \A i \in 1..Len(l) : Append(l, k)[i] = l[i]
    OBVIOUS
<1>3. Append(l, k)[Len(l) + 1] = k /\ Len(l) \in Nat
    OBVIOUS
<1>4. ASSUME Has(Append(l, k), x) PROVE Has(l, x) \/ k = x
    <2>1. PICK i \in 1..(Len(l) + 1) : Append(l, k)[i] = x
        BY <1>1, <1>4 DEF Has
    <2>2. CASE i = Len(l) + 1
        BY <2>1, <2>2, <1>3
    <2>3. CASE i # Len(l) + 1
        <3>1. i \in 1..Len(l)
            BY <2>1, <2>3, <1>3
        <3> QED BY <3>1, <2>1, <1>1, <1>2 DEF Has
    <2> QED BY <2>2, <2>3
<1>5. ASSUME Has(l, x) PROVE Has(Append(l, k), x)
    <2>1. PICK i \in 1..Len(l) : l[i] = x
        BY <1>1, <1>5 DEF Has
    <2>2. i \in 1..(Len(l) + 1)
        BY <2>1, <1>3
    <2> QED BY <2>1, <2>2, <1>1, <1>2 DEF Has
<1>6. ASSUME k = x PROVE Has(Append(l, k), x)
    <2>1. Len(l) + 1 \in 1..(Len(l) + 1)
        BY <1>3
    <2> QED BY <2>1, <1>1, <1>3, <1>6 DEF Has
<1> QED BY <1>4, <1>5, <1>6

LEMMA LogGrows ==
    ASSUME TypeOK, LogStep
    PROVE  /\ log' \in Seq(Kinds) /\ bytes' \in Nat
           /\ Len(log') \in Nat /\ Len(log') >= Len(log)
<1>1. log \in Seq(Kinds) /\ bytes \in Nat
    BY DEF TypeOK, Kinds
<1>2. CASE log' = log /\ bytes' = bytes
    BY <1>1, <1>2
<1>3. ASSUME NEW k \in Kinds, NewRow(k)
      PROVE /\ log' \in Seq(Kinds) /\ bytes' \in Nat
            /\ Len(log') \in Nat /\ Len(log') >= Len(log)
    BY <1>1, <1>3, SizeAssumption DEF NewRow
<1> QED BY <1>2, <1>3 DEF LogStep

(* A row that was allowed leaves the log its room.                         *)
LEMMA RoomKept ==
    ASSUME TypeOK, Room, LogStep, cut' => cut \/ Has(log', "mark")
    PROVE  Room'
<1>0. /\ log \in Seq(Kinds) /\ bytes \in Nat /\ Len(log) \in Nat
      /\ MarkSize \in Nat /\ MaxBytes \in Nat /\ Reserve \in Nat /\ MaxRows \in Nat
      /\ TerminalSizes \subseteq Nat /\ EventSizes \subseteq Nat
    BY SizeAssumption DEF TypeOK, Kinds
<1>1. CASE log' = log /\ bytes' = bytes
    BY <1>1 DEF Room, Has
<1>2. ASSUME NEW k \in Kinds, NewRow(k) PROVE Room'
    <2>1. /\ Len(log') = Len(log) + 1
          /\ \A x \in Kinds : Has(log, x)' <=> Has(log, x) \/ k = x
        <3>1. log' = Append(log, k)
            BY <1>2 DEF NewRow
        <3>2. \A x \in Kinds : Has(Append(log, k), x) <=> Has(log, x) \/ k = x
            BY <1>0, HasAppend
        <3> QED BY <3>1, <3>2, <1>0 DEF Has
    <2>2. ~Has(log, "terminal") /\ Room
        BY <1>2 DEF NewRow
    <2>3. CASE k = "event" /\ \E n \in EventSizes : ~Over(n) /\ bytes' = bytes + n
        <3>1. /\ Has(log, "mark")' <=> Has(log, "mark")
              /\ ~Has(log, "terminal")'
            BY <2>1, <2>2, <2>3 DEF Kinds
        <3>2. /\ Len(log) + 1 <= MaxRows - 2 /\ bytes' <= MaxBytes - Reserve /\ bytes' \in Nat
            BY <2>3, <1>0 DEF Over
        <3> QED BY <3>1, <3>2, <2>1, <2>2, <1>0 DEF Room
    <2>4. CASE k = "mark" /\ ~Has(log, "mark") /\ bytes' = bytes + MarkSize
        <3>1. Has(log, "mark")' /\ ~Has(log, "terminal")'
            BY <2>1, <2>2, <2>4 DEF Kinds
        <3>2. Len(log) <= MaxRows - 2 /\ bytes <= MaxBytes - Reserve
            BY <2>2, <2>4, <1>0 DEF Room
        <3> QED BY <3>1, <3>2, <2>1, <2>2, <2>4, <1>0 DEF Room
    <2>5. CASE k = "terminal" /\ \E t \in TerminalSizes : bytes' = bytes + t
        <3>1. Has(log, "terminal")' /\ (Has(log, "mark")' <=> Has(log, "mark"))
            BY <2>1, <2>2, <2>5 DEF Kinds
        <3>2. Len(log) <= MaxRows - 1 /\ bytes <= MaxBytes - Reserve + MarkSize
            BY <2>2, <1>0 DEF Room
        <3>3. PICK t \in TerminalSizes : bytes' = bytes + t
            BY <2>5
        <3>4. t \in Nat /\ bytes' <= MaxBytes - Reserve + MarkSize + t
            BY <3>2, <3>3, <1>0
        <3>5. Len(log') >= 1 /\ Len(log') <= MaxRows
            BY <3>2, <2>1, <1>0
        <3>6. cut' => Has(log, "mark")'
            BY <3>1, <2>2 DEF Room
        <3>7. \E u \in TerminalSizes \cup {0} : bytes' <= MaxBytes - Reserve + MarkSize + u
            BY <3>4
        <3> QED BY <3>1, <3>5, <3>6, <3>7, <1>0 DEF Room
    <2> QED BY <1>2, <2>3, <2>4, <2>5 DEF NewRow
<1> QED BY <1>1, <1>2 DEF LogStep

LEMMA RepairedStep ==
    ASSUME NEW f, Repaired(f)
    PROVE  LogStep
BY DEF Repaired, Accepts, AppendRow, LogStep, NewRow, Kinds

-----------------------------------------------------------------------------
(* What a step does to the streams.  A poll sends n ids above `from`.      *)

Poll(s, from, n, rest) ==
    /\ n \in Nat /\ from + n <= Len(log')
    /\ cursor' = [cursor EXCEPT ![s] = from + n]
    /\ wire' = [wire EXCEPT ![s] = IF Listened(s)' THEN @ \o Ids(from, n) ELSE <<>>]
    /\ st' = [st EXCEPT ![s] = IF rest = 0 THEN "over" ELSE "open"]

LEMMA PollShape ==
    ASSUME TypeOK, NEW s \in Streams, NEW from \in Nat, from <= Len(log),
           NEW late, NEW readers \in Int,
           \/ Polls(s, from, late, readers)
           \/ PollThrows(s, from, readers)
    PROVE  /\ LogStep
           /\ \E n, rest \in Nat :
                  /\ Poll(s, from, n, rest) /\ rest \in {0, 1}
                  /\ held' = readers - 1 + rest
<1>1. LogStep
    BY RepairedStep DEF Polls, PollThrows, LogStep
<1>2. Len(log') \in Nat /\ Len(log') >= Len(log)
    BY <1>1, LogGrows
<1>3. Unread(from) \in Nat /\ from + Unread(from) <= Len(log')
    BY <1>2 DEF Unread, TypeOK
<1>4. CASE Polls(s, from, late, readers)
    <2>1. \E rest \in {0, 1} :
              /\ held' = readers - 1 + rest
              /\ st' = [st EXCEPT ![s] = IF rest = 0 THEN "over" ELSE "open"]
        BY <1>4 DEF Polls
    <2> QED BY <2>1, <1>1, <1>3, <1>4 DEF Polls, Poll, Sends
<1>5. CASE PollThrows(s, from, readers)
    <2>1. \E n \in 0..Unread(from) : Sends(s, from, n)
        BY <1>3, <1>5 DEF PollThrows
    <2>2. PICK n \in 0..Unread(from) : Sends(s, from, n)
        BY <2>1
    <2>3. Poll(s, from, n, 0) /\ held' = readers - 1 + 0
        BY <2>2, <1>3, <1>5 DEF PollThrows, Poll, Sends
    <2> QED BY <2>3, <1>1
<1> QED BY <1>4, <1>5

LEMMA IdsAre ==
    ASSUME NEW from \in Nat, NEW n \in Nat
    PROVE  Counts(Ids(from, n), from) /\ Len(Ids(from, n)) = n
BY DEF Ids, Counts

LEMMA Concat ==
    ASSUME NEW w, NEW v, NEW g \in Nat, Counts(w, g), Counts(v, g + Len(w))
    PROVE  Counts(w \o v, g) /\ Len(w \o v) = Len(w) + Len(v)
<1>0. /\ w \in Seq(Nat) /\ \A i \in 1..Len(w) : w[i] = g + i
      /\ v \in Seq(Nat) /\ \A i \in 1..Len(v) : v[i] = g + Len(w) + i
    BY DEF Counts
<1>1. /\ w \o v \in Seq(Nat) /\ Len(w \o v) = Len(w) + Len(v)
      /\ \A i \in 1..(Len(w) + Len(v)) : (w \o v)[i] = IF i <= Len(w) THEN w[i] ELSE v[i - Len(w)]
    BY <1>0, ConcatProperties
<1>2. ASSUME NEW i \in 1..(Len(w) + Len(v)) PROVE (w \o v)[i] = g + i
    <2>0. Len(w) \in Nat /\ Len(v) \in Nat
        BY <1>0
    <2>1. CASE i <= Len(w)
        BY <2>0, <2>1, <1>0, <1>1
    <2>2. CASE i > Len(w)
        <3>1. i - Len(w) \in 1..Len(v)
            BY <2>0, <2>2
        <3>2. v[i - Len(w)] = g + Len(w) + (i - Len(w))
            BY <3>1, <1>0
        <3> QED BY <3>2, <2>0, <2>2, <1>1
    <2> QED BY <2>0, <2>1, <2>2
<1> QED BY <1>0, <1>1, <1>2 DEF Counts

LEMMA CountsTail ==
    ASSUME NEW w \in Seq(Nat), NEW g \in Nat, w # <<>>, Counts(w, g)
    PROVE  Counts(Tail(w), g + 1)
<1>1. /\ Tail(w) \in Seq(Nat) /\ Len(Tail(w)) = Len(w) - 1 /\ Len(w) \in Nat
      /\ \A i \in 1..Len(Tail(w)) : Tail(w)[i] = w[i + 1]
    OBVIOUS
<1>2. ASSUME NEW i \in 1..Len(Tail(w)) PROVE Tail(w)[i] = g + 1 + i
    <2>1. i + 1 \in 1..Len(w) /\ Tail(w)[i] = w[i + 1]
        BY <1>1
    <2>2. w[i + 1] = g + (i + 1)
        BY <2>1 DEF Counts
    <2> QED BY <2>1, <2>2
<1> QED BY <1>1, <1>2 DEF Counts

(* The number of open streams, when one opens or stops being open.         *)
LEMMA OpenCount ==
    ASSUME TypeOK, NEW s \in Streams, NEW x \in {"free", "open", "over"},
           st' = [st EXCEPT ![s] = x]
    PROVE  /\ Cardinality(Open) \in Nat
           /\ ((x = "open") <=> (st[s] = "open")) => Cardinality(Open') = Cardinality(Open)
           /\ x = "open" /\ st[s] # "open" => Cardinality(Open') = Cardinality(Open) + 1
           /\ x # "open" /\ st[s] = "open" => Cardinality(Open') = Cardinality(Open) - 1
<1>1. IsFiniteSet(Open) /\ Cardinality(Open) \in Nat
    BY ReaderAssumption, FS_Subset, FS_CardinalityType DEF Open
<1>2. CASE (x = "open") <=> (st[s] = "open")
    <2>1. Open' = Open
        BY <1>2 DEF Open, TypeOK
    <2> QED BY <2>1, <1>1, <1>2
<1>3. CASE x = "open" /\ st[s] # "open"
    <2>1. Open' = Open \cup {s} /\ s \notin Open
        BY <1>3 DEF Open, TypeOK
    <2> QED BY <2>1, <1>1, <1>3, FS_AddElement
<1>4. CASE x # "open" /\ st[s] = "open"
    <2>1. Open' = Open \ {s} /\ s \in Open
        BY <1>4 DEF Open, TypeOK
    <2> QED BY <2>1, <1>1, <1>4, FS_RemoveElement
<1> QED BY <1>2, <1>3, <1>4



-----------------------------------------------------------------------------
(* A poll keeps readers and streams in line.                               *)

LEMMA PollKeepsLine ==
    ASSUME TypeOK, Lined, LogStep,
           NEW s \in Streams, NEW from \in Nat, NEW n, NEW rest \in {0, 1},
           Poll(s, from, n, rest),
           conn' \in [Readers -> Streams \cup {None}], got' = got,
           \A r \in Readers : conn'[r] # s => conn'[r] = conn[r],
           \A r \in Readers : conn'[r] = s =>
               got[r] + Len(wire[s]) = from /\ Counts(wire[s], got[r]),
           \A r, q \in Readers : conn'[r] = s /\ conn'[q] = s => r = q
    PROVE  /\ Lined'
           /\ st' \in [Streams -> {"free", "open", "over"}]
           /\ cursor' \in [Streams -> Nat] /\ wire' \in [Streams -> Seq(Nat)]
<1>0. /\ Len(log') \in Nat /\ Len(log) \in Nat /\ Len(log') >= Len(log)
      /\ n \in Nat /\ from + n \in Nat /\ from + n <= Len(log')
    BY LogGrows DEF Poll, TypeOK
<1>1. /\ cursor' = [cursor EXCEPT ![s] = from + n]
      /\ wire' = [wire EXCEPT ![s] = IF Listened(s)' THEN @ \o Ids(from, n) ELSE <<>>]
      /\ st' = [st EXCEPT ![s] = IF rest = 0 THEN "over" ELSE "open"]
    BY DEF Poll
<1>2. Counts(Ids(from, n), from) /\ Len(Ids(from, n)) = n /\ Ids(from, n) \in Seq(Nat)
    BY <1>0, IdsAre DEF Counts
<1>3. wire[s] \in Seq(Nat) /\ wire[s] \o Ids(from, n) \in Seq(Nat) /\ <<>> \in Seq(Nat)
    BY <1>2 DEF TypeOK
<1>4. /\ st' \in [Streams -> {"free", "open", "over"}]
      /\ cursor' \in [Streams -> Nat] /\ wire' \in [Streams -> Seq(Nat)]
    BY <1>0, <1>1, <1>3 DEF TypeOK
<1>5. \A t \in Streams : t # s =>
          cursor'[t] = cursor[t] /\ wire'[t] = wire[t] /\ st'[t] = st[t]
    BY <1>1 DEF TypeOK
<1>6. /\ cursor'[s] = from + n /\ st'[s] # "free"
      /\ Listened(s)' => wire'[s] = wire[s] \o Ids(from, n)
    BY <1>1 DEF TypeOK
<1>7. ASSUME NEW r \in Readers, conn'[r] # None PROVE Aligned(r, conn[r])'
    <2>1. CASE conn'[r] = s
        <3>1. /\ got[r] \in Nat /\ Listened(s)' /\ got[r] + Len(wire[s]) = from
              /\ Counts(wire[s], got[r])
            BY <2>1 DEF TypeOK, Listened
        <3>2. /\ Counts(wire[s] \o Ids(from, n), got[r])
              /\ Len(wire[s] \o Ids(from, n)) = Len(wire[s]) + Len(Ids(from, n))
            BY <3>1, <1>2, Concat
        <3>3. Len(wire[s]) \in Nat
            BY <1>3
        <3>4. wire'[s] = wire[s] \o Ids(from, n) /\ got'[r] = got[r]
            BY <3>1, <1>6
        <3>5. got'[r] + Len(wire'[s]) = cursor'[s]
            <4>1. Len(wire'[s]) = Len(wire[s]) + n
                BY <3>2, <3>4, <1>2
            <4>2. cursor'[s] = from + n /\ got'[r] = got[r]
                BY <3>4, <1>6
            <4>3. got[r] + (Len(wire[s]) + n) = from + n
                BY <3>1, <3>3, <1>0
            <4> QED BY <4>1, <4>2, <4>3
        <3>6. Counts(wire'[s], got'[r])
            BY <3>2, <3>4
        <3> QED BY <3>5, <3>6, <2>1, <1>6 DEF Aligned
    <2>2. CASE conn'[r] # s
        <3>1. conn'[r] = conn[r] /\ conn[r] \in Streams /\ conn[r] # s /\ Aligned(r, conn[r])
            BY <2>2, <1>7 DEF Lined, TypeOK
        <3> QED BY <3>1, <1>5 DEF Aligned
    <2> QED BY <2>1, <2>2
<1>8. \A t \in Streams : cursor'[t] <= Len(log') /\ (st'[t] = "free" => wire'[t] = <<>>)
    BY <1>0, <1>5, <1>6 DEF Lined, TypeOK
<1>9. \A r, q \in Readers : conn'[r] # None /\ conn'[r] = conn'[q] => r = q
    BY DEF Lined
<1>10. \A r \in Readers : got'[r] <= Len(log')
    BY <1>0 DEF Lined, TypeOK
<1> QED BY <1>4, <1>7, <1>8, <1>9, <1>10 DEF Lined

(* A step that leaves the streams alone.                                   *)
LEMMA LogOnly ==
    ASSUME Inv, LogStep, UNCHANGED streamVars, cut' => cut \/ Has(log', "mark"),
           known' \in BOOLEAN, ended' \in BOOLEAN, cut' \in BOOLEAN, up' \in BOOLEAN,
           faults' = faults
    PROVE  Inv'
<1>1. Len(log') \in Nat /\ Len(log') >= Len(log) /\ log' \in Seq(Kinds) /\ bytes' \in Nat
    BY LogGrows DEF Inv
<1>2. Len(log) \in Nat
    BY DEF Inv, TypeOK
<1>3. TypeOK'
    BY <1>1 DEF Inv, TypeOK, streamVars, Kinds
<1>4. Room'
    BY RoomKept DEF Inv
<1>5. Lined'
    BY <1>1, <1>2 DEF Inv, TypeOK, Lined, Aligned, streamVars
<1>6. ReadersCounted'
    BY DEF Inv, ReadersCounted, streamVars
<1> QED BY <1>3, <1>4, <1>5, <1>6 DEF Inv

(* A step of the streams alone.                                            *)
LEMMA StreamOnly ==
    ASSUME Inv, UNCHANGED logVars
    PROVE  Room' /\ LogStep
BY DEF Inv, Room, Has, LogStep, logVars

-----------------------------------------------------------------------------
LEMMA InvInit == Init => Inv
<1> SUFFICES ASSUME Init PROVE Inv
    OBVIOUS
<1>1. /\ log \in Seq({"event", "mark", "terminal"}) /\ Len(log) = 1
      /\ ~Has(log, "terminal") /\ ~Has(log, "mark")
    BY DEF Init, Has
<1>2. bytes \in Nat /\ bytes <= MaxBytes - Reserve
    BY SizeAssumption DEF Init
<1>3. TypeOK
    <2>1. <<>> \in Seq(Nat) /\ 0 \in 0..MaxFaults
        BY ReaderAssumption
    <2> QED BY <2>1, <1>1, <1>2 DEF Init, TypeOK
<1>4. Room
    BY <1>1, <1>2, SizeAssumption DEF Init, Room
<1>5. Lined
    BY <1>1, ReaderAssumption DEF Init, Lined
<1>6. ReadersCounted
    <2>1. {s \in Streams : st[s] = "open"} = {}
        BY DEF Init
    <2>2. Cardinality({}) = 0
        BY FS_EmptySet
    <2>3. held = 0 /\ 0 <= MaxReaders
        BY ReaderAssumption DEF Init
    <2> QED BY <2>1, <2>2, <2>3 DEF ReadersCounted
<1> QED BY <1>3, <1>4, <1>5, <1>6 DEF Inv

LEMMA AttachKeeps ==
    ASSUME Inv, NEW r \in Readers, NEW s \in Streams, Attach(r, s)
    PROVE  Inv' /\ LogStep
<1>0. TypeOK /\ Lined /\ ReadersCounted /\ None \notin Streams /\ MaxReaders \in Nat
    BY ReaderAssumption DEF Inv
<1>1. /\ got[r] \in Nat /\ got[r] <= Len(log) /\ held \in Nat /\ held + 1 \in Int
      /\ st[s] = "free" /\ wire[s] = <<>> /\ held < MaxReaders
    BY <1>0 DEF Attach, TypeOK, Lined
<1>r. PICK readers \in Int : readers = held + 1
    BY <1>1
<1>2. \E late \in BOOLEAN :
          Polls(s, got[r], late, readers) \/ PollThrows(s, got[r], readers)
    <2>1. \E late \in BOOLEAN :
              Polls(s, got[r], late, held + 1) \/ PollThrows(s, got[r], held + 1)
        BY Zenon DEF Attach
    <2> QED BY <2>1, <1>r, Zenon
<1>3. /\ LogStep
      /\ \E n, rest \in Nat :
             Poll(s, got[r], n, rest) /\ rest \in {0, 1} /\ held' = readers - 1 + rest
    BY <1>0, <1>1, <1>2, PollShape
<1>4. PICK n \in Nat, rest \in {0, 1} :
          Poll(s, got[r], n, rest) /\ held' = readers - 1 + rest
    BY <1>3
<1>5. /\ conn' = [conn EXCEPT ![r] = s] /\ got' = got
      /\ conn' \in [Readers -> Streams \cup {None}]
      /\ known' = known /\ ended' = ended /\ cut' = cut /\ up' = up
      /\ faults' \in 0..MaxFaults
    <2>1. /\ conn' = [conn EXCEPT ![r] = s] /\ got' = got
          /\ known' = known /\ ended' = ended /\ cut' = cut /\ up' = up
          /\ faults' = faults \/ Fault
        BY DEF Attach
    <2>2. faults' \in 0..MaxFaults
        BY <2>1, <1>0, ReaderAssumption DEF TypeOK, Fault
    <2>3. conn' \in [Readers -> Streams \cup {None}]
        BY <2>1, <1>0 DEF TypeOK
    <2> QED BY <2>1, <2>2, <2>3
<1>6. \A q \in Readers : conn[q] # s
    BY <1>0, <1>1 DEF Lined, Aligned
<1>7. \A q \in Readers : conn'[q] = s <=> q = r
    BY <1>5, <1>6, <1>0 DEF TypeOK
<1>8. \A q \in Readers : conn'[q] # s => conn'[q] = conn[q]
    BY <1>5, <1>7, <1>0 DEF TypeOK
<1>9. Counts(wire[s], got[r]) /\ got[r] + Len(wire[s]) = got[r]
    BY <1>1 DEF Counts
<1>10. /\ Lined' /\ st' \in [Streams -> {"free", "open", "over"}]
       /\ cursor' \in [Streams -> Nat] /\ wire' \in [Streams -> Seq(Nat)]
    BY <1>0, <1>1, <1>3, <1>2, <1>4, <1>5, <1>7, <1>8, <1>9, PollKeepsLine
<1>11. ReadersCounted'
    <2>1. /\ st' = [st EXCEPT ![s] = IF rest = 0 THEN "over" ELSE "open"]
          /\ held' = held + rest
        BY <1>1, <1>r, <1>4 DEF Poll
    <2>2. held = Cardinality(Open) /\ Cardinality(Open) \in Nat
        BY <1>0, <1>1 DEF ReadersCounted, Open
    <2>3. CASE rest = 0
        <3>1. st' = [st EXCEPT ![s] = "over"]
            BY <2>1, <2>3
        <3>2. Cardinality(Open') = Cardinality(Open)
            BY <3>1, <1>0, <1>1, OpenCount
        <3> QED BY <3>2, <2>1, <2>2, <2>3, <1>1, <1>0 DEF ReadersCounted, Open
    <2>4. CASE rest = 1
        <3>1. st' = [st EXCEPT ![s] = "open"]
            BY <2>1, <2>4
        <3>2. Cardinality(Open') = Cardinality(Open) + 1
            BY <3>1, <1>0, <1>1, OpenCount
        <3> QED BY <3>2, <2>1, <2>2, <2>4, <1>1, <1>0 DEF ReadersCounted, Open
    <2> QED BY <2>3, <2>4
<1>12. TypeOK'
    <2>1. log' \in Seq(Kinds) /\ bytes' \in Nat
        BY <1>0, <1>3, LogGrows
    <2> QED BY <2>1, <1>0, <1>1, <1>r, <1>4, <1>5, <1>10 DEF TypeOK, Kinds
<1>13. Room'
    <2>1. cut' => cut \/ Has(log', "mark")
        BY <1>5
    <2> QED BY <2>1, <1>3, RoomKept DEF Inv
<1> QED BY <1>3, <1>10, <1>11, <1>12, <1>13 DEF Inv

LEMMA TickKeeps ==
    ASSUME Inv, NEW s \in Streams, Tick(s) \/ TickThrows(s)
    PROVE  Inv' /\ LogStep
<1>0. TypeOK /\ Lined /\ ReadersCounted /\ None \notin Streams /\ MaxReaders \in Nat
    BY ReaderAssumption DEF Inv
<1>1. /\ cursor[s] \in Nat /\ cursor[s] <= Len(log) /\ held \in Nat /\ held \in Int
      /\ st[s] = "open"
    BY <1>0 DEF Tick, TickThrows, TypeOK, Lined
<1>2. \E late \in BOOLEAN :
          \/ Polls(s, cursor[s], late, held)
          \/ PollThrows(s, cursor[s], held)
    BY DEF Tick, TickThrows
<1>3. /\ LogStep
      /\ \E n, rest \in Nat :
             Poll(s, cursor[s], n, rest) /\ rest \in {0, 1} /\ held' = held - 1 + rest
    BY <1>0, <1>1, <1>2, PollShape
<1>4. PICK n \in Nat, rest \in {0, 1} :
          Poll(s, cursor[s], n, rest) /\ held' = held - 1 + rest
    BY <1>3
<1>5. /\ conn' = conn /\ got' = got
      /\ conn' \in [Readers -> Streams \cup {None}]
      /\ known' = known /\ ended' = ended /\ cut' = cut /\ up' = up
      /\ faults' \in 0..MaxFaults
    BY <1>0, ReaderAssumption DEF Tick, TickThrows, TypeOK, Fault
<1>6. \A q \in Readers : conn'[q] = s =>
          got[q] + Len(wire[s]) = cursor[s] /\ Counts(wire[s], got[q])
    BY <1>0, <1>5 DEF Lined, Aligned
<1>7. \A q, r \in Readers : conn'[q] = s /\ conn'[r] = s => q = r
    BY <1>0, <1>5 DEF Lined
<1>8. \A q \in Readers : conn'[q] # s => conn'[q] = conn[q]
    BY <1>5
<1>9. Poll(s, cursor[s], n, rest)
    BY <1>4
<1>10. /\ Lined' /\ st' \in [Streams -> {"free", "open", "over"}]
       /\ cursor' \in [Streams -> Nat] /\ wire' \in [Streams -> Seq(Nat)]
    BY <1>0, <1>1, <1>3, <1>9, <1>5, <1>6, <1>7, <1>8, PollKeepsLine
<1>11. ReadersCounted'
    <2>1. /\ st' = [st EXCEPT ![s] = IF rest = 0 THEN "over" ELSE "open"]
          /\ held' = held - 1 + rest
        BY <1>1, <1>4 DEF Poll
    <2>2. held = Cardinality(Open) /\ Cardinality(Open) \in Nat /\ Open # {}
        BY <1>0, <1>1 DEF ReadersCounted, Open
    <2>3. CASE rest = 0
        <3>1. st' = [st EXCEPT ![s] = "over"]
            BY <2>1, <2>3
        <3>2. Cardinality(Open') = Cardinality(Open) - 1
            BY <3>1, <1>0, <1>1, OpenCount
        <3> QED BY <3>2, <2>1, <2>2, <2>3, <1>1, <1>0 DEF ReadersCounted, Open
    <2>4. CASE rest = 1
        <3>1. st' = [st EXCEPT ![s] = "open"]
            BY <2>1, <2>4
        <3>2. Cardinality(Open') = Cardinality(Open)
            BY <3>1, <1>0, <1>1, OpenCount
        <3> QED BY <3>2, <2>1, <2>2, <2>4, <1>1, <1>0 DEF ReadersCounted, Open
    <2> QED BY <2>3, <2>4
<1>12. TypeOK'
    <2>1. log' \in Seq(Kinds) /\ bytes' \in Nat
        BY <1>0, <1>3, LogGrows
    <2>2. held' \in Nat
        <3>1. IsFiniteSet(Open')
            BY FS_Subset, ReaderAssumption, <1>10 DEF Open
        <3> QED BY <3>1, <1>11, FS_CardinalityType DEF ReadersCounted, Open
    <2> QED BY <2>1, <2>2, <1>0, <1>5, <1>10 DEF TypeOK, Kinds
<1>13. Room'
    <2>1. cut' => cut \/ Has(log', "mark")
        BY <1>5
    <2> QED BY <2>1, <1>3, RoomKept DEF Inv
<1> QED BY <1>3, <1>10, <1>11, <1>12, <1>13 DEF Inv

(* A reader takes a frame, the end of its response or a lost connection.   *)
LEMMA ReaderKeeps ==
    ASSUME Inv, NEW r \in Readers, Receive(r) \/ SeesEnd(r) \/ Drop(r)
    PROVE  Inv' /\ LogStep
<1>0. TypeOK /\ Lined /\ ReadersCounted /\ None \notin Streams
    BY ReaderAssumption DEF Inv
<1>1. /\ UNCHANGED logVars /\ up' = up /\ held' = held /\ st' = st /\ cursor' = cursor
      /\ faults' \in 0..MaxFaults
    BY <1>0, ReaderAssumption DEF Receive, SeesEnd, Drop, Fault, TypeOK, logVars
<1>2. Room' /\ LogStep
    BY <1>1, StreamOnly
<1>3. ReadersCounted'
    BY <1>0, <1>1 DEF ReadersCounted
<1>4. log' = log /\ Len(log) \in Nat
    BY <1>0, <1>1 DEF logVars, TypeOK
<1>5. /\ conn[r] \in Streams /\ conn[r] # None /\ Aligned(r, conn[r])
      /\ wire[conn[r]] \in Seq(Nat) /\ got[r] \in Nat /\ cursor[conn[r]] <= Len(log)
    BY <1>0 DEF Receive, SeesEnd, Drop, Lined, TypeOK
<1>6. CASE Receive(r)
    <2>1. /\ got' = [got EXCEPT ![r] = Head(wire[conn[r]])]
          /\ wire' = [wire EXCEPT ![conn[r]] = Tail(@)]
          /\ conn' = conn /\ wire[conn[r]] # <<>>
        BY <1>6 DEF Receive
    <2>2. /\ Len(wire[conn[r]]) \in Nat /\ Len(wire[conn[r]]) >= 1
          /\ Head(wire[conn[r]]) = wire[conn[r]][1]
          /\ Tail(wire[conn[r]]) \in Seq(Nat)
          /\ Len(Tail(wire[conn[r]])) = Len(wire[conn[r]]) - 1
          /\ \A k \in 1..Len(Tail(wire[conn[r]])) : Tail(wire[conn[r]])[k] = wire[conn[r]][k + 1]
        BY <1>5, <2>1
    <2>3. Counts(wire[conn[r]], got[r]) /\ got[r] + Len(wire[conn[r]]) = cursor[conn[r]]
        BY <1>5 DEF Aligned
    <2>4. Head(wire[conn[r]]) = got[r] + 1 /\ got[r] + 1 <= Len(log)
        BY <2>2, <2>3, <1>4, <1>5 DEF Counts
    <2>5. Counts(Tail(wire[conn[r]]), got[r] + 1)
        BY <2>1, <2>3, <1>5, CountsTail
    <2>6. /\ got'[r] = got[r] + 1 /\ wire'[conn[r]] = Tail(wire[conn[r]])
          /\ \A q \in Readers : q # r => got'[q] = got[q]
          /\ \A t \in Streams : t # conn[r] => wire'[t] = wire[t]
        BY <1>0, <1>5, <2>1, <2>4 DEF TypeOK
    <2>7. TypeOK'
        BY <1>0, <1>1, <1>4, <1>5, <2>1, <2>2, <2>4 DEF TypeOK, logVars
    <2>8. ASSUME NEW q \in Readers, conn'[q] # None PROVE Aligned(q, conn[q])'
        <3>1. CASE q = r
            <4>1. got'[r] + Len(wire'[conn[r]]) = cursor[conn[r]]
                BY <2>2, <2>3, <2>6, <1>5
            <4> QED BY <4>1, <3>1, <2>1, <2>5, <2>6, <1>1, <1>5 DEF Aligned
        <3>2. CASE q # r
            <4>1. conn[q] # conn[r] /\ conn[q] \in Streams /\ Aligned(q, conn[q])
                BY <3>2, <2>1, <2>8, <1>0, <1>5 DEF Lined, TypeOK
            <4> QED BY <4>1, <3>2, <2>1, <2>6, <1>1 DEF Aligned
        <3> QED BY <3>1, <3>2
    <2>9. \A q \in Readers : got'[q] <= Len(log')
        BY <2>4, <2>6, <1>0, <1>4 DEF Lined
    <2>10. \A t \in Streams : st[t] = "free" => wire'[t] = <<>>
        BY <2>6, <1>0, <1>5 DEF Lined, Aligned
    <2> QED BY <1>0, <1>1, <1>2, <1>3, <1>4, <2>1, <2>7, <2>8, <2>9, <2>10 DEF Inv, Lined
<1>7. CASE SeesEnd(r) \/ Drop(r)
    <2>1. /\ conn' = [conn EXCEPT ![r] = None] /\ got' = got
          /\ \A q \in Readers : q # r => conn'[q] = conn[q]
          /\ conn'[r] = None
        BY <1>7, <1>0 DEF SeesEnd, Drop, TypeOK
    <2>2. /\ wire' \in [Streams -> Seq(Nat)]
          /\ \A t \in Streams : t # conn[r] => wire'[t] = wire[t]
          /\ wire'[conn[r]] = wire[conn[r]] \/ wire'[conn[r]] = <<>>
        <3>1. wire \in [Streams -> Seq(Nat)] /\ <<>> \in Seq(Nat)
            BY <1>0 DEF TypeOK
        <3>2. wire' = wire \/ wire' = [wire EXCEPT ![conn[r]] = <<>>]
            BY <1>7 DEF SeesEnd, Drop
        <3>3. CASE wire' = wire
            BY <3>1, <3>3
        <3>4. CASE wire' = [wire EXCEPT ![conn[r]] = <<>>]
            BY <3>1, <3>4, <1>5
        <3> QED BY <3>2, <3>3, <3>4
    <2>3. TypeOK'
        BY <1>0, <1>1, <1>4, <2>1, <2>2 DEF TypeOK, logVars
    <2>4. ASSUME NEW q \in Readers, conn'[q] # None PROVE Aligned(q, conn[q])'
        <3>1. q # r /\ conn'[q] = conn[q] /\ conn[q] # conn[r] /\ conn[q] \in Streams
              /\ Aligned(q, conn[q])
            BY <2>1, <2>4, <1>0, <1>5 DEF Lined, TypeOK
        <3> QED BY <3>1, <2>1, <2>2, <1>1 DEF Aligned
    <2>5. \A q, p \in Readers : conn'[q] # None /\ conn'[q] = conn'[p] => q = p
        BY <2>1, <1>0 DEF Lined
    <2>6. \A t \in Streams : st[t] = "free" => wire'[t] = <<>>
        BY <2>2, <1>0 DEF Lined
    <2> QED BY <1>0, <1>1, <1>2, <1>3, <1>4, <2>1, <2>3, <2>4, <2>5, <2>6 DEF Inv, Lined
<1> QED BY <1>2, <1>6, <1>7

LEMMA CloseKeeps ==
    ASSUME Inv, NEW s \in Streams, Close(s)
    PROVE  Inv' /\ LogStep
<1>0. TypeOK /\ Lined /\ ReadersCounted /\ MaxReaders \in Nat
    BY ReaderAssumption DEF Inv
<1>1. /\ UNCHANGED <<logVars, up, conn, got, faults>>
      /\ st' = [st EXCEPT ![s] = "free"]
      /\ cursor' = [cursor EXCEPT ![s] = 0] /\ wire' = [wire EXCEPT ![s] = <<>>]
      /\ held' = IF st[s] = "open" THEN held - 1 ELSE held
      /\ \A r \in Readers : conn[r] # s
    BY DEF Close, Listened
<1>2. Room' /\ LogStep
    BY <1>1, StreamOnly
<1>3. held = Cardinality(Open) /\ Cardinality(Open) \in Nat /\ held <= MaxReaders
    BY <1>0, <1>1, OpenCount DEF ReadersCounted, Open
<1>4. /\ st[s] = "open" => Cardinality(Open') = Cardinality(Open) - 1
      /\ st[s] # "open" => Cardinality(Open') = Cardinality(Open)
    BY <1>0, <1>1, OpenCount
<1>5. ReadersCounted'
    BY <1>0, <1>1, <1>3, <1>4 DEF ReadersCounted, Open
<1>6. st' \in [Streams -> {"free", "open", "over"}] /\ held' \in Nat
    <2>1. IsFiniteSet(Open')
        BY FS_Subset, ReaderAssumption DEF Open
    <2> QED BY <2>1, <1>0, <1>1, <1>5, FS_CardinalityType DEF ReadersCounted, Open, TypeOK
<1>7. TypeOK'
    <2>1. <<>> \in Seq(Nat)
        OBVIOUS
    <2> QED BY <2>1, <1>0, <1>1, <1>6 DEF TypeOK, logVars
<1>8. \A t \in Streams : t # s =>
          cursor'[t] = cursor[t] /\ wire'[t] = wire[t] /\ st'[t] = st[t]
    BY <1>0, <1>1 DEF TypeOK
<1>9. cursor'[s] = 0 /\ wire'[s] = <<>> /\ Len(log) \in Nat /\ log' = log
    BY <1>0, <1>1 DEF TypeOK, logVars
<1>10. ASSUME NEW r \in Readers, conn'[r] # None PROVE Aligned(r, conn[r])'
    <2>1. conn[r] # s /\ conn[r] \in Streams /\ Aligned(r, conn[r])
        BY <1>0, <1>1, <1>10 DEF Lined, TypeOK
    <2> QED BY <2>1, <1>1, <1>8 DEF Aligned
<1>11. Lined'
    BY <1>0, <1>1, <1>8, <1>9, <1>10 DEF Lined
<1> QED BY <1>2, <1>5, <1>7, <1>11 DEF Inv

LEMMA CrashKeeps ==
    ASSUME Inv, Crash
    PROVE  Inv' /\ LogStep
<1>0. TypeOK /\ Lined /\ MaxReaders \in Nat /\ MaxFaults \in Nat
    BY ReaderAssumption DEF Inv
<1>1. Room' /\ LogStep
    BY StreamOnly DEF Crash
<1>2. ReadersCounted'
    <2>1. {s \in Streams : st[s] = "open"}' = {} /\ held' = 0
        BY DEF Crash
    <2>2. Cardinality({}) = 0
        BY FS_EmptySet
    <2> QED BY <2>1, <2>2, <1>0 DEF ReadersCounted
<1>3. TypeOK'
    <2>1. <<>> \in Seq(Nat)
        OBVIOUS
    <2>2. /\ held' \in Nat /\ up' \in BOOLEAN /\ got' = got /\ UNCHANGED logVars
        BY DEF Crash
    <2>4. faults' \in 0..MaxFaults
        BY <1>0 DEF Crash, TypeOK, Fault
    <2>3. /\ st' \in [Streams -> {"free", "open", "over"}] /\ cursor' \in [Streams -> Nat]
          /\ wire' \in [Streams -> Seq(Nat)] /\ conn' \in [Readers -> Streams \cup {None}]
        BY <2>1 DEF Crash
    <2> QED BY <2>2, <2>3, <2>4, <1>0 DEF TypeOK, logVars
<1>4. Lined'
    <2>1. log' = log /\ got' = got /\ Len(log) \in Nat
        BY <1>0 DEF Crash, logVars, TypeOK
    <2>2. \A r \in Readers : conn'[r] = None
        BY DEF Crash
    <2>3. \A s \in Streams : cursor'[s] = 0 /\ wire'[s] = <<>>
        BY DEF Crash
    <2> QED BY <2>1, <2>2, <2>3, <1>0 DEF Lined
<1> QED BY <1>1, <1>2, <1>3, <1>4 DEF Inv

(* The steps that write the log, or only say that the command ended.       *)
LEMMA WriterKeeps ==
    ASSUME Inv,
           \/ \E n \in EventSizes : Emit(n)
           \/ \E t \in TerminalSizes : EndTold(t)
           \/ EndUntold \/ Backfill \/ Purge \/ Boot
    PROVE  Inv' /\ LogStep
<1>0. TypeOK
    BY DEF Inv
<1>1. /\ UNCHANGED streamVars /\ faults' = faults
      /\ known' \in BOOLEAN /\ ended' \in BOOLEAN /\ cut' \in BOOLEAN /\ up' \in BOOLEAN
    BY <1>0 DEF Emit, EndTold, EndUntold, Backfill, Purge, Boot, TypeOK
<1>2. LogStep
    <2>1. ASSUME NEW n \in EventSizes, Emit(n) PROVE LogStep
        BY <2>1 DEF Emit, Accepts, AppendRow, LogStep, NewRow, Kinds
    <2>2. ASSUME NEW t \in TerminalSizes, EndTold(t) PROVE LogStep
        BY <2>2 DEF EndTold, Accepts, AppendRow, LogStep, NewRow, Kinds
    <2>3. CASE EndUntold \/ Purge
        BY <2>3 DEF EndUntold, Purge, LogStep
    <2>4. CASE Backfill \/ Boot
        BY <2>4, RepairedStep DEF Backfill, Boot
    <2> QED BY <2>1, <2>2, <2>3, <2>4
<1>3. cut' => cut \/ Has(log', "mark")
    <2>1. ASSUME NEW n \in EventSizes, Emit(n) PROVE cut' => cut \/ Has(log', "mark")
        <3>1. CASE Over(n) /\ AppendRow("mark", MarkSize)
            <4>1. log' = Append(log, "mark") /\ log \in Seq(Kinds)
                BY <3>1, <1>0 DEF AppendRow, TypeOK, Kinds
            <4> QED BY <4>1, HasAppend DEF Kinds
        <3>2. CASE Has(log, "mark") /\ UNCHANGED <<log, bytes>>
            BY <3>2
        <3> QED BY <2>1, <3>1, <3>2 DEF Emit
    <2>2. CASE (\E t \in TerminalSizes : EndTold(t)) \/ EndUntold \/ Backfill \/ Purge \/ Boot
        BY <2>2 DEF EndTold, EndUntold, Backfill, Purge, Boot
    <2> QED BY <2>1, <2>2
<1> QED BY <1>1, <1>2, <1>3, LogOnly

LEMMA InvStep == Inv /\ [Next]_vars => Inv' /\ LogStep
<1> SUFFICES ASSUME Inv, [Next]_vars PROVE Inv' /\ LogStep
    OBVIOUS
<1>1. CASE \/ \E n \in EventSizes : Emit(n)
           \/ \E t \in TerminalSizes : EndTold(t)
           \/ EndUntold \/ Backfill \/ Purge \/ Boot
    BY <1>1, WriterKeeps
<1>2. CASE Crash
    BY <1>2, CrashKeeps
<1>3. ASSUME NEW s \in Streams, Tick(s) \/ TickThrows(s) PROVE Inv' /\ LogStep
    BY <1>3, TickKeeps
<1>4. ASSUME NEW s \in Streams, Close(s) PROVE Inv' /\ LogStep
    BY <1>4, CloseKeeps
<1>5. ASSUME NEW r \in Readers, Receive(r) \/ SeesEnd(r) \/ Drop(r) PROVE Inv' /\ LogStep
    BY <1>5, ReaderKeeps
<1>6. ASSUME NEW r \in Readers, NEW s \in Streams, Attach(r, s) PROVE Inv' /\ LogStep
    BY <1>6, AttachKeeps
<1>7. CASE UNCHANGED vars
    <2>1. LogStep /\ UNCHANGED streamVars /\ faults' = faults /\ known' = known
          /\ ended' = ended /\ cut' = cut /\ up' = up
        BY <1>7 DEF vars, logVars, LogStep
    <2>2. TypeOK
        BY DEF Inv
    <2> QED BY <2>1, <2>2, LogOnly DEF TypeOK
<1> QED BY <1>1, <1>2, <1>3, <1>4, <1>5, <1>6, <1>7 DEF Next

(* The inductive invariant: types, the log's room, and every stream in     *)
(* line with its reader.                                                   *)
THEOREM InvHolds == Spec => []Inv
BY InvInit, InvStep, PTL DEF Spec

(* Every reachable state is well typed.                                    *)
THEOREM TypeCorrect == Spec => []TypeOK
<1>1. Inv => TypeOK
    BY DEF Inv
<1> QED BY <1>1, InvHolds, PTL

(* The log stays within its caps though marker and terminal event are      *)
(* always accepted (appendEvent's two reserved rows).                      *)
THEOREM LogBoundedHolds == Spec => []LogBounded
<1>1. Inv => LogBounded
    <2> SUFFICES ASSUME Inv PROVE LogBounded
        OBVIOUS
    <2>1. Len(log) \in Nat /\ MaxRows \in Nat
        BY SizeAssumption DEF Inv, TypeOK
    <2> QED BY <2>1 DEF Inv, Room, LogBounded
<1> QED BY <1>1, InvHolds, PTL

(* A refused event always shows in the log.                                *)
THEOREM CutIsSeenHolds == Spec => []CutIsSeen
<1>1. Inv => CutIsSeen
    BY DEF Inv, Room, CutIsSeen
<1> QED BY <1>1, InvHolds, PTL

(* readersByUser counts the open streams and respects the limit.           *)
THEOREM ReadersCountedHolds == Spec => []ReadersCounted
<1>1. Inv => ReadersCounted
    BY DEF Inv
<1> QED BY <1>1, InvHolds, PTL

-----------------------------------------------------------------------------
(* Only Receive changes what a reader holds, and it takes the next id.     *)
LEMMA GotStep ==
    ASSUME Inv, [Next]_vars
    PROVE  got' = got \/ (log' = log /\ \E r \in Readers : Feed!Give(r))
<1>1. ASSUME NEW r \in Readers, Receive(r) PROVE log' = log /\ Feed!Give(r)
    <2>0. TypeOK /\ Lined /\ None \notin Streams
        BY ReaderAssumption DEF Inv
    <2>1. /\ conn[r] \in Streams /\ wire[conn[r]] \in Seq(Nat) /\ wire[conn[r]] # <<>>
          /\ Counts(wire[conn[r]], got[r]) /\ got[r] + Len(wire[conn[r]]) = cursor[conn[r]]
          /\ cursor[conn[r]] <= Len(log) /\ got[r] \in Nat /\ Len(log) \in Nat
        BY <1>1, <2>0 DEF Receive, Lined, Aligned, TypeOK
    <2>2. Len(wire[conn[r]]) \in Nat /\ Len(wire[conn[r]]) >= 1
          /\ Head(wire[conn[r]]) = wire[conn[r]][1]
        BY <2>1
    <2>3. Head(wire[conn[r]]) = got[r] + 1 /\ got[r] < Len(log)
        BY <2>1, <2>2 DEF Counts
    <2>4. got' = [got EXCEPT ![r] = got[r] + 1] /\ log' = log
        BY <1>1, <2>3 DEF Receive, logVars
    <2> QED BY <2>3, <2>4 DEF Feed!Give
<1>2. (\E r \in Readers : Receive(r)) \/ got' = got
    BY DEF Next, vars, streamVars, Emit, EndTold, EndUntold, Backfill, Purge, Crash, Boot,
           Tick, TickThrows, Close, SeesEnd, Drop, Attach
<1> QED BY <1>1, <1>2

(* The streams implement EventFeed: whatever connections, polls and        *)
(* processes are lost, a reader is given every event once and in order,    *)
(* and the log ends with its one terminal event.                           *)
THEOREM ImplementsFeed == Spec => KeepsFeed
<1>1. Init => Feed!Init
    BY DEF Init, Feed!Init
<1>2. Inv /\ [Next]_vars => [Feed!Next]_<<log, got>>
    <2> SUFFICES ASSUME Inv, [Next]_vars PROVE [Feed!Next]_<<log, got>>
        OBVIOUS
    <2>1. CASE log' = log /\ \E r \in Readers : Feed!Give(r)
        BY <2>1 DEF Feed!Next
    <2>2. CASE got' = got
        <3>1. LogStep
            BY InvStep
        <3>2. ASSUME NEW k \in Kinds, NewRow(k) PROVE Feed!Write(k)
            BY <2>2, <3>2 DEF NewRow, Feed!Write, Has, Feed!Has
        <3>3. CASE log' = log
            BY <2>2, <3>3
        <3>4. CASE \E k \in Kinds : NewRow(k)
            BY <3>2, <3>4 DEF Feed!Next, Kinds
        <3> QED BY <3>1, <3>3, <3>4 DEF LogStep
    <2> QED BY <2>1, <2>2, GotStep
<1> QED BY <1>1, <1>2, InvHolds, PTL DEF Spec, KeepsFeed, Feed!Spec

-----------------------------------------------------------------------------
(* The end of the log, and how it reaches a reader.                        *)

LEMMA EndsOnceStep ==
    ASSUME TypeOK, LogEndsOnce, LogStep
    PROVE  LogEndsOnce'
<1>0. log \in Seq(Kinds) /\ Len(log) \in Nat /\ DOMAIN log = 1..Len(log)
    BY DEF TypeOK, Kinds
<1>1. CASE log' = log
    BY <1>1 DEF LogEndsOnce
<1>2. ASSUME NEW k \in Kinds, NewRow(k) PROVE LogEndsOnce'
    <2>1. /\ log' = Append(log, k) /\ ~Has(log, "terminal")
          /\ k = "mark" => ~Has(log, "mark")
        BY <1>2 DEF NewRow
    <2>2. /\ Len(log') = Len(log) + 1 /\ DOMAIN log' = 1..(Len(log) + 1)
          /\ \A n \in 1..Len(log) : log'[n] = log[n]
          /\ log'[Len(log) + 1] = k
        BY <1>0, <2>1
    <2>3. ASSUME NEW n \in DOMAIN log', log'[n] = "terminal" PROVE n = Len(log')
        BY <1>0, <2>1, <2>2, <2>3 DEF Has
    <2>4. ASSUME NEW m \in DOMAIN log', NEW n \in DOMAIN log', log'[m] = "mark", log'[n] = "mark"
          PROVE  m = n
        <3>1. CASE m \in 1..Len(log) /\ n \in 1..Len(log)
            BY <1>0, <2>2, <2>4, <3>1 DEF LogEndsOnce
        <3>2. CASE ~(m \in 1..Len(log) /\ n \in 1..Len(log))
            <4>1. k = "mark" /\ (m = Len(log) + 1 \/ n = Len(log) + 1)
                BY <1>0, <2>2, <2>4, <3>2
            <4>2. \A l \in 1..Len(log) : log[l] # "mark"
                BY <1>0, <2>1, <4>1 DEF Has
            <4>3. m \notin 1..Len(log) /\ n \notin 1..Len(log)
                BY <2>2, <2>4, <4>2
            <4> QED BY <1>0, <2>2, <2>4, <4>3
        <3> QED BY <3>1, <3>2
    <2> QED BY <2>3, <2>4 DEF LogEndsOnce
<1> QED BY <1>1, <1>2 DEF LogStep

(* Nothing is written behind the terminal event, and output that was cut   *)
(* is marked once, whoever repairs the log and however late an event is.   *)
THEOREM LogEndsOnceHolds == Spec => []LogEndsOnce
<1>1. Init => LogEndsOnce
    BY DEF Init, LogEndsOnce
<1>2. Inv /\ LogEndsOnce /\ [Next]_vars => LogEndsOnce'
    BY InvStep, EndsOnceStep DEF Inv
<1> QED BY <1>1, <1>2, InvHolds, PTL DEF Spec

(* One poll after the end is enough for a reader, however far behind: all  *)
(* that is missing is then under way, the terminal event with it.          *)
THEOREM OnePollTellsHolds == Spec => OnePollTells
<1>1. ASSUME Inv, NEW r \in Readers, NEW s \in Streams,
             ended, known, conn[r] = s, Tick(s)
      PROVE  Has(log', "terminal") /\ got[r] + Len(wire'[s]) = Len(log')
    <2>0. TypeOK /\ Lined /\ s # None
        BY <1>1, ReaderAssumption DEF Inv
    <2>1. PICK late \in BOOLEAN : Polls(s, cursor[s], late, held)
        BY <1>1 DEF Tick
    <2>2. LogStep
        BY <2>1, RepairedStep DEF Polls
    <2>3. Len(log') \in Nat /\ Len(log') >= Len(log) /\ Len(log) \in Nat
        BY <2>0, <2>2, LogGrows DEF TypeOK
    <2>4. Has(log', "terminal")
        <3>1. CASE Has(log, "terminal")
            BY <1>1, <2>1, <3>1 DEF Polls, Repaired, Accepts
        <3>2. CASE ~Has(log, "terminal")
            <4>1. log' = Append(log, "terminal")
                BY <1>1, <2>1, <3>2 DEF Polls, Repaired, Accepts, AppendRow
            <4> QED BY <2>0, <4>1, HasAppend DEF TypeOK, Kinds
        <3> QED BY <3>1, <3>2
    <2>5. /\ wire[s] \in Seq(Nat) /\ got[r] \in Nat /\ cursor[s] \in Nat
          /\ got[r] + Len(wire[s]) = cursor[s] /\ cursor[s] <= Len(log)
        BY <1>1, <2>0 DEF TypeOK, Lined, Aligned
    <2>6. Listened(s)'
        BY <1>1 DEF Tick, Listened
    <2>7. wire'[s] = wire[s] \o Ids(cursor[s], Len(log') - cursor[s])
        BY <1>1, <2>0, <2>1, <2>6 DEF Polls, Sends, Unread, TypeOK
    <2>8. Len(log') - cursor[s] \in Nat
        BY <2>3, <2>5
    <2>9. /\ Ids(cursor[s], Len(log') - cursor[s]) \in Seq(Nat)
          /\ Len(Ids(cursor[s], Len(log') - cursor[s])) = Len(log') - cursor[s]
        BY <2>5, <2>8, IdsAre DEF Counts
    <2>10. ASSUME NEW w \in Seq(Nat), NEW v \in Seq(Nat) PROVE Len(w \o v) = Len(w) + Len(v)
        OBVIOUS
    <2>11. Len(wire'[s]) = Len(wire[s]) + (Len(log') - cursor[s])
        BY <2>5, <2>7, <2>9, <2>10, Zenon
    <2>12. Len(wire[s]) \in Nat
        BY <2>5
    <2>13. \A g, w, c, l \in Nat : g + w = c => g + (w + (l - c)) = l
        OBVIOUS
    <2>14. got[r] + Len(wire'[s]) = Len(log')
        <3>1. got[r] + (Len(wire[s]) + (Len(log') - cursor[s])) = Len(log')
            <4>1. \A l \in Nat : got[r] + (Len(wire[s]) + (l - cursor[s])) = l
                BY <2>5, <2>12, <2>13
            <4>2. Len(log') \in Nat
                BY <2>3
            <4> QED BY <4>1, <4>2, Zenon
        <3> QED BY <2>11, <3>1, Zenon
    <2> QED BY <2>4, <2>14
<1>2. Inv /\ [Next]_vars
          => [\A r \in Readers, s \in Streams :
                  ended /\ known /\ conn[r] = s /\ Tick(s)
                      => Has(log', "terminal") /\ got[r] + Len(wire'[s]) = Len(log')]_vars
    BY <1>1
<1> QED BY <1>2, InvHolds, PTL DEF Spec, OnePollTells
=============================================================================
