----------------------------- MODULE EventStream -----------------------------
(***************************************************************************)
(* The event log of one command and the streams that read it               *)
(* (extension/kb/bus-store.mjs appendEvent, listEvents, ensureTerminal and *)
(* extension/routes/bus/bus-routes.mjs streamEvents).                      *)
(*                                                                         *)
(* A GET /bus/commands/:id/events opens a response that polls the log from *)
(* a cursor until the terminal event, its deadline or an error; the client *)
(* loses its connection at any point, with frames under way, and attaches  *)
(* again after the last id it holds.  A poll is synchronous: one action.   *)
(*                                                                         *)
(* Abstractions: an event is its kind and its size in bytes; the job is    *)
(* `ended`, the point where its row is final; the 300 ms timer, the pings  *)
(* and backpressure are left out; a shutdown that ends its streams is, to  *)
(* a reader, a crash.  An expiry whose second write is lost (module        *)
(* CommandBus) is left out: every ending here can be made good.            *)
(***************************************************************************)
EXTENDS Integers, Sequences, FiniteSets

CONSTANTS
    Readers,        \* clients of the one user
    Streams,        \* response objects, reused once closed
    EventSizes,     \* sizes of a non-terminal event
    TerminalSizes,  \* sizes of a terminal event
    MarkSize,       \* size of {step: 'events_truncated'}
    MaxRows,        \* BUS_LIMITS.maxEventsPerCommand (5000)
    MaxBytes,       \* BUS_LIMITS.maxEventBytesPerCommand (4 MiB)
    Reserve,        \* bytes kept free of non-terminal events (8192)
    Batch,          \* listEvents' limit in a poll (200)
    MaxReaders,     \* LIMITS.maxStreamReadersPerUser (4)
    MaxFaults,      \* bound of this model: lost connections, errors and crashes
    None

ASSUME ReaderAssumption ==
    None \notin Streams /\ IsFiniteSet(Streams) /\ MaxReaders \in Nat /\ MaxFaults \in Nat
ASSUME SizeAssumption ==
    /\ EventSizes \subseteq Nat /\ TerminalSizes \subseteq Nat /\ MarkSize \in Nat
    /\ MaxRows \in Nat /\ MaxBytes \in Nat /\ Reserve \in Nat /\ Batch \in Nat \ {0}
    /\ MaxRows > 3 /\ Reserve < MaxBytes
    /\ EventSizes # {} /\ \A n \in EventSizes : n <= MaxBytes - Reserve

VARIABLES
    \* job_events of the command; the log is kept here when a purge drops its rows
    log,     \* log[seq]: the kind of the event
    bytes,   \* SUM(bytes)
    known,   \* the command and its rows are still stored
    ended,   \* the command ended; its terminal event may still be missing
    cut,     \* a non-terminal event was refused by a cap
    \* the process
    up,
    held,    \* readersByUser of the user
    st,      \* st[s]: "free", "open", or "over" once released and ended
    cursor,
    \* clients and network
    wire,    \* wire[s]: frames under way, by their id
    conn,    \* conn[r]: the response r reads, or None
    got,     \* got[r]: the last id r holds
    faults

logVars == <<log, bytes, known, ended, cut>>
streamVars == <<held, st, cursor, wire, conn, got>>
vars == <<logVars, up, streamVars, faults>>

Init ==
    /\ log = <<"event">> /\ bytes \in EventSizes  \* `accepted`, in createCommand's transaction
    /\ known = TRUE /\ ended = FALSE /\ cut = FALSE
    /\ up = TRUE /\ held = 0
    /\ st = [s \in Streams |-> "free"] /\ cursor = [s \in Streams |-> 0]
    /\ wire = [s \in Streams |-> <<>>]
    /\ conn = [r \in Readers |-> None] /\ got = [r \in Readers |-> 0]
    /\ faults = 0

Has(l, k) == \E i \in DOMAIN l : l[i] = k

-----------------------------------------------------------------------------
(* Writing.                                                                *)

(* Mutant: appendEvent does not look for a terminal event.                 *)
AcceptsAlways == known

Accepts == known /\ ~Has(log, "terminal")

AppendRow(k, n) == log' = Append(log, k) /\ bytes' = bytes + n

(* Mutant: no row is kept for the terminal event.                          *)
OverByOne(n) == Len(log) >= MaxRows - 1 \/ bytes + n > MaxBytes - Reserve

Over(n) == Len(log) >= MaxRows - 2 \/ bytes + n > MaxBytes - Reserve

(* Mutant: an event over a cap is dropped without the marker.              *)
EmitSilently(n) ==
    /\ up /\ Accepts
    /\ \/ ~Over(n) /\ AppendRow("event", n) /\ UNCHANGED cut
       \/ Over(n) /\ cut' = TRUE /\ UNCHANGED <<log, bytes>>
    /\ UNCHANGED <<known, ended, up, streamVars, faults>>

(* appendEvent of a non-terminal event: stored, or at a cap replaced by    *)
(* the marker, once.  The handler of an ended job may still call it.       *)
Emit(n) ==
    /\ up /\ Accepts
    /\ \/ ~Over(n) /\ AppendRow("event", n) /\ UNCHANGED cut
       \/ Over(n) /\ ~Has(log, "mark") /\ AppendRow("mark", MarkSize) /\ cut' = TRUE
       \/ Over(n) /\ Has(log, "mark") /\ cut' = TRUE /\ UNCHANGED <<log, bytes>>
    /\ UNCHANGED <<known, ended, up, streamVars, faults>>

(* The command ends, with its terminal event (onSettled, a denial, a       *)
(* cancel) ...                                                             *)
EndTold(t) ==
    /\ up /\ Accepts /\ ~ended
    /\ ended' = TRUE /\ AppendRow("terminal", t)
    /\ UNCHANGED <<known, cut, up, streamVars, faults>>

(* ... or only in its job row: the hook threw, or the process died next.   *)
EndUntold ==
    /\ up /\ known /\ ~ended
    /\ ended' = TRUE
    /\ UNCHANGED <<log, bytes, known, cut, up, streamVars, faults>>

(* Mutant: a log at its cap refuses the terminal event too.                *)
RepairedUnderCap(final) ==
    IF final /\ Accepts /\ \E t \in TerminalSizes : ~Over(t)
    THEN \E t \in TerminalSizes : AppendRow("terminal", t)
    ELSE UNCHANGED <<log, bytes>>

(* ensureTerminal, for a command that has ended or not.                    *)
Repaired(final) ==
    IF final /\ Accepts
    THEN \E t \in TerminalSizes : AppendRow("terminal", t)
    ELSE UNCHANGED <<log, bytes>>

(* The minute sweep, or GET /bus/commands/:id, on a log that needs it.     *)
Backfill ==
    /\ up /\ ended /\ Accepts /\ Repaired(ended)
    /\ UNCHANGED <<known, ended, cut, up, streamVars, faults>>

(* The sweep drops a finished command past its retention.                  *)
Purge ==
    /\ up /\ known /\ ended
    /\ known' = FALSE
    /\ UNCHANGED <<log, bytes, ended, cut, up, streamVars, faults>>

-----------------------------------------------------------------------------
(* Streaming.                                                              *)

Listened(s) == \E r \in Readers : conn[r] = s

Ids(from, n) == [i \in 1..n |-> from + i]

(* listEvents, batch by batch, with seq above the cursor.                  *)
Unread(from) == IF known THEN Len(log') - from ELSE 0

Sends(s, from, n) ==
    /\ cursor' = [cursor EXCEPT ![s] = from + n]
    /\ wire' = [wire EXCEPT ![s] = IF Listened(s)' THEN @ \o Ids(from, n) ELSE <<>>]

(* A poll goes through the whole log and ends the response behind the      *)
(* terminal event; `late` when its deadline has passed.                    *)
Polls(s, from, late, readers) ==
    /\ Repaired(ended)
    /\ Sends(s, from, Unread(from))
    /\ IF (known /\ Has(log', "terminal") /\ cursor'[s] >= Len(log')) \/ late
       THEN st' = [st EXCEPT ![s] = "over"] /\ held' = readers - 1
       ELSE st' = [st EXCEPT ![s] = "open"] /\ held' = readers

(* Mutant: the catch ends the response without release().                  *)
PollThrowsUnreleased(s, from, readers) ==
    /\ \/ UNCHANGED <<log, bytes>> /\ Sends(s, from, 0)
       \/ /\ Repaired(ended)
          /\ \E n \in 0..Unread(from) :
                 (n % Batch = 0 \/ n = Unread(from)) /\ Sends(s, from, n)
    /\ st' = [st EXCEPT ![s] = "over"] /\ held' = readers

(* A database error somewhere in a poll: the batches before it are sent,   *)
(* the response is ended.  The repair comes first.                         *)
PollThrows(s, from, readers) ==
    /\ \/ UNCHANGED <<log, bytes>> /\ Sends(s, from, 0)
       \/ /\ Repaired(ended)
          /\ \E n \in 0..Unread(from) :
                 (n % Batch = 0 \/ n = Unread(from)) /\ Sends(s, from, n)
    /\ st' = [st EXCEPT ![s] = "over"] /\ held' = readers - 1

Fault == faults < MaxFaults /\ faults' = faults + 1

(* A client that misses the terminal event attaches after the last id it   *)
(* holds; the first poll is part of the request.  At the limit it is       *)
(* refused (429), a purged command is not found.                           *)
Attach(r, s) ==
    /\ up /\ known /\ held < MaxReaders
    /\ conn[r] = None /\ ~(got[r] > 0 /\ log[got[r]] = "terminal")
    /\ st[s] = "free"
    /\ conn' = [conn EXCEPT ![r] = s]
    /\ \/ Polls(s, got[r], FALSE, held + 1) /\ UNCHANGED faults
       \/ PollThrows(s, got[r], held + 1) /\ Fault
    /\ UNCHANGED <<known, ended, cut, up, got>>

Tick(s) ==
    /\ up /\ st[s] = "open" /\ UNCHANGED conn
    /\ \E late \in BOOLEAN : Polls(s, cursor[s], late, held)
    /\ UNCHANGED <<known, ended, cut, up, got, faults>>

TickThrows(s) ==
    /\ up /\ st[s] = "open" /\ UNCHANGED conn
    /\ PollThrows(s, cursor[s], held)
    /\ Fault
    /\ UNCHANGED <<known, ended, cut, up, got>>

Receive(r) ==
    /\ conn[r] # None /\ wire[conn[r]] # <<>>
    /\ got' = [got EXCEPT ![r] = Head(wire[conn[r]])]
    /\ wire' = [wire EXCEPT ![conn[r]] = Tail(@)]
    /\ UNCHANGED <<logVars, up, held, st, cursor, conn, faults>>

(* The end of the response reaches the client behind its frames.           *)
SeesEnd(r) ==
    /\ conn[r] # None /\ st[conn[r]] = "over" /\ wire[conn[r]] = <<>>
    /\ conn' = [conn EXCEPT ![r] = None]
    /\ UNCHANGED <<logVars, up, held, st, cursor, wire, got, faults>>

(* The connection breaks, the frames under way are lost.                   *)
Drop(r) ==
    /\ conn[r] # None /\ Fault
    /\ conn' = [conn EXCEPT ![r] = None]
    /\ wire' = [wire EXCEPT ![conn[r]] = <<>>]
    /\ UNCHANGED <<logVars, up, held, st, cursor, got>>

(* The 'close' of a response nobody reads: release(), unless done before.  *)
Close(s) ==
    /\ st[s] # "free" /\ ~Listened(s)
    /\ held' = IF st[s] = "open" THEN held - 1 ELSE held
    /\ st' = [st EXCEPT ![s] = "free"]
    /\ cursor' = [cursor EXCEPT ![s] = 0] /\ wire' = [wire EXCEPT ![s] = <<>>]
    /\ UNCHANGED <<logVars, up, conn, got, faults>>

Crash ==
    /\ up /\ Fault
    /\ up' = FALSE /\ held' = 0
    /\ st' = [s \in Streams |-> "free"] /\ cursor' = [s \in Streams |-> 0]
    /\ wire' = [s \in Streams |-> <<>>] /\ conn' = [r \in Readers |-> None]
    /\ UNCHANGED <<logVars, got>>

(* The boot sweep may end the job, and the bus repairs its log.            *)
Boot ==
    /\ ~up /\ up' = TRUE
    /\ \E e \in {ended, TRUE} : ended' = e /\ Repaired(e)
    /\ UNCHANGED <<known, cut, streamVars, faults>>

Next ==
    \/ \E n \in EventSizes : Emit(n)
    \/ \E t \in TerminalSizes : EndTold(t)
    \/ EndUntold \/ Backfill \/ Purge \/ Crash \/ Boot
    \/ \E s \in Streams : Tick(s) \/ TickThrows(s) \/ Close(s)
    \/ \E r \in Readers : Receive(r) \/ SeesEnd(r) \/ Drop(r)
    \/ \E r \in Readers, s \in Streams : Attach(r, s)

Spec == Init /\ [][Next]_vars

(* The timers of the streams and of the sweep fire, sockets deliver or     *)
(* close, the supervisor restarts the process, a client tries again.       *)
FairSpec ==
    /\ Spec
    /\ WF_vars(Backfill) /\ WF_vars(Boot)
    /\ \A s \in Streams : WF_vars(Tick(s)) /\ WF_vars(Close(s))
    /\ \A r \in Readers :
           /\ WF_vars(Receive(r)) /\ WF_vars(SeesEnd(r))
           /\ WF_vars(\E s \in Streams : Attach(r, s))

-----------------------------------------------------------------------------
(* Properties.                                                             *)

TypeOK ==
    /\ log \in Seq({"event", "mark", "terminal"}) /\ bytes \in Nat
    /\ known \in BOOLEAN /\ ended \in BOOLEAN /\ cut \in BOOLEAN /\ up \in BOOLEAN
    /\ held \in Nat /\ st \in [Streams -> {"free", "open", "over"}]
    /\ cursor \in [Streams -> Nat] /\ wire \in [Streams -> Seq(Nat)]
    /\ conn \in [Readers -> Streams \cup {None}] /\ got \in [Readers -> Nat]
    /\ faults \in 0..MaxFaults

(* "At most 5,000 rows" per command (docs/spec/command-bus.md section 2),  *)
(* although the marker and the terminal event are always accepted; the     *)
(* bytes stay under the cap less its reserve, but for those two.           *)
LogBounded ==
    /\ Len(log) <= MaxRows
    /\ \E t \in TerminalSizes \cup {0} : bytes <= MaxBytes - Reserve + MarkSize + t

(* "The reader can see that output was cut" (bus-store.mjs:90): whatever   *)
(* cap refused an event, the log has its marker.                           *)
CutIsSeen == cut => Has(log, "mark")

(* readersByUser counts the open streams, though a stream is released by   *)
(* its end, its error and its 'close' in any order, and never exceeds the  *)
(* limit: no reader is refused for a stream that is gone.                  *)
ReadersCounted ==
    held = Cardinality({s \in Streams : st[s] = "open"}) /\ held <= MaxReaders

(* Whatever connections, polls and processes are lost, a reader that       *)
(* attaches after its last id is given every event once and in order, and  *)
(* the log has one terminal event, at its end.                             *)
Feed == INSTANCE EventFeed
KeepsFeed == Feed!Spec

(* The terminal event is the last of the log, and output that was cut is   *)
(* marked once: a late event of the handler, the repairs of three callers  *)
(* and a second end add nothing behind it.                                 *)
LogEndsOnce ==
    /\ \A n \in DOMAIN log : log[n] = "terminal" => n = Len(log)
    /\ \A m, n \in DOMAIN log : log[m] = "mark" /\ log[n] = "mark" => m = n

(* One poll is enough: once the command has ended, a poll of a stream      *)
(* somebody reads leaves everything up to the terminal event under way,    *)
(* however far behind the reader was and whether or not the end had been   *)
(* told.                                                                   *)
OnePollTells ==
    [][\A r \in Readers, s \in Streams :
          ended /\ known /\ conn[r] = s /\ Tick(s)
              => Has(log', "terminal") /\ got[r] + Len(wire'[s]) = Len(log')]_vars

(* Once its command has ended, a reader that keeps attaching is given the  *)
(* whole log with its terminal event, unless the command is purged first.  *)
(* It needs FairSpec.                                                      *)
EveryReaderIsTold ==
    \A r \in Readers :
        ended ~> (Has(log, "terminal") /\ got[r] = Len(log)) \/ ~known
=============================================================================
