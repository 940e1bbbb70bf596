---------------------------- MODULE ChatLifecycle ----------------------------
(* One chat of one user, between the desktop app that keeps its file and the *)
(* server that keeps its working state: the turns (routes/agent-v2.mjs), the *)
(* purge routes (routes/lifecycle-routes.mjs, kb/chat-lifecycle.mjs), and    *)
(* the archiver and the delete of the app (chat_archive.rs, chat_store.rs,   *)
(* chat_cmds.rs).                                                            *)
(*                                                                           *)
(* The working state is the chat's agent_sessions row, which names an SDK    *)
(* session, and the transcripts of SDK sessions.  Transcripts, files and     *)
(* rows are known by the time of their last change: that is what both sides  *)
(* compare.  An SDK session is known by the turn that opened it.  Facts,     *)
(* route rows and continuations go with the row and are left out.            *)
(*                                                                           *)
(* The clock moves at every stamp and in between; TicksPerSecond of its      *)
(* ticks make a second, and some stamps are cut to whole seconds.  The app   *)
(* may be killed at any time; answers and requests may be late or lost; the  *)
(* server itself does not die.                                               *)
EXTENDS Naturals, FiniteSetsExt

CONSTANTS
  None,           \* no row, no SDK session, no tombstone
  Turns,          \* the turns asked of this chat
  TicksPerSecond,
  MaxAge,         \* requestedAt: a delete asked longer ago counts as of now
  MaxTime,        \* bound: stamps
  Faults          \* "db": a write of the server may fail; "fs": a file may
                  \* refuse to be read or removed

ASSUME ChatAssumption ==
  /\ None \notin Turns /\ None \notin [sdk : Turns \cup {None}, used : Nat]
  /\ TicksPerSecond \in Nat \ {0}
  /\ MaxAge \in Nat
  /\ MaxTime \in Nat \ {0}

VARIABLES
  clock,
  turn,     \* turn[t]: new, classify (before the lock), run (in flight), over
  row,      \* row[t]: the row's SDK session when t began to run
  resume,   \* resume[t]: t resumes row[t]
  cur,      \* cur[t]: currentSdkSessionId
  updating, \* an SDK or plugin update replaces the files that turns run on
  map,      \* the agent_sessions row: [sdk, used], or None
  script,   \* script[s]: when the transcript of s was last written, 0: none
  receipt,  \* the archive receipt: its time, the file's, when the run looked
  tomb,     \* the server's tombstone: [asked, ids], or None
  app,      \* the desktop app: down, up, quitting
  file,     \* when the chat file was last written, 0: none
  local,    \* the app's tombstone: when the delete was asked, 0: none
  del,      \* chat_delete: no, trash, call
  run,      \* run[r]: the step of archive run r; when it read the working state
            \* (saw), the last use it read (used), the file it verified (hash)
  asks,     \* a purge request is under way
  posts,    \* the delete requests under way, by the time they name
  deleted,  \* history: was the chat deleted, and was it quiet then
  later,    \* history: the turns asked for since then, the sessions they used
  stray,    \* history: the sessions whose transcript a removal or a binding
            \* that failed has left behind, until one succeeds
  spared    \* history: the file of the deleted chat could not be moved

turns == <<turn, row, resume, cur>>
net == <<asks, posts>>
server == <<updating, map, script, receipt, tomb>>
failed == <<stray, spared>>
vars == <<clock, turns, server, app, file, local, del, run, net, deleted, later, failed>>

Runs == {"sweep", "quit"}
Off == [step |-> "off", saw |-> 0, used |-> 0, hash |-> 0]
NoReceipt == [at |-> 0, of |-> 0, saw |-> 0]

Init ==
  /\ clock = 1
  /\ turn = [t \in Turns |-> "new"]
  /\ row = [t \in Turns |-> None]
  /\ resume = [t \in Turns |-> FALSE]
  /\ cur = [t \in Turns |-> None]
  /\ updating = FALSE
  /\ map = None
  /\ script = [s \in Turns |-> 0]
  /\ receipt = NoReceipt
  /\ tomb = None
  /\ app = "up"
  /\ file = 1
  /\ local = 0
  /\ del = "no"
  /\ run = [r \in Runs |-> Off]
  /\ asks = FALSE
  /\ posts = {}
  /\ deleted = "no"
  /\ later = {}
  /\ stray = {}
  /\ spared = FALSE

\* A time cut to its second.
Sec(x) == (x \div TicksPerSecond) * TicksPerSecond

Stamp == clock < MaxTime /\ clock' = clock + 1

Tick == Stamp /\ UNCHANGED <<turns, server, app, file, local, del, run, net, deleted, later,
                             failed>>

------------------------------------------------------------------------------
(* Transcripts.  Their removal is silent on any failure.                     *)

\* Of the sessions ids: the transcripts that may be left.
Kept(ids) == {k \in SUBSET {s \in ids : script[s] # 0} : k # {} => "fs" \in Faults}

\* deleteSdkTranscripts, for each of ids.
Purged(ids) ==
  \E kept \in Kept(ids) :
    /\ script' = [s \in Turns |-> IF s \in ids \ kept THEN 0 ELSE script[s]]
    /\ stray' = (stray \ ids) \cup kept

Mapped == IF map = None THEN {} ELSE {map.sdk} \ {None}

------------------------------------------------------------------------------
(* Turns.                                                                    *)

Running == {t \in Turns : turn[t] = "run"}

Go(t, where) == turn' = [turn EXCEPT ![t] = where]

\* Turn t is over: what it remembered is gone.
Over(t) ==
  /\ Go(t, "over")
  /\ row' = [row EXCEPT ![t] = None]
  /\ resume' = [resume EXCEPT ![t] = FALSE]
  /\ cur' = [cur EXCEPT ![t] = None]

\* The early probe; then the classifier is asked, without the chat's lock.
Ask(t) ==
  /\ turn[t] = "new"
  /\ Go(t, IF updating \/ Running # {} THEN "over" ELSE "classify")
  /\ later' = IF deleted = "no" THEN later ELSE later \cup {t}
  /\ UNCHANGED <<clock, row, resume, cur, server, app, file, local, del, run, net, deleted, failed>>

\* Mutant of MayStart: what the probe saw is not looked at again.
MayStartOnProbe == TRUE

MayStart == ~updating /\ Running = {}

Refuse(t) ==
  /\ turn[t] = "classify"
  /\ ~MayStart
  /\ Go(t, "over")
  /\ UNCHANGED <<clock, row, resume, cur, server, app, file, local, del, run, net, deleted, later,
                 failed>>

\* The lock is taken and the row read, or made.  The client may ask for a
\* fresh session.
Start(t) ==
  /\ turn[t] = "classify"
  /\ MayStart
  /\ Go(t, "run")
  /\ \/ map = None /\ Stamp /\ map' = [sdk |-> None, used |-> clock']
     \/ map # None /\ UNCHANGED <<clock, map>>
  /\ row' = [row EXCEPT ![t] = map'.sdk]
  /\ \E fresh \in BOOLEAN :
       /\ resume' = [resume EXCEPT ![t] = ~fresh /\ map'.sdk # None]
       /\ cur' = [cur EXCEPT ![t] = IF fresh THEN None ELSE map'.sdk]
  /\ UNCHANGED <<updating, script, receipt, tomb, app, file, local, del, run, net, deleted, later,
                 failed>>

\* The SDK reports the session it runs in: its transcript is written.
SdkInit(t) ==
  /\ turn[t] = "run"
  /\ IF resume[t] THEN script[row[t]] # 0 ELSE cur[t] = None
  /\ Stamp
  /\ cur' = [cur EXCEPT ![t] = IF resume[t] THEN @ ELSE t]
  /\ script' = [script EXCEPT ![cur'[t]] = clock']
  /\ UNCHANGED <<turn, row, resume, updating, map, receipt, tomb, app, file, local, del, run, net,
                 deleted, later, failed>>

\* SESSION_UNRESUMABLE: nothing is bound.
Unresumable(t) ==
  /\ turn[t] = "run"
  /\ resume[t]
  /\ script[row[t]] = 0
  /\ Over(t)
  /\ UNCHANGED <<clock, server, app, file, local, del, run, net, deleted, later, failed>>

\* Mutant of Replaced: a replaced session keeps its transcript.
ReplacedKept(t) == {}

\* The session that t has replaced.
Replaced(t) == IF resume[t] THEN {} ELSE {row[t]} \ {None, cur[t]}

\* bindSdkSession, when the SDK wrote last at the time given.
Bound(t, last) ==
  /\ map' = [sdk |-> cur[t], used |-> clock']
  /\ later' = IF t \in later THEN later \cup {cur[t]} ELSE later
  /\ \E kept \in Kept(Replaced(t)) :
       /\ script' = [s \in Turns |-> IF s = cur[t] THEN last
                                     ELSE IF s \in Replaced(t) \ kept THEN 0 ELSE script[s]]
       /\ stray' = (stray \ {cur[t]}) \cup kept

\* markAgentSessionUsed throws, and again in the catch: nothing is bound.
Unbound(t, last) ==
  /\ "db" \in Faults
  /\ script' = [script EXCEPT ![cur[t]] = last]
  /\ stray' = stray \cup {cur[t]}
  /\ UNCHANGED <<map, later>>

\* Every other exit: success, failure, Stop.  The SDK may have written again.
End(t) ==
  /\ turn[t] = "run"
  /\ Over(t)
  /\ \/ /\ cur[t] = None
        /\ UNCHANGED <<clock, map, script, later, stray>>
     \/ /\ cur[t] # None
        /\ Stamp
        /\ \E last \in {script[cur[t]], clock'} : Bound(t, last) \/ Unbound(t, last)
  /\ UNCHANGED <<updating, receipt, tomb, app, file, local, del, run, net, deleted, spared>>

UpdateStarts ==
  /\ ~updating
  /\ Running = {}
  /\ updating' = TRUE
  /\ UNCHANGED <<clock, turns, map, script, receipt, tomb, app, file, local, del, run, net, deleted,
                 later, failed>>

UpdateEnds ==
  /\ updating
  /\ updating' = FALSE
  /\ UNCHANGED <<clock, turns, map, script, receipt, tomb, app, file, local, del, run, net, deleted,
                 later, failed>>

\* DELETE /agent/v2/session, from any client, whatever runs.
DropSession ==
  /\ map # None
  /\ map' = None
  /\ Purged(Mapped)
  /\ UNCHANGED <<clock, turns, updating, receipt, tomb, app, file, local, del, run, net, deleted,
                 later, spared>>

------------------------------------------------------------------------------
(* The purge routes.                                                         *)

\* Mutant of Stale: a receipt is good for ever.
StaleNever == FALSE

\* receiptIsStale compares whole seconds.
Stale == map # None /\ Sec(map.used) > Sec(receipt.at)

\* POST /agent/v2/sessions/purge, when the server gets to it: purgeChat takes
\* the transcripts first, then the rows in one transaction.
ServePurge ==
  /\ asks
  /\ asks' = FALSE
  /\ \/ /\ receipt.at # 0 /\ Running = {} /\ ~Stale
        /\ Purged(Mapped)
        /\ map' = None \/ ("db" \in Faults /\ map' = map)
     \/ /\ receipt.at = 0 \/ Running # {} \/ Stale
        /\ UNCHANGED <<map, script, stray>>
  /\ UNCHANGED <<clock, turns, updating, receipt, tomb, app, file, local, del, run, posts, deleted,
                 later, spared>>

\* The time a delete counts from: the one it names, unless that is too old.
Since(a) == IF clock > a + MaxAge THEN clock ELSE a

\* enqueueSessionPurge keeps the earliest time and the ids of both.
Owed(a) == [asked |-> IF tomb = None THEN Since(a) ELSE Min({Since(a), tomb.asked}),
            ids   |-> Mapped \cup (IF tomb = None THEN {} ELSE tomb.ids)]

\* tombstoneChatWasReused: the row or a transcript is newer than the delete.
\* A transcript that cannot be read shows no time.
Reused(o, unread) ==
  \/ map # None /\ map.used > o.asked
  \/ \E s \in o.ids \ unread : script[s] > o.asked

Unread == {{}} \cup {Turns : f \in Faults \cap {"fs"}}

\* The app hears "done" and drops its tombstone, unless it is late or gone.
Told == local' = local \/ (app # "down" /\ local' = 0)

\* Mutant of StillOwed: the delete is answered as done all the same.
StillOwedNot(o) == tomb' = None /\ Told

\* A busy chat, or a purge that failed: the tombstone stays.
StillOwed(o) == tomb' = o /\ UNCHANGED local

\* The purge is through, or a write after the transcripts has failed: the rows
\* go in one transaction, the tombstone after them.
Purge(o) ==
  /\ Purged(o.ids)
  /\ \/ map' = None /\ tomb' = None /\ Told
     \/ "db" \in Faults /\ map' \in {None, map} /\ StillOwed(o)

\* POST /kb/session-purges with the time a.
ServeDelete(a) ==
  /\ posts' = posts \ {a}
  /\ \E unread \in Unread :
       LET o == Owed(a) IN
       \/ /\ Reused(o, unread)
          /\ tomb' = None
          /\ Told
          /\ UNCHANGED <<map, script, stray>>
       \/ /\ ~Reused(o, unread) /\ Running # {}
          /\ StillOwed(o)
          /\ UNCHANGED <<map, script, stray>>
       \/ /\ ~Reused(o, unread) /\ Running = {}
          /\ Purge(o)
  /\ UNCHANGED <<clock, turns, updating, receipt, app, file, del, run, asks, deleted, later,
                 spared>>

------------------------------------------------------------------------------
(* The desktop app.                                                          *)

Launch ==
  /\ app = "down"
  /\ app' = "up"
  /\ run' = [run EXCEPT !["sweep"].step = "tombs"]
  /\ UNCHANGED <<clock, turns, server, file, local, del, net, deleted, later, failed>>

Quit ==
  /\ app = "up"
  /\ app' = "quitting"
  /\ run' = [run EXCEPT !["quit"].step = "state"]
  /\ UNCHANGED <<clock, turns, server, file, local, del, net, deleted, later, failed>>

\* The end of the quit run, or a kill.
Exit ==
  /\ app # "down"
  /\ app' = "down"
  /\ del' = "no"
  /\ run' = [r \in Runs |-> Off]
  /\ UNCHANGED <<clock, turns, server, file, local, net, deleted, later, failed>>

\* The page saves a message or the chat's header; a deleted chat is refused.
Save ==
  /\ app = "up"
  /\ file # 0
  /\ local = 0
  /\ Stamp
  /\ file' = clock'
  /\ UNCHANGED <<turns, server, app, local, del, run, net, deleted, later, failed>>

\* Nothing was used in the second of the delete, or runs.
Quiet(a) ==
  /\ \A t \in Turns : turn[t] \in {"new", "over"}
  /\ map # None => map.used < Sec(a)
  /\ \A s \in Turns : script[s] < Sec(a) \/ script[s] = 0

\* ChatStore::delete: the tombstone, unless there is one, and then the file.
Delete ==
  /\ app = "up"
  /\ file # 0
  /\ del = "no"
  /\ Stamp
  /\ del' = "trash"
  /\ \/ /\ local = 0
        /\ local' = clock'
        /\ deleted' = IF Quiet(clock') /\ posts = {} /\ tomb = None THEN "quiet" ELSE "used"
        /\ spared' = FALSE
     \/ /\ local # 0
        /\ deleted' = IF Quiet(clock') /\ later = {} THEN deleted ELSE "used"
        /\ UNCHANGED <<local, spared>>
  /\ later' = {}
  /\ UNCHANGED <<turns, server, app, file, run, net, stray>>

\* trash_file moves the file, or fails.
FileGoes == file' = 0 /\ spared' = FALSE
FileStays == "fs" \in Faults /\ file # 0 /\ spared' = TRUE /\ UNCHANGED file

\* A delete whose file stays is not sent.
Trash ==
  /\ del = "trash"
  /\ \/ FileGoes /\ del' = "call"
     \/ FileStays /\ del' = "no"
  /\ UNCHANGED <<clock, turns, server, app, local, run, net, deleted, later, stray>>

\* delete_confirmed names the time of its call, in whole seconds.
DeleteCall ==
  /\ del = "call"
  /\ del' = "no"
  /\ posts' = posts \cup {Sec(clock)}
  /\ deleted' = IF Quiet(clock) /\ later = {} THEN deleted ELSE "used"
  /\ later' = {}
  /\ UNCHANGED <<clock, turns, server, app, file, local, run, asks, failed>>

------------------------------------------------------------------------------
(* An archive run: the sweep after a launch, or the quit run.                *)

\* Mutant of AskedAt: a sweep names its own time.
AskedAtNow == Sec(clock)

\* The time of the delete, in whole seconds.
AskedAt == Sec(local)

\* The sweep enforces the tombstone and sends it, whatever became of the file.
Tombs ==
  /\ run["sweep"].step = "tombs"
  /\ del # "trash"      \* the lock of the chat store
  /\ run' = [run EXCEPT !["sweep"].step = "state"]
  /\ \/ local = 0 /\ UNCHANGED <<file, spared, posts>>
     \/ local # 0 /\ (FileGoes \/ FileStays) /\ posts' = posts \cup {AskedAt}
  /\ UNCHANGED <<clock, turns, server, app, local, del, asks, deleted, later, stray>>

\* GET /kb/agent/working-state; a chat without state, or deleted, is left.
State(r) ==
  /\ run[r].step = "state"
  /\ run' = [run EXCEPT ![r] =
                IF map = None \/ local # 0 THEN Off
                ELSE [step |-> "verify", saw |-> clock, used |-> map.used, hash |-> 0]]
  /\ UNCHANGED <<clock, turns, server, app, file, local, del, net, deleted, later, failed>>

\* Mutant of FileIsCurrent: any file will do.
FileIsCurrentAny(r) == file # 0

\* The file is there and not older than the second of the last use.
FileIsCurrent(r) == file # 0 /\ file >= Sec(run[r].used)

Verify(r) ==
  /\ run[r].step = "verify"
  /\ run' = [run EXCEPT ![r] = IF FileIsCurrent(r)
                               THEN [@ EXCEPT !.step = "receipt", !.used = 0, !.hash = file]
                               ELSE Off]
  /\ UNCHANGED <<clock, turns, server, app, file, local, del, net, deleted, later, failed>>

\* POST /kb/archive-receipts.
Receipt(r) ==
  /\ run[r].step = "receipt"
  /\ Stamp
  /\ receipt' = [at |-> clock', of |-> run[r].hash, saw |-> run[r].saw]
  /\ run' = [run EXCEPT ![r] = [Off EXCEPT !.step = "purge"]]
  /\ UNCHANGED <<turns, updating, map, script, tomb, app, file, local, del, net, deleted, later,
                 failed>>

SendPurge(r) ==
  /\ run[r].step = "purge"
  /\ run' = [run EXCEPT ![r] = Off]
  /\ asks' = TRUE
  /\ UNCHANGED <<clock, turns, server, app, file, local, del, posts, deleted, later, failed>>

\* Its deadline is over, a call failed, or it is a shadow run.
RunStops(r) ==
  /\ run[r].step # "off"
  /\ run' = [run EXCEPT ![r] = Off]
  /\ UNCHANGED <<clock, turns, server, app, file, local, del, net, deleted, later, failed>>

------------------------------------------------------------------------------
Next ==
  \/ \E t \in Turns :
       Ask(t) \/ Refuse(t) \/ Start(t) \/ SdkInit(t) \/ Unresumable(t) \/ End(t)
  \/ UpdateStarts \/ UpdateEnds \/ DropSession
  \/ ServePurge \/ (\E a \in posts : ServeDelete(a))
  \/ Launch \/ Quit \/ Exit \/ Save \/ Delete \/ Trash \/ DeleteCall
  \/ Tombs
  \/ \E r \in Runs : State(r) \/ Verify(r) \/ Receipt(r) \/ SendPurge(r) \/ RunStops(r)
  \/ Tick

Spec == Init /\ [][Next]_vars

------------------------------------------------------------------------------
(* Properties.                                                               *)

Time == 0..MaxTime

\* Every variable has its type.
TypeOK ==
  /\ clock \in Time
  /\ turn \in [Turns -> {"new", "classify", "run", "over"}]
  /\ row \in [Turns -> Turns \cup {None}]
  /\ resume \in [Turns -> BOOLEAN]
  /\ cur \in [Turns -> Turns \cup {None}]
  /\ updating \in BOOLEAN
  /\ map \in [sdk : Turns \cup {None}, used : Time] \cup {None}
  /\ script \in [Turns -> Time]
  /\ receipt \in [at : Time, of : Time, saw : Time]
  /\ tomb \in [asked : Time, ids : SUBSET Turns] \cup {None}
  /\ app \in {"down", "up", "quitting"}
  /\ file \in Time
  /\ local \in Time
  /\ del \in {"no", "trash", "call"}
  /\ run \in [Runs -> [step : {"off", "tombs", "state", "verify", "receipt", "purge"},
                       saw : Time, used : Time, hash : Time]]
  /\ asks \in BOOLEAN
  /\ posts \subseteq Time
  /\ deleted \in {"no", "quiet", "used"}
  /\ later \subseteq Turns
  /\ stray \subseteq Turns
  /\ spared \in BOOLEAN

\* The chat's lock and the update gate hold although both are looked at before
\* and after the classifier is awaited: one turn at a time runs, and none
\* while an update replaces the files it runs on.
OneTurn ==
  /\ \A t, u \in Running : t = u
  /\ updating => Running = {}

\* Every transcript can be found by a later purge: the row or a running turn
\* names its session, through every exit of a turn, session replacement and
\* half-done purge (bindSdkSession, enqueueSessionPurge).  Only a transcript
\* that would not go, or a session that could not be bound, is lost sight of.
NoOrphanTranscript ==
  \A s \in Turns : script[s] # 0 =>
    s \in Mapped \cup stray \/ \E t \in Running : s \in {cur[t], row[t]}

\* A purge that a receipt allows takes only what was last written before the
\* file the receipt vouches for, or in the second of that file or of the
\* receipt while the run that left it was on its way, or by a turn whose use
\* could not be recorded.
PurgedIsFiled ==
  [][ServePurge => \A s \in Turns : script[s] # 0 /\ script'[s] = 0 =>
       \/ Sec(script[s]) <= receipt.of
       \/ receipt.saw < map.used /\ Sec(script[s]) <= receipt.at
       \/ s \in stray /\ script[s] > map.used]_vars

\* A quiet chat that was deleted is gone, file and working state, once the app
\* has forgotten the delete: through kills between its steps, lost answers and
\* failed purges.  What the file system would not give up may be left.
QuietDeleteGoes ==
  deleted = "quiet" /\ local = 0 /\ later = {}
    => /\ file = 0 \/ spared
       /\ map = None
       /\ \A s \in Turns : script[s] # 0 => s \in stray

\* A chat in which a turn was started after the delete was asked keeps its
\* working state, whenever the delete is sent again, until it is so old that
\* the server takes it for a new one (DL16).
ReusedKeeps ==
  [][\A a \in posts :
       ServeDelete(a) /\ clock <= a + MaxAge /\ Mapped \cap later # {}
         => UNCHANGED <<map, script>>]_vars

\* A deleted chat in which no turn was started since is gone once the app has
\* forgotten the delete: "a turn is running: the tombstone stays, retried
\* later" (lifecycle-routes.mjs:213).
DeletedGoes ==
  deleted # "no" /\ local = 0 /\ later = {} => map = None

\* "the file the receipt vouched for is not the whole chat"
\* (chat-lifecycle.mjs:314): a purge takes nothing newer than that file, up to
\* the second in which file or receipt was written.
PurgedIsVouched ==
  [][ServePurge => \A s \in Turns : script[s] # 0 /\ script'[s] = 0 =>
       \/ Sec(script[s]) <= receipt.of
       \/ Sec(script[s]) = Sec(receipt.at)]_vars
=============================================================================
