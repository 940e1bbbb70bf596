# A verification project for the llm-ide core

TLA+ models, TLC runs and TLAPS proofs for the parts of llm-ide where several
actors share state: in the Node core server (`extension`) the persisted job
queue, the runner that drains it, the command bus that feeds it from the desktop,
the phone, the web client and the browser extension, the event streams its
clients follow, the gate every CLI is spawned through, and the one-time move of
the user's data; and the life of a chat between that server and the desktop app
(`desktop/src-tauri`).

Paths below are relative to `src/`.

## 1. The system

llm-ide is a local server (`extension/server.mjs`: Node, no framework, one
SQLite database) with several clients: the Chrome extension, the Tauri desktop
host (`desktop/src-tauri`), a web app, an iPhone app. Node runs one callback at
a time and better-sqlite3 is synchronous, so a handler is atomic between its
`await`s; what interleaves is awaits, timers, child processes, other processes
on the same files, and crashes.

| Component | State | Operations | What is hard |
|---|---|---|---|
| Job queue `kb/job-queue.mjs`, migration 0055 | the `jobs` table: state, attempts, cancel_requested, error; a partial unique index as lane lock | enqueue, cancel, claim, finish, boot sweep, orphan reap | every caller writes `state` with its own WHERE clause; crash between two of them |
| Job runner `kb/job-runner.mjs` | `active` map, abort signals, two timers per execution, started / stopping | pump, execute, settle, cancel, start, stop | four ends of an execution race; a throwing write between row and slot; nothing polls the queue |
| Bus store `kb/bus-store.mjs`, 0058 | `bus_commands`, `job_events`, `bus_kind_flags` | create, approve, deny, cancel, expire, append event, ensure / backfill terminal, purge | a command's life is spread over two tables and a log; crash between the writes |
| Bus executor `routes/bus/executor.mjs`, `registry.mjs`, `schedules.mjs`, `kb/bus-schedules.mjs` | approval nonce secret, schedules with standing approvals | receive, approve, deny, cancel, the re-check before a handler works, the minute sweep | permission checked at receipt, used minutes later; revoking what is already queued |
| Event streams `routes/bus/bus-routes.mjs` `streamEvents`, `sequence.mjs` | reader cursor, readers per user | attach after a seq, poll, end | a reader that drops and re-attaches must see every event once, in order |
| Process groups `core/process-group.mjs` | child pids, kill timers | spawn, abort, sweep the group | a pid reused after the leader exits |
| CLI gate `core/semaphore.mjs`, `providers/providers.mjs` `spawnCli`, `spawnCliStream`, `providers/warm-cli-pool.mjs` | the count and the queue of the semaphore; per call its child, signal and hang timer; idle children, one respawn timer, a flush generation | acquire, release, abort, time out, answer, retry cold; respawn, flush | a slot handed to a waiter whose client left; a respawn that sits in a timer and an `await` across a logout |
| Chat turns `routes/agent-v2.mjs`, `routes/lifecycle-routes.mjs`, `kb/chat-lifecycle.mjs`, `kb/agent-sessions.mjs`; desktop `chat_archive.rs`, `chat_store.rs`, `chat_cmds.rs` | the running turn per chat, the session row, transcripts, archive receipts, server tombstones; the chat file, the app's tombstone, its archive runs | start, bind, end, purge, archive, delete and its retries | a turn against a purge against a delete, across two processes that compare times, some in whole seconds |
| Host approval `core/host-approval.mjs` | used nonces, Bypass grants per chat | verify, grant, revoke, expire | single use, bounded tables, expiry and eviction |
| Host API v1 `routes/host-api/*`, `server/ws-server.mjs` | sessions, `rev`, pairing PIN, throttle, rate buckets | hello, pair, authenticate, commands, close | revocation while a session is open, one-use PIN |
| Encrypted sync `routes/sync/*`, `connectors/sync-store`, `kb/sync-state.mjs`, 0064 | published snapshots, sequence numbers, epochs, request rows | publish, drain inbox, enroll, rotate, sweep | a store seen half written; crash mid-publish; a request answered once and never re-run |
| Data-dir move `kb/data-dir-migration.mjs`, `core/legacy-tripwire.mjs`, `core/dev-secrets.mjs`, `core/config.mjs` | lock directory and owner, `kb/`, `.pre-move` copies, data directory, staged files, marker, notice, vault key | lock, take over, wipe, stage, commit by rename, roll back, grace, clean up at a later boot | two processes and a crash or a failing step anywhere |
| Agent store `kb/agent-db.mjs`, `agent-store.mjs`, `agent-jobs.mjs` | a write queue, rollups, purges | enqueue, flush, rollup, purge replay | writes queued for a purged user |
| Live capture `agents/live-sessions.mjs`, `kb/live-acks.mjs` | captures, acks | append, finalize, ack, expire | an ack that outlives its capture |
| Auth `server/auth*.mjs`, `jwt.mjs`, `rate-limit.mjs`, `vault.mjs` | users, refresh tokens, buckets, secrets | login, rotate, revoke, take | refresh rotation and replay |
| Connectors `connectors/*`, `routes/google-connectors.mjs` | accounts, cursors | sync, confirm | pure network I/O around a cursor |
| Knowledge base, review queue, planning, outcomes (`kb/*`, `agents/*`, `guardrails/*`) | tables | CRUD, dispatch, polling | mostly one transaction per request |
| Desktop host `desktop/src-tauri/src` | spawned core, ports, windows | supervise, proxy, approve | restart back-off, adoption of a running core |
| User interfaces `ui`, `web`, `ios_app`, `extension/src` | view state | rendering, polling | out of scope: presentation |

How they meet: a client posts a command to the bus; the executor decides
(`decideReceipt`), stores it and, when it may run, enqueues a job under the
command's id and pumps the runner; the runner calls back into the executor,
which re-checks permission and does the work, appending events; the runner's
`onSettled` hook appends the terminal event; the minute sweep repairs what a
failed write or a crash left behind; the desktop approves, denies and holds
schedules; readers follow the event log.

### What makes each part correct

- Job queue and runner: lanes exclusive and in order; no queued job forgotten;
  a slot and a running row for each other; no second start across crashes; final
  rows final; every job ends.
- Bus store and executor: exactly one decision per waiting command; a job exactly
  behind a command that may run; one terminal event, true to the row; quotas that
  outlive their check; a revoked permission stops what is queued.
- Schedules: a slot runs once however often it is asked for in time; runs on a
  standing approval are spaced.
- Event streams: one log per command, bounded, terminal last; a reader that comes
  back misses and repeats nothing; the reader limit counts open streams.
- CLI gate: no slot lost or given twice, none free while a call waits, first come
  first served; no prompt to a child of an earlier login or of another user; no
  call and no child stays for ever. Process groups: no signal to a group that is
  not the child's any more.
- Chat turns: one turn per chat, and none during an update; no transcript out of a
  later purge's reach unless a failure left it behind; a purge takes only what the
  archived file holds; a deleted chat goes, once, and one that was taken up again
  since stays.
- Host approval: a nonce works once; an expired grant never.
- Host API: nothing is served on a revoked session; a PIN pairs once.
- Sync: a reader sees a whole snapshot; a request runs at most once.
- Data-dir move: one mover at a time; after any crash each of the user's files is
  whole in `kb/`, in its `.pre-move` copy or in the data directory; the copy holds
  every write made until the original is set aside; the vault key fits the database that is opened; the originals
  outlive the move; nobody waits for ever.
- Agent store: nothing is written for a purged user. Live capture: an ack names
  a capture that exists. Auth: a rotated token is dead.

## 2. Modules

| Module | Models | Extends |
|---|---|---|
| `JobLifecycle` | abstract: the edges a row of `jobs` may take, exclusive lanes | |
| `JobRunner` | queue and runner, one action per callback | |
| `MCJobRunner` | instances for TLC | `JobRunner` |
| `JobRunnerProofs` | theorems | `JobRunner`, `FiniteSetTheorems`, `WellFoundedInduction`, `TLAPS` |
| `CommandLifecycle` | abstract: what a client is shown and told of a command | |
| `CommandBus` | bus store, executor, registry, schedules, over the queue | |
| `MCCommandBus` | instances for TLC | `CommandBus` |
| `CommandBusProofs` | the inductive invariant and what follows from it alone | `CommandBus`, `FiniteSetTheorems`, `TLAPS` |
| `CommandBusRulesProofs` | lanes, quotas, slots, spacing, revocation | `CommandBusProofs` |
| `EventFeed` | abstract: a log and what each reader was given of it | |
| `EventStream` | one command's event log and the streams that follow it | |
| `MCEventStream` | instances for TLC | `EventStream` |
| `EventStreamProofs` | theorems | `EventStream`, library theorems, `TLAPS` |
| `SlotQueue` | abstract: slots, and the line of those that wait for one | |
| `CliGate` | the semaphore, the calls, their children and the warm pool | |
| `MCCliGate` | instance for TLC | `CliGate` |
| `CliGateProofs` | theorems | `CliGate`, `FiniteSetTheorems`, `TLAPS` |
| `Handover` | abstract: the old location is given up once, and then announced | |
| `DataDirMove` | the files, the lock directory and the boots of the move | |
| `MCDataDirMove` | symmetry and view for TLC | `DataDirMove` |
| `DataDirMoveProofs` | theorems | `DataDirMove`, `TLAPS` |
| `ChatLifecycle` | one chat between the server and the desktop app | |
| `MCChatLifecycle` | symmetry and view for TLC | `ChatLifecycle` |
| `ChatLifecycleProofs` | theorems | `ChatLifecycle`, `TLAPS` |

`CommandBus` sees the runner from above: a pump claims a set of queued jobs with
free lanes that leaves nothing claimable. `JobRunner` shows which one, and both
refine `JobLifecycle`, the one thing either needs of the other. `QueueAsTheBusSees`
proves what `CommandBus` takes for granted of the runner: with one user and a share
no larger than the slots, a row waits for its lane or for the share, never for a slot.
`EventStream` sees the bus from below: the command is `ended` or not. `CliGate`, `DataDirMove` and
`ChatLifecycle` stand alone: the first is called by handlers and routes that ask a
provider, the second is over before a server opens its database, the third has
routes of its own.

### JobRunner

`state`, `attempts`, `cancelRequested`, `error` are the columns of `jobs`;
`active`, `aborted`, `timer`, `working` are the runner's map, the abort signals,
the two timers of an execution and the handlers whose promise is still open; a
crash clears the latter four. `Claim` is `execute` up to its first `await`,
`Pump` the claim loop at the end of every callback, `HandlerEnds`, `GraceEnds`
and `LateResult` are the ways through `settle`. `DbErrors` says whether
`finishJobSystem` ("finish") or the claim query ("claim") may throw; the first
is swallowed by `settle`, the second fails a request, or exits the process when
it happens in the grace timer (`GraceEndsFatally`). It may be any claim of a pump:
`IsCut` says what the loop had claimed when the next one threw, and those jobs run
(`PumpThrows`, `BootThrows`) or are left running by the process that exits.

Time is left out: an armed timer may fire at any moment, an orphan may be stale
at any sweep. That gives more behaviours than the code has, never fewer.

### CommandBus

`cmd`, `approved`, `via`, `createdAt` are columns of `bus_commands`; `job`,
`cancelRequested`, `quit` of `jobs`; `told` is the terminal row of `job_events`;
`enabled`, `sched`, `until`, `lastRun`, `registered` are the flags, schedules and
projects a re-check reads. `slotAsked` is the slot in the key of a scheduled run:
the desktop takes it from its own clock (`Ask`, `scheduler.ts:25`), lists the
schedules, and its request may be received at any later time, after a suspend too.
The two clocks are one, as both programs run on one machine. `decidedAt` mirrors a column nothing reads, for
`StandingSpaced`. `Receive`, `Approve`, `ApproveStanding`, `Deny`, the three
cancels and `Read` are the routes; `HandlerEnds` is settle with the bus's
`onSettled`; `Sweep` and `Boot` are the minute sweep and the start.

Each transaction of the code is atomic. `DiesIn` lists the places *between* two
of them where the process may die or the second may throw while the process lives
on: `CancelQueued`, `ExpireThrows`, `SweepThrows` and `BootUnswept` leave the first
write without the second and the server running; a process that dies there takes the
same step and then `Crash`, or `SweepDies` and `BootDies` where it has no time for
anything else. The re-check of a
claimed job runs in a microtask before any other callback: `MayWork` is evaluated
on the state the claim leaves (primed), and a job that fails it is `doomed` and
settles before anything else. A refused request still expires overdue approvals
first; that effect alone is `Read`.

### EventStream

`log`, `bytes`, `known` are the command's rows; `held`, `st`, `cursor` the
process's reader count and streams; `wire`, `conn`, `got` the socket and the
client. A poll (`Polls`) is synchronous and so one action: repair the log, send
every batch, end or re-arm. `PollThrows` is its `catch`, after some batches or
none. A frame may be lost with its connection after the server's cursor passed
it; only `Attach` at the client's own last id gets it back. A shutdown is, to a
reader, a crash. An expiry whose second write is lost is left to `CommandBus`.

### CliGate

`active` and `queue` are the semaphore. `pc[c]` is where a call of `spawnCli` or
`spawnCliStream` stands: `queued`, `granted` (its turn has come, its continuation
has not run), running on a `cold` child or a `warm` one, `retry` (a warm child was
no use), `done`. `left` are the aborted signals, `cold[c]` the child spawned for a
call's prompt, `kid[c]` the one spawned ahead by the respawn that call `c` armed,
`hand[c]` the idle child it took. `gen[c]` is `flushGeneration` as the call began.
`timer` is the one respawn timer; its callback awaits the memory probe, so
`RespawnTimer` and `Respawn` are the halves before and after that `await`, and a
`Flush` may come between. `Settle` is the end of a call (slot back, timer armed),
`RunCold` the other exit of a warm run. Every event of a child is an action:
output, result line, failing write, overflow, close, exit grace, idle time.

Left out: arguments, environments, prompts, outputs, the amount of memory (the
probe's answer is free) and the length of timers.

### DataDirMove

`kb`, `pre`, `notice`, `dir`, `staged`, `ownerFile`, `lock` are the file system: what
is under `kb/<f>`, `kb/<f>.pre-move`, the notice in `kb/`, the data directory, its
`.migrating` directory, `.migrating-owner` and `.migrating-lock`. A file is its
content: the user's (`orig`), a new one, an empty database, or a mark of the marker.
Per boot, `pc` is its step and `at`, `wipeOk`, `moved`, `i`, `put`, `due`, `key` the
locals of `runMigration`, `moveLegacy` and the boot that follows; `holds` is the
database it has open, which it keeps when somebody renames or deletes the file. Each action is one
step on the file system, so a boot can die, or another boot act, between any two:
`Commit` and `Grace` are one rename each, `Undo` one removal of the roll back,
`CleanUp` one of the later boot. `Stage` is one action because nothing reads the
staged directory but its owner. `ver` and `snap` count the writes to the user's
database in `kb/` and those in the copy, `late` those to the file once it was set aside.

The boot opens its database in three steps: `Open` makes an empty file when there is
none and has it open; `Connect`, its first statement, waits up to five seconds for a
mover's EXCLUSIVE lock on that very file (`Waits`, `BusyTimeout`), wherever the file is
by then, and fills an empty database; `OpenAgent` comes after the clean-up. A boot of
the old layout that opened the file before a move and got through its wait after it
thus serves the file that was renamed to `data.db.pre-move`: `Write` is a server's write
to the database in `kb/`, `WriteAside` one to the file set aside. `vault` is what the
user's database needs of the key file: `keyed`, `orphaned` (secrets, and the file
is gone: `stageSecrets` refuses) or `empty`. A boot that finds no key file generates
one, so its own key is another content of the file.

`Faults` says what goes wrong: a boot dies (`crash`), a check, copy, rename or write
fails (`step`), the roll back cannot remove a file (`undo`), and `race`: reading a
dead owner and removing its lock are two steps in the code, which is modelled as
such only with this fault, as is a boot that takes over five seconds from its `mkdir`
to its `owner.json`. `Handover` is the promise to the programs that use the old
location: `users` have its database open, and what they write after it was given up is
`lost`. In the initial state the data directory may already hold a key
or an empty database, as a server that ran there first leaves it.

### ChatLifecycle

One chat. On the server: the turns (`turn`, and of a running one the row's session
it read, whether it resumes it, and `currentSdkSessionId`), the update gate
(`updating`), the `agent_sessions` row (`map`), the transcripts (`script`), the archive
receipt and the server's tombstone (`tomb`). On the desktop: the app, the chat
`file`, its tombstone (`local`), where `chat_delete` stands (`del`) and two archive
runs, the sweep after a launch and the quit run (`run`). Between them: the purge
and delete requests under way (`asks`, `posts`). `deleted` and `later` record what
the properties speak of: whether the chat was deleted quietly, and the turns asked
for since. So do `stray`, the sessions whose transcript a failed removal or a failed
binding has left behind, and `spared`, that the file of the deleted chat would not move.

`Faults` has the two kinds of failure. With `fs`, each transcript to be removed may
stay without a word (`Purged`; `transcripts.mjs` passes over every error, and the row
goes all the same), a transcript may not show its time (`Unread`), and the chat file
may not move: `chat_delete` then fails and sends nothing (`Trash`), but the sweep that
enforces the tombstone goes on, sends the delete and forgets it when it is done
(`Tombs`). With `db`, a purge may fail before or after its rows are committed
(`Purge`), and a turn's session may not be bound (`Unbound`: `markAgentSessionUsed`
throws at line 875 and again in the `catch`, at 912). `MaxAge` is the year after which
the server takes the time of a delete for the present (`Since`).

`Ask` ends at the first `await` (the classifier), `Start` and `Refuse` come after
it, `SdkInit` and `End` are the two moments at which a turn binds its session.
`ServePurge` and `ServeDelete` are the routes; `Tombs`, `State`, `Verify`, `Receipt`,
`SendPurge` the calls of an archive run, which may stop or lose its app after each.
A request may be served at any later time, even after the app that sent it is gone.

Files, rows and transcripts are known by the time of their last change, for that is
what both sides compare. `TicksPerSecond` ticks make a second, and `Sec` stands where
the code cuts a time to whole seconds: the ISO time of a delete, the parse of the
server's times in the app (`parse_server_time` drops the fraction), and the
comparison of a receipt.

## 3. Runs

| Run | Question | Instance |
|---|---|---|
| `runner_safety` | lanes and their order, slots, restarts, `JobLifecycle` | 4 jobs, 2 users, 2 slots, claims may throw |
| `runner_faults` | no lost wakeup, shares, late handlers; does every job end? | 3 jobs, 3 lanes, ending writes may throw, fair |
| `bus_safety` | decisions race, quotas, `CommandLifecycle`, `JobLifecycle` | 3 commands, 2 kinds, break points |
| `bus_schedules` | slots, spacing, revocation | 2 runs of one schedule, asked at any time, 3 intervals |
| `bus_live` | is every command told its end? | 2 commands, every break but the expiry's, dead or alive, fair |
| `stream_safety` | caps, reader count, `EventFeed`; is every reader told the end? | 2 readers, 2 streams, limit 1, 2 faults, fair |
| `move_safety` | one mover, no file lost, key, originals, `Handover` | 3 boots, each kind of vault; crash, step, undo |
| `move_race` | is the copy current although the lock fails? does a wait end? | 2 boots; crash, race; fair |
| `move_takeover` | violation: two boots move at once | 3 boots; crash, race |
| `gate` | slots, right child, `SlotQueue`; does every call and child end? | 3 calls of 2 users, 1 slot, 1 idle child, 2 flushes, fair |
| `chat` | lock, transcripts, purge and delete against turns, kills and failures | 2 turns, 6 ticks of half a second; db, fs |
| `chat_receipt` | violation: a purge takes what the file does not hold | the same, no fault |

What they show. The queue, the bus, the streams, the gate and the move refine their
abstract specifications, and every property in the passing runs holds. Two statements of the
sources are refuted, each by a run:

- `move_takeover`: "nothing is wiped or deleted while another live process holds the
  lock" (`kb/data-dir-migration.mjs:14`). Two waiters that read the same dead owner
  remove two locks, the second one a live boot's. `move_race` shows what still
  protects the data then: the databases' own locks.
- `chat_receipt`: a receipt vouches for "the whole chat" (`kb/chat-lifecycle.mjs:314`).
  It is stamped when the server gets it, later than the look at the chat it rests on,
  so a turn that ends in between is not seen. `PurgedIsFiled` is what remains true.

### Known exceptions

These statements are in the modules without a run of their own, or hold in the runs
only because an instance leaves the case out. Each is refuted by TLC when the named
constant is changed.

| Statement | Where | Refuted with |
|---|---|---|
| `SlotFreed`: `execute()` settles a job without a handler before it registers it in `active`, and the slot is gone until the process ends | `kb/job-runner.mjs:84` | `runner_safety` with a job missing in `Handled` |
| `OneWriterPerLane`: the grace timer frees the lane while the handler still runs, so two writers can meet, against `docs/spec/command-bus.md:72` | `kb/job-runner.mjs:64` | `runner_faults` with `MCThreeLaneOf` |
| `CancelEndsCancelled`: after an ending write that threw, the orphan sweep ends a cancelled job as `interrupted`; the boot sweep and `docs/spec/job-runner.md:43` say `cancelled` | `kb/job-queue.mjs:148` | `runner_faults` with `MCThreeLaneOf` |
| `EveryCommandIsTold`: an expiry is two transactions, and what dies between them leaves a command with no terminal event for good, against `kb/bus-store.mjs:3-6` | `kb/bus-store.mjs:266` | `bus_live` with `"expire"` in `DiesIn` |
| a slot runs at most once, "however many windows or restarts there are" (`docs/spec/command-bus.md:134`): the request for a slot is held up until the slot is over and its first run purged, and runs again; `SlotRunsOnceInTime` is what remains | `ui/screens/shell/approvals/scheduler.ts:25` | `bus_schedules`, as an invariant that forbids any two runs of a slot |
| `NothingWrittenAside`: the lock read fails "while ANY other connection has the file open" (line 19); a server that has opened the file and not read it yet is no obstacle, waits for the lock, and writes to the file that was renamed meanwhile | `kb/data-dir-migration.mjs:322`, `kb/db.mjs:59` | `move_safety` with 2 boots |
| `NoOrphanTranscript` without `stray`: a removal that fails is silent and the row goes; a session whose binding fails twice is in no row | `llm_agent/sdk/transcripts.mjs:64`, `routes/agent-v2.mjs:912` | `chat` with either fault |
| `QuietDeleteGoes` without its exceptions: a sweep forgets a delete that the server has done although the file could not be moved | `desktop/src-tauri/src/chat_archive.rs:383-396` | `chat` with `"fs"` |
| `ReusedKeeps` without the age: a delete that is sent again after 365 days counts from then, and takes the chat that was used since it was asked | `routes/lifecycle-routes.mjs:197` | `chat` |
| `WipesBesideNoDatabase`: the comment says the absence of `data.db` is rechecked right before the wipe; it is not | `kb/data-dir-migration.mjs:211` | `move_race` |
| `NotReopenedFresh`: a boot in the old layout passes the tripwire, another moves the data, and the first opens a new database in `kb/` | `core/config.mjs:188` | `move_safety` with 2 boots |
| `DeletedGoes`: a chat deleted while its turn runs stays owed, and the end of that very turn then counts as a reuse, so the delete is dropped | `routes/lifecycle-routes.mjs:213` | `chat` with `TicksPerSecond` = 1 |

Three smaller things the chat model keeps as the code has them. The time of a delete
is cut to its second, so a chat used earlier in the second of its delete counts as
used after it and stays; `Quiet` therefore asks for nothing in that second. The delete
that the app sends at once names the time of the call, the one a sweep sends the time
of the tombstone. `DELETE /agent/v2/session` has no in-flight check.

`Handover` speaks of the old location alone. When the grace step or a roll back fails,
the database can be in both places, and later boots in different layouts then write to
different copies: the code says so in its report (`legacyDiverged`, the notes), and no
property says otherwise.

### Bounds and why they are enough

- `runner_safety` has a second job on one lane (the lock), a third of the same
  user (the share), a fourth of another user (the slots) and one resumable. Jobs
  are finite, each starts at most `MaxAttempts` = 2 times, so the space is finite
  with no bound on crashes, cancels or sweeps.
- Bus: `MaxNow` ends time; `now + Ttl < MaxNow` in `Receive` admits only commands
  whose deadline lies inside it, so that every expiry can happen. `bus_safety`:
  `MaxPending` = `MaxActive` = 2 of 3 commands, so that each quota refuses.
  `bus_schedules`: retention = interval, the tightest case the code allows
  (`maxIntervalMs` is the retention), over three intervals, so the row of a slot
  is purged while its successor is asked for, or while a late request for the slot
  itself is still on its way. The two runs are alike, and may name one slot or two.
- Streams: 4 rows and 8 bytes reach the row cap and the byte cap, and event
  sizes 1 and 4 make either come first; batches of 2 split a poll; `MaxFaults` = 2
  lost connections, errors or crashes; the reader limit is below the number of
  streams.
- A terminal event may have 16 KiB and the reserve is 8 KiB, so the 4 MiB of the
  document are exceeded by at most the marker and one terminal event when the
  log is exactly full: `LogBounded` says that, not the round number. The kinds
  shipped write far less than the cap.
- Gate: one slot makes every second call wait, and three calls give a queue of two,
  which tells first from last. Two calls share a key, so that one can take the child
  the other's respawn left; the third is of another user. Two flushes: one may fall
  before a respawn's timer and one into its `await`.
- Move: three boots are a dead owner, its successor and a rival. `MaxWrites` = 1: one
  write is enough to make the copy stale, and one to be lost. Nothing else is bounded.
  `move_safety` compares states by `MCView`, which leaves out what no action and no
  property reads any more: the memory of a boot that is gone, the locals of the move
  after it, the counter outside its loops.
- Chat: two turns are one that leaves a session and one that resumes, replaces or
  races it. The clock must advance for each stamp, so `MaxTime` = 6 bounds their
  number; two ticks to the second let two stamps fall in one second or in two.
  `MaxAge` = 3 ticks lets a delete grow too old. `MCView` leaves out what no later step
  and no property tells apart: times that are only compared by their seconds are cut to
  them, a receipt that no row can match any more and the runs without a row to archive
  count as none. Without the view the run passes too, over three times the states.
  The third case of `PurgedIsFiled` (a use that could not be recorded) takes eight
  ticks to be needed; on this instance the property holds without it too, and the
  theorem covers the rest.
- `MaxNow`, `MaxFaults`, `MaxFlushes`, `MaxWrites` and `MaxTime` are the bounds the code
  does not have; the proofs take each as any number, `MaxAge` and `Retention` too.
- Symmetry (boots, turns, the two runs of a schedule) is used in `move_safety`, `chat`
  and `bus_schedules`, which have no liveness property.
- `CHECK_DEADLOCK FALSE` in all but the runner's configurations: time ends, the
  command is purged and its readers are gone, all boots or calls are over, and
  nothing is left to do. In `JobRunner` the process can always crash or boot, so
  deadlock is checked.

### Fairness

- `JobRunner`: the deadline and grace timers fire, the minute sweep runs, a
  stopping process exits (`stop` waits a bounded time), the supervisor (desktop
  host or service manager) boots a new one. Nothing of handlers, clients, crashes.
- `CommandBus`: time, sweep, boot, exit, and that a held job ends, which
  `JobRunner` justifies by its timers. The fairness of `Boot` is strong: the process may
  die in the middle of its boot again and again, but one that is started again and
  again gets through its sweep some time. A sweep that throws is not the fair `Sweep`:
  one goes through some time. Nothing of clients or readers: the sweep alone must
  repair the log.
- `EventStream`: poll timers, the sweep's backfill, boot, socket delivery and
  `close`, and a client that attaches again. `EveryReaderIsTold` promises
  something to a reader that keeps trying, so its retries are assumed.
- `CliGate`: the event loop runs continuations, timers and awaited probes, and a child
  that was sent SIGTERM ends. The last is the operating system's only for a child that
  does not catch the signal: nothing in the gate sends SIGKILL, so with a child in
  `Stubborn` a timed-out call waits for ever. Nothing of answers or clients.
- `DataDirMove`: a process that lives takes its next step. No boot need start, no
  server stop, no lock time out.
- `ChatLifecycle`: none; whether a delete is ever answered depends on the app being
  started again.

### Mutants

Each property of a passing run has a mutant of the code beside the definition it
changes (a comment says what the bug is): a claim that forgets the lane, a settle
that does not pump, a quota that leaves out the waiting, a stream whose `catch`
does not release, a respawn that does not look at the flush generation again, a grace
step that rolls back, a receipt that is good for ever. Each mutant is refuted by the property it is paired with.

## 4. Proofs

All theorems are of `Spec`, for every value of the constants that satisfies the
named assumptions of the modules, and use no fairness.

- `JobRunnerProofs`: `Inv == TypeOK /\ SlotInv`. `SlotInv` says that slots,
  timers and handlers stand for running rows; without it a settle could move a
  row that is already final, and neither `FinishedStays` nor the life cycle is
  inductive. One lemma (`EveryStepHasShape`) reduces every action to the same
  shape, rows that move and a set a pump then claims; the lane lock, the life
  cycle, the order and the work conservation are proved of the shape, not of
  twenty actions. `SlotFreedHolds` assumes that every kind has a handler (else
  see the exceptions above), `WorkConservingHolds` that no claim query throws:
  with such an error the code really leaves rows waiting for the next request.
- `CommandBusProofs`: `Inv` is typing plus `Linked`, per command: which
  combinations of row, job, slot and terminal event there are. Each action is
  reduced to a `Move` of each command (`EveryStepMoves`), and the moves are
  compared with `CommandLifecycle`.
- `CommandBusRulesProofs`: lanes (`LaneInv`); the quotas, by counting, since only
  a receipt adds to what they count (`OnlyReceiptOpens`); the runs of a slot (`SlotInv`),
  from `Interval <= Retention` and the fact that nobody asks for a slot before it begins: a
  row is purged only when it is older than the retention, and whoever does not find
  the row of his slot asks when that slot is over; spacing, because
  a schedule's `lastRun` is never behind a run it approved (`RecordedAt`); and
  `BarredStaysOut`, across any number of steps: what barred a command stays so
  (`BarredForGood`), because `until` and the clock are monotonic and the id of a schedule
  that was removed is never live again (`NeverStandsAgain`, with `MadeAt`:
  whatever approved a run was made). A barred command may still be approved or claimed,
  but the pump that claims it meets the re-check, whoever runs that pump.
- `EventStreamProofs`: `Room` (a row kept free for the marker and one for the
  terminal event), `Lined` (the frames under way are exactly the ids between a
  client's last and its stream's cursor), `ReadersCounted` (set cardinalities).
  The refinement of `EventFeed` follows: a `Receive` is a `Give`, a new row is a
  `Write`.

- `CliGateProofs`: `Inv` has two parts. `Slots` counts: `active` is the cardinality of
  the calls that hold a slot, the queue names the waiting calls once each, and a
  release that finds one leaves the count alone. `Ahead` is what makes `WarmFits`
  inductive: an idle child's generation is the present one, and a child spawned ahead
  belongs to a call that is over and will not spawn again. Any `Stubborn` is allowed.
- `DataDirMoveProofs`: `CopyIsCurrent` is proved for all `Faults`, from `Copied`: the
  EXCLUSIVE lock on the database has one holder and excludes the servers on `kb/`,
  until the database is renamed; a boot that has opened the file and waits for the lock
  cannot write before that. The others assume `"race" \notin Faults`, which
  `move_takeover` shows is needed for the first of them. `Mutex` (who is under the lock owns it) gives
  `OneMover`; `Safe` says for each step of the mover where the user's files are;
  `Cleaning` that a clean-up meets only a completed move; `AllPlaced` and `Keyed` which
  key file a boot can have found, which rests on the grace step renaming the database
  before the key. A boot that holds the user's database loaded the key before it opened
  the file, so `Keyed` speaks of what it `holds`, not of where the file is.
  `ImplementsHandover` maps each step: the rename of the grace step is
  `GiveUp`, and `Copied` and `Safe` say at that moment that the copy holds every write;
  `Open` is a program's opening, `BusyTimeout`, `Stop` and `Crash` its closing,
  `WriteAside` a stray write.
  `CommitOverwritesNothing` closes the gap between the check of `data.db` and the
  renames, during which other boots open databases, and from it `WipeNeedsNoRecheck`:
  what the comment at line 209 asks of a second look, the lock already gives. Both
  assume no `race`; on the instance of `move_race` TLC refutes `WipesBesideNoDatabase`.
- The abstract specifications are linked by step simulation. `SlotQueue` never lets a
  slot lie idle while somebody waits; `CliGate` gives the slot to a call that may have
  been aborted and has not resumed yet, which is a holder all the same (`Holders`).
- What liveness rests on is proved, though liveness is not. Per component there is a
  rank that every change raises, so that nothing goes in circles, whatever fails:
  `RowsMoveOn` (a row, across restarts, from `MaxAttempts`), `CommandsMoveOn` (what a
  caller is shown), `CallsMoveOn` and `ChildrenGo` (a call, a child), `BootsMoveOn` (a
  boot, which may only return to the lock it did not get). And there is always someone
  to move: `WaitsOnATimer` (a queued row has a timer or an orphan between it and its
  turn), `QueueServed` (a queued command has a running one before it),
  `NoChildForgotten`, `WaitsForSomeone` (a boot waits for a live owner, or goes on).
  What is missing to `EveryJobEnds` and the like is the fairness of the timers and of
  the processes, and the induction over the rank: those are TLC's.
- Two proofs say what one step repairs. `SweepTells`: whatever broke before, after one
  sweep or boot no ended command lacks its event but for a torn expiry, the exception
  above. `OnePollTells`: one poll after the end puts under way all that a reader
  lacks. `EventTellsTheEnd` and `LogEndsOnce` say that what they write is true and last.
- `ChatLifecycleProofs`: `Owned` ties each transcript to the row, to the running turn or
  to a failure (`stray`) and gives the lock and `NoOrphanTranscript`; `UsedAgain` says
  that the row of a chat taken up again is newer than every time named for the delete;
  `Written` and `Vouched` that the row is as new as its transcript, but for a use that
  could not be recorded, and what a run or a receipt knew of it; `Calm` that all that is
  left of a quietly deleted chat is older than every time named for its delete. A
  removal that fails only thins what a purge takes (`PurgedThins`), which keeps all of
  these. `FileFirst` says that no delete is on its way whose file was not moved or
  spared, `Aged` that the time a delete counts from never passes the clock. The
  arithmetic of whole seconds is one lemma on `Sec`.
- `FairShare` is proved by looking at the last claimed job of a user: the claim query
  saw room for it, and a pump only adds (`LimitKept`; every kind has a handler, or a
  claimed row is settled at once and counts no more). `OnlyTimedOutLinger` follows from
  `LingerInv`: a handler without a slot was aborted and its row is final or orphaned.

| Property | Checked | Proved |
|---|---|---|
| `JobRunner`: all safety properties of its runs | yes | yes |
| `JobRunner`: `FinishedStays`, `RunningIsHeld` | | yes |
| `CommandBus`: all safety properties of its runs | yes | yes |
| `EventStream`: all safety properties of its runs | yes | yes |
| `JobRunner`: `WaitsOnATimer`, `ShareOrLane`, `RowsMoveOn` | | yes |
| `CommandBus`: `EventTellsTheEnd`, `CommandsMoveOn`, `SweepTells`, `QueueServed` | | yes |
| `EventStream`: `LogEndsOnce`, `OnePollTells` | | yes |
| `CliGate`: `SlotsExact`, `WarmFits`, `KeepsSlotQueue` | yes | yes |
| `CliGate`: `NoOvertaking`, `CallsMoveOn`, `ChildrenGo`, `NoChildForgotten` | | yes |
| `DataDirMove`: `OneMover`, `NeverLost`, `KeyFits`, `KeepsHandover`, `OriginalsOutliveTheMove`, `CopyIsCurrent` | yes | yes |
| `DataDirMove`: `RefusalHasData`, `CommitsBesideNoDatabase`, `WipesBesideNoDatabase`, `WaitsForSomeone`, `BootsMoveOn` | | yes |
| `ChatLifecycle`: `OneTurn`, `NoOrphanTranscript`, `PurgedIsFiled`, `QuietDeleteGoes`, `ReusedKeeps` | yes | yes |
| `TypeOK` of every module | | yes |
| `EveryJobEnds`, `EveryCommandIsTold`, `EveryReaderIsTold`, `EveryCallEnds`, `NoChildLingers`, `WaitsEnd` | yes | no: liveness |

The properties without a run of their own hold on the instances of the runs too when
they are added to the configuration and the assumptions of their theorems are met (no
`race`; every kind has a handler and no claim query throws).

Out of the prover's reach, and left to TLC: liveness under fairness and
`ENABLED`; induction over data; `RECURSIVE` operators (none is used).

## 5. Plan

Done: `JobRunner`, `CommandBus`, `EventStream`, `CliGate`, `DataDirMove`,
`ChatLifecycle`, with every safety property of their runs proved, six refinements among them. Still to
state and prove of these: an abstract specification of a chat (filed, deleted, taken up
again) that `ChatLifecycle` implements, and the ranks of an archive run and of the
requests it sends. Of the components without a model, what would come next, in the order of how much hangs on it:

1. `HostApproval`: one-use nonces and Bypass grants with eviction, expiry and a clock;
   abstract spec: a nonce is accepted at most once.
2. `SyncPublish` and `SyncInbox`: a store seen half written, requests delivered twice,
   epochs; abstract spec: at most one execution per request.
3. `HostApi`: sessions, `rev`, PIN pairing, throttle.
4. `ProcessGroup` under `CliGate` and the runner's handlers: pids and kill timers.
5. `AgentStore`, `DesktopSupervisor`, `LiveCapture`, refresh rotation.

## 6. Not modelled

Most of the repository's code has no protocol between actors to check. User
interfaces (`ui`, `web`, `ios_app`, `extension/src`) and the API types are
presentation; connectors are network I/O around a cursor; the knowledge base, reviews
and planning change one table per transaction; the routers and the agent engine pass
data on. A model of those would restate them line by line.

Within the modelled parts:

- Queue, bus and streams: payloads, redaction, shortening of events, wording of
  errors, engines and their availability, HTTP framing, pings and backpressure. A claim query that throws leaves rows queued until the
  next request (`kb/job-queue.mjs:79`): `"claim"` in `DbErrors` has it, and
  `WorkConserving` and `EveryJobEnds` are stated without it.
- CLI gate: a child that ignores SIGTERM is in the model and the safety theorems
  (`Stubborn`), not in the liveness run. An abort gives the slot back while its child
  still dies, so more children than slots can run for a moment; that is the code's, and
  no property says otherwise. Process groups are not modelled.
- Data-directory move: `LLMIDE_DB_PATH`, the test runner, `LLMIDE_ALLOW_EMPTY_LEGACY`,
  file sizes and fingerprints (a committed file equals its source or does not), the
  SDK homes (they move with `agent.db`), the write-ahead log (it follows its database),
  `LLMIDE_VAULT_KEY` (with it the vault needs no key file), connections to `agent.db` (a
  server on `kb/` that has only that file open makes a move roll back, which it may do
  at any step anyway).
  A pid that is reused after a crash is left out: such a lock is waited for and then
  passed over, as a live owner's is.
- Chat: a delete whose time is over a minute ahead of the server's clock (app and server
  run on one machine and read one clock), the attempt and back-off counters of owed purges, `replaySessionPurges` (nothing
  calls it), the orphan purge path (it has no caller), `archiveBegin` and
  `archiveCommit`, the high-water check of a receipt, facts, route rows, `chat_sessions`
  rows and continuations (they go with the row), other programs that write the chat file, and a
  server that dies in the middle of a turn.

## 7. Running

```
tlc -workers 2 -config MCJobRunnerSafety.cfg MCJobRunner
tlapm JobRunnerProofs.tla
```

`PROJECT.json` lists the runs, the mutants, the theorems, and for every
definition the source lines it models.
