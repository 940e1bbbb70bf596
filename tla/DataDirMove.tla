----------------------------- MODULE DataDirMove -----------------------------
(***************************************************************************)
(* The one-time move of the repository's kb/ data into the data directory  *)
(* (extension/kb/data-dir-migration.mjs), run by every boot of the server: *)
(* the lock directory, the staged copy, the commit by rename, the roll     *)
(* back, the grace step, and the clean-up by the next healthy boot.        *)
(*                                                                         *)
(* A boot is a process: it starts once, in one layout, and its pid is not  *)
(* reused.  Several boots run at once and each may die between two steps.  *)
(*                                                                         *)
(* Abstractions: a file is its content, "orig" when it is the user's, and  *)
(* a boot when that boot generated it; the SDK homes stand with agent.db;  *)
(* a WAL follows its database; a server keeps its databases open until it  *)
(* stops; what a server writes to an agent.db while it is moved is not     *)
(* counted; LLMIDE_DB_PATH, LLMIDE_VAULT_KEY, LLMIDE_ALLOW_EMPTY_LEGACY    *)
(* and the test runner are left out.                                       *)
(***************************************************************************)
EXTENDS Integers, Sequences

CONSTANTS
    Boots,      \* boots of a server
    MaxWrites,  \* bound of this model: writes to the user's database in kb/
    Vaults,     \* what the user's database may hold, of the following
    Faults      \* what goes wrong, of those below

(* "crash": a boot dies between two steps.  "step": a check, a copy, a     *)
(* rename or a write fails.  "undo": the roll back cannot remove a file.   *)
(* "race": the two steps of a takeover (read the owner, remove the lock)   *)
(* come apart, or a boot takes over 5 s from its mkdir to its owner.json.  *)
ASSUME FaultAssumption ==
    Faults \subseteq {"crash", "step", "undo", "race"} /\ MaxWrites \in Nat

(* "keyed": secrets, and the key file is there.  "orphaned": secrets whose *)
(* key file is gone.  "empty": no secrets and no key file.                 *)
ASSUME VaultAssumption == Vaults \subseteq {"keyed", "orphaned", "empty"}
ASSUME BootAssumption == Boots \cap {"free", "bare", "none", "orig", "fresh", "empty"} = {}

Files == {"agent", "secrets", "data"}
Items == Files \cup {"marker"}
CommitOrder == <<"agent", "secrets", "marker", "data">>
GraceOrder == <<"data", "agent", "secrets">>

VARIABLES
    \* the file system
    kb,         \* kb[f]: <repo>/kb/f
    pre,        \* pre[f]: <repo>/kb/f.pre-move
    notice,     \* <repo>/kb/MOVED-TO-APP-SUPPORT.txt exists
    dir,        \* dir[x]: <dataDir>/x
    staged,     \* staged[x]: <dataDir>/.migrating/x
    ownerFile,  \* <dataDir>/.migrating-owner exists
    lock,       \* .migrating-lock: "free", "bare" (no owner.json), or its owner
    \* the boots
    pc,         \* pc[b]: where b stands
    at,         \* at[b]: the layout b opens
    wipeOk,     \* wipeAllowed
    moved,      \* moved[b]: the files b moves
    i,          \* i[b]: the place in its loop
    put,        \* put[b]: `committed`
    due,        \* graceCleanupDue
    key,        \* key[b]: the vault key b loaded
    holds,      \* holds[b]: the database b opened, wherever it is now
    \* the user, and ghosts
    vault,      \* what the user's database holds, of Vaults
    ver,        \* writes to the user's database in kb/
    snap,       \* those the last snapshot holds
    late        \* writes to the user's database after it was set aside

files == <<kb, pre, notice, dir, staged, ownerFile, vault, ver, snap, late>>
own == <<at, wipeOk, moved, i, put, due, key, holds>>
vars == <<files, lock, pc, own>>

(* The user's files are in kb/.  A server that ran on the data directory   *)
(* before may have left a key and an empty database there.                 *)
Init ==
    /\ vault \in Vaults
    /\ kb = [f \in Files |-> IF f = "secrets" /\ vault # "keyed" THEN "none" ELSE "orig"]
    /\ pre = [f \in Files |-> "none"] /\ notice = FALSE
    /\ \E d \in {"none", "empty"}, k \in {"none", "fresh"} :
         dir = [x \in Items |-> IF x = "data" THEN d ELSE IF x = "secrets" THEN k ELSE "none"]
    /\ staged = [x \in Items |-> "none"] /\ ownerFile = FALSE /\ lock = "free"
    /\ ver = 0 /\ snap = 0 /\ late = 0
    /\ pc = [b \in Boots |-> "off"] /\ at = [b \in Boots |-> "dir"]
    /\ wipeOk = [b \in Boots |-> FALSE] /\ moved = [b \in Boots |-> {}]
    /\ i = [b \in Boots |-> 1] /\ put = [b \in Boots |-> {}]
    /\ due = [b \in Boots |-> FALSE] /\ key = [b \in Boots |-> "none"]
    /\ holds = [b \in Boots |-> "none"]

Goto(b, l) == pc' = [pc EXCEPT ![b] = l]
Released(b) == IF lock = b THEN "free" ELSE lock

-----------------------------------------------------------------------------
(* The lock.                                                               *)

Start(b, layout) ==
    /\ pc[b] = "off" /\ at' = [at EXCEPT ![b] = layout]
    /\ Goto(b, IF layout = "dir" THEN "acquire" ELSE "config")
    /\ UNCHANGED <<files, lock, wipeOk, moved, i, put, due, key, holds>>

Mkdir(b) ==
    /\ pc[b] = "acquire" /\ lock = "free"
    /\ lock' = "bare" /\ Goto(b, "owner")
    /\ UNCHANGED <<files, own>>

(* runMigration's fallback: this run uses kb/.                             *)
FallBack(b) == Goto(b, "config") /\ at' = [at EXCEPT ![b] = "kb"]

(* owner.json, in whatever directory is there; an error when there is none. *)
WriteOwner(b) ==
    /\ pc[b] = "owner"
    /\ \/ lock # "free" /\ lock' = b /\ Goto(b, "check") /\ UNCHANGED at
       \/ lock = "free" /\ FallBack(b) /\ UNCHANGED lock
    /\ UNCHANGED <<files, wipeOk, moved, i, put, due, key, holds>>

(* Mutants: a lock is taken over whoever holds it; it never is.            *)
AlwaysStale == lock # "free"
NeverStale == FALSE

Stale ==
    \/ lock \in Boots /\ pc[lock] = "gone"
    \/ lock = "bare" /\ ("race" \in Faults \/ \A c \in Boots : pc[c] # "owner")

(* A stale lock is removed; with "race" in a step of its own, when it may  *)
(* be another boot's.                                                      *)
TakeOver(b) ==
    /\ pc[b] = "acquire" /\ Stale
    /\ IF "race" \in Faults THEN Goto(b, "remove") /\ UNCHANGED lock
                            ELSE lock' = "free" /\ UNCHANGED pc
    /\ UNCHANGED <<files, own>>

RemoveLock(b) ==
    /\ pc[b] = "remove" /\ lock' = "free" /\ Goto(b, "acquire")
    /\ UNCHANGED <<files, own>>

LockTimeout(b) ==
    /\ pc[b] = "acquire" /\ lock # "free" /\ FallBack(b)
    /\ UNCHANGED <<files, lock, wipeOk, moved, i, put, due, key, holds>>

-----------------------------------------------------------------------------
(* underLock and the start of moveLegacy.                                  *)

(* Mutant: a move whose files are still in place is cleaned up too.        *)
DueAtOnce(m) == m # "none"

(* graceCleanupDue; the boot that moved never comes here.                  *)
GraceDue(m) == m = "done"

(* Mutant: a move that was cleaned up counts as none.                      *)
IsMovedOnce == dir["data"] # "none" /\ dir["marker"] = "done"

IsMoved ==
    dir["data"] # "none" /\ ~(dir["data"] = "empty" /\ dir["marker"] = "none")

(* Nothing to move: an earlier boot did, or kb/ has no database.  An empty *)
(* data.db without a marker is moved aside first.                          *)
Skip(b) ==
    /\ pc[b] = "check" /\ (IsMoved \/ kb["data"] = "none")
    /\ dir' = IF IsMoved THEN dir ELSE [dir EXCEPT !["data"] = "none"]
    /\ due' = [due EXCEPT ![b] = IsMoved /\ GraceDue(dir["marker"])]
    /\ lock' = Released(b) /\ Goto(b, "config")
    /\ UNCHANGED <<kb, pre, notice, staged, ownerFile, vault, ver, snap, late, at, wipeOk, moved, i,
                   put, key, holds>>

(* What the move takes, and whether it may wipe, as the files are now.     *)
Decide(b) ==
    /\ pc[b] = "check" /\ ~IsMoved /\ kb["data"] # "none"
    /\ dir' = [dir EXCEPT !["data"] = "none"]
    /\ wipeOk' = [wipeOk EXCEPT ![b] = ownerFile]
    /\ moved' = [moved EXCEPT ![b] =
            {f \in {"data", "agent"} :
                kb[f] # "none" /\ (f = "agent" /\ dir[f] # "none" => ownerFile)}]
    /\ Goto(b, "wipe")
    /\ UNCHANGED <<kb, pre, notice, staged, ownerFile, vault, ver, snap, late, lock, at, i, put,
                   due, key, holds>>

(* No space, or an unexpected error: the lock goes, the owner file stays.  *)
GiveUp(b) ==
    /\ pc[b] = "wipe" /\ "step" \in Faults
    /\ FallBack(b) /\ lock' = Released(b)
    /\ UNCHANGED <<files, wipeOk, moved, i, put, due, key, holds>>

(* What an interrupted move left goes.                                     *)
Wiped(b) == IF wipeOk[b] THEN [x \in Items |-> IF x = "data" THEN dir[x] ELSE "none"] ELSE dir

Wipe(b) ==
    /\ pc[b] = "wipe" /\ dir' = Wiped(b)
    /\ ownerFile' = TRUE /\ staged' = [x \in Items |-> "none"]
    /\ Goto(b, "lockdb")
    /\ UNCHANGED <<kb, pre, notice, vault, ver, snap, late, lock, own>>

-----------------------------------------------------------------------------
(* The move: staged, committed, verified, or rolled back.                  *)

(* The boots whose EXCLUSIVE lock is on the user's database, wherever it   *)
(* is, and those that have the database in kb/ open and have read it.      *)
Excluding == {b \in Boots : pc[b] \in {"stage", "commit", "grace"}}
Connected ==
    {b \in Boots : pc[b] \in {"agent", "serving"} /\ at[b] = "kb" /\ holds[b] = kb["data"]}

(* Mutant: the database in kb/ may be in use.                              *)
InUseIgnored(b) == FALSE

InUse(b) == kb["data"] = "none" \/ Excluding # {} \/ Connected # {}

LockLegacy(b) ==
    /\ pc[b] = "lockdb"
    /\ Goto(b, IF InUse(b) THEN "undo" ELSE "stage")
    /\ UNCHANGED <<files, lock, own>>

(* stageSecrets refuses another key file than the one that is there, and a *)
(* vault whose key file is missing.                                        *)
SecretsRefused ==
    IF kb["secrets"] = "none" THEN vault = "orphaned"
                              ELSE dir["secrets"] \notin {"none", kb["secrets"]}

(* The snapshot, the copies and the marker; the secrets are looked for now. *)
Stage(b) ==
    /\ pc[b] = "stage" /\ ~SecretsRefused
    /\ LET m == moved[b] \cup {f \in {"secrets"} : kb[f] # "none"} IN
         /\ moved' = [moved EXCEPT ![b] = m]
         /\ staged' = [x \in Items |->
                IF x = "marker" THEN "begun"
                ELSE IF x \in m /\ (x = "secrets" => dir[x] = "none") THEN kb[x] ELSE "none"]
    /\ snap' = ver
    /\ i' = [i EXCEPT ![b] = 1] /\ Goto(b, "commit")
    /\ UNCHANGED <<kb, pre, notice, dir, ownerFile, vault, ver, late, lock, at, wipeOk, put, due,
                   key, holds>>

StageRefused(b) ==
    /\ pc[b] = "stage" /\ SecretsRefused /\ Goto(b, "undo")
    /\ UNCHANGED <<files, lock, own>>

(* One rename; a name that is not staged is passed over.                   *)
Commit(b) ==
    /\ pc[b] = "commit" /\ i[b] <= 4
    /\ LET x == CommitOrder[i[b]] IN
         IF staged[x] = "none" THEN UNCHANGED <<dir, staged, put>>
         ELSE /\ dir' = [dir EXCEPT ![x] = staged[x]] /\ staged' = [staged EXCEPT ![x] = "none"]
              /\ put' = [put EXCEPT ![b] = @ \cup {x}]
    /\ i' = [i EXCEPT ![b] = @ + 1]
    /\ UNCHANGED <<kb, pre, notice, ownerFile, vault, ver, snap, late, lock, pc, at, wipeOk, moved,
                   due, key, holds>>

(* verifyCommitted: the committed files are those of the source.           *)
Verify(b) ==
    /\ pc[b] = "commit" /\ i[b] = 5
    /\ Goto(b, IF \A f \in moved[b] : dir[f] = kb[f] THEN "grace" ELSE "undo")
    /\ i' = [i EXCEPT ![b] = 1]
    /\ UNCHANGED <<files, lock, at, wipeOk, moved, put, due, key, holds>>

(* Any failure up to here rolls back.                                      *)
StepFails(b) ==
    /\ pc[b] \in {"stage", "commit"} /\ "step" \in Faults
    /\ Goto(b, "undo")
    /\ UNCHANGED <<files, lock, own>>

LastPut(s) == CHOOSE x \in s : \A y \in s : \E m, n \in 1..4 :
                  m >= n /\ CommitOrder[m] = x /\ CommitOrder[n] = y

(* The last file committed is removed; a failure is noted and passed over. *)
Undo(b) ==
    /\ pc[b] = "undo" /\ put[b] # {}
    /\ LET x == LastPut(put[b]) IN
         /\ put' = [put EXCEPT ![b] = @ \ {x}]
         /\ \/ dir' = [dir EXCEPT ![x] = "none"]
            \/ "undo" \in Faults /\ UNCHANGED dir
    /\ UNCHANGED <<kb, pre, notice, staged, ownerFile, vault, ver, snap, late, lock, pc, at, wipeOk,
                   moved, i, due, key, holds>>

Undone(b) ==
    /\ pc[b] = "undo" /\ put[b] = {} /\ FallBack(b)
    /\ staged' = [x \in Items |-> "none"] /\ ownerFile' = FALSE /\ lock' = Released(b)
    /\ UNCHANGED <<kb, pre, notice, dir, vault, ver, snap, late, wipeOk, moved, i, put, due, key,
                   holds>>

-----------------------------------------------------------------------------
(* The grace step.                                                         *)

Grace(b) ==
    /\ pc[b] = "grace" /\ i[b] <= 3
    /\ LET f == GraceOrder[i[b]] IN
         IF f \in moved[b] /\ ~(f = "secrets" /\ kb[f] = "none")
         THEN kb[f] # "none" /\ pre' = [pre EXCEPT ![f] = kb[f]] /\ kb' = [kb EXCEPT ![f] = "none"]
         ELSE UNCHANGED <<kb, pre>>
    /\ i' = [i EXCEPT ![b] = @ + 1]
    /\ UNCHANGED <<notice, dir, staged, ownerFile, vault, ver, snap, late, lock, pc, at, wipeOk,
                   moved, put, due, key, holds>>

(* The databases are closed and the marker completed; the notice is last.  *)
Complete(b) ==
    /\ pc[b] = "grace" /\ i[b] = 4
    /\ dir' = [dir EXCEPT !["marker"] = "done"] /\ Goto(b, "tell")
    /\ UNCHANGED <<kb, pre, notice, staged, ownerFile, vault, ver, snap, late, lock, own>>

Tell(b) ==
    /\ pc[b] = "tell"
    /\ notice' = TRUE \/ ("step" \in Faults /\ UNCHANGED notice)
    /\ Goto(b, "finish")
    /\ UNCHANGED <<kb, pre, dir, staged, ownerFile, vault, ver, snap, late, lock, own>>

GraceMayFail(b) ==
    /\ pc[b] = "grace"
    /\ \/ "step" \in Faults
       \/ /\ i[b] <= 3 /\ GraceOrder[i[b]] \in moved[b] \ {"secrets"}
          /\ kb[GraceOrder[i[b]]] = "none"

(* Mutant: a failure of the grace step rolls back.                         *)
GraceUndone(b) ==
    /\ GraceMayFail(b) /\ Goto(b, "undo")
    /\ UNCHANGED <<files, lock, own>>

(* A failure keeps the new copy.                                           *)
GraceFails(b) ==
    /\ GraceMayFail(b) /\ Goto(b, "finish")
    /\ UNCHANGED <<files, lock, own>>

Finish(b) ==
    /\ pc[b] = "finish" /\ Goto(b, "config")
    /\ staged' = [x \in Items |-> "none"] /\ ownerFile' = FALSE /\ lock' = Released(b)
    /\ UNCHANGED <<kb, pre, notice, dir, vault, ver, snap, late, own>>

-----------------------------------------------------------------------------
(* The boot itself, in the layout it ended up with.                        *)

(* Mutant: the data directory's key file is the only one read.             *)
OwnKeyOnly(b) == IF at[b] = "dir" THEN dir["secrets"] ELSE kb["secrets"]

(* loadDevSecrets: the layout's own key file, else that of kb/.            *)
KeyFile(b) == IF at[b] = "dir" /\ dir["secrets"] # "none" THEN dir["secrets"] ELSE kb["secrets"]

Trips(b) == at[b] = "kb" /\ notice /\ kb["data"] = "none"

(* The tripwire, then the secrets: generated when there is no key file.    *)
Config(b) ==
    /\ pc[b] = "config" /\ ~Trips(b)
    /\ Goto(b, "open")
    /\ IF KeyFile(b) # "none"
       THEN key' = [key EXCEPT ![b] = KeyFile(b)] /\ UNCHANGED <<kb, dir>>
       ELSE /\ key' = [key EXCEPT ![b] = b]
            /\ IF at[b] = "dir" THEN dir' = [dir EXCEPT !["secrets"] = b] /\ UNCHANGED kb
                                ELSE kb' = [kb EXCEPT !["secrets"] = b] /\ UNCHANGED dir
    /\ UNCHANGED <<pre, notice, staged, ownerFile, vault, ver, snap, late, lock, at, wipeOk, moved,
                   i, put, due, holds>>

Refused(b) ==
    /\ pc[b] = "config" /\ Trips(b) /\ Goto(b, "gone")
    /\ UNCHANGED <<files, lock, own>>

(* The layout's file f is made, with content c, where there is none.       *)
Made(d, f, c) == IF d[f] = "none" THEN [d EXCEPT ![f] = c] ELSE d

(* getDb opens data.db, an empty file when there was none.                 *)
Open(b) ==
    /\ pc[b] = "open" /\ Goto(b, "connect")
    /\ IF at[b] = "dir" THEN dir' = Made(dir, "data", "empty") /\ UNCHANGED kb
                        ELSE kb' = Made(kb, "data", "empty") /\ UNCHANGED dir
    /\ holds' = [holds EXCEPT ![b] = IF at[b] = "dir" THEN dir'["data"] ELSE kb'["data"]]
    /\ UNCHANGED <<pre, notice, staged, ownerFile, vault, ver, snap, late, lock, at, wipeOk, moved,
                   i, put, due, key>>

(* A mover's lock is on the file that b opened.                            *)
Waits(b) == at[b] = "kb" /\ holds[b] = "orig" /\ Excluding # {}

Filled(d) == IF d["data"] = "empty" THEN [d EXCEPT !["data"] = "fresh"] ELSE d

(* Its first statement waits for the lock, if there is one; then an empty  *)
(* database gets its tables.                                               *)
Connect(b) ==
    /\ pc[b] = "connect" /\ ~Waits(b)
    /\ Goto(b, IF at[b] = "dir" /\ due[b] THEN "cleanup" ELSE "agent")
    /\ i' = [i EXCEPT ![b] = 1]
    /\ IF holds[b] # "empty" THEN UNCHANGED <<kb, dir, holds>>
       ELSE /\ holds' = [holds EXCEPT ![b] = "fresh"]
            /\ IF at[b] = "dir" THEN dir' = Filled(dir) /\ UNCHANGED kb
                                ELSE kb' = Filled(kb) /\ UNCHANGED dir
    /\ UNCHANGED <<pre, notice, staged, ownerFile, vault, ver, snap, late, lock, at, wipeOk, moved,
                   put, due, key>>

(* The wait lasts five seconds at most.                                    *)
BusyTimeout(b) ==
    /\ pc[b] = "connect" /\ Waits(b) /\ Goto(b, "gone")
    /\ UNCHANGED <<files, lock, own>>

OpenAgent(b) ==
    /\ pc[b] = "agent" /\ Goto(b, "serving")
    /\ IF at[b] = "dir" THEN dir' = Made(dir, "agent", "fresh") /\ UNCHANGED kb
                        ELSE kb' = Made(kb, "agent", "fresh") /\ UNCHANGED dir
    /\ UNCHANGED <<pre, notice, staged, ownerFile, vault, ver, snap, late, lock, own>>

(* completeGraceAfterHealthyBoot: one file at a time; one that cannot be   *)
(* removed is kept, and the marker with it.                                *)
CleanUp(b) ==
    /\ pc[b] = "cleanup" /\ i[b] <= 3
    /\ \/ pre' = [pre EXCEPT ![GraceOrder[i[b]]] = "none"]
       \/ "step" \in Faults /\ UNCHANGED pre
    /\ i' = [i EXCEPT ![b] = @ + 1]
    /\ UNCHANGED <<kb, notice, dir, staged, ownerFile, vault, ver, snap, late, lock, pc, at, wipeOk,
                   moved, put, due, key, holds>>

CleanedUp(b) ==
    /\ pc[b] = "cleanup" /\ i[b] = 4 /\ Goto(b, "agent")
    /\ dir' = IF (\A f \in Files : pre[f] = "none") /\ dir["marker"] # "none"
              THEN [dir EXCEPT !["marker"] = "closed"] ELSE dir
    /\ UNCHANGED <<kb, pre, notice, staged, ownerFile, vault, ver, snap, late, lock, own>>

(* A server on kb/ writes to the user's database ...                       *)
Write(b) ==
    /\ pc[b] = "serving" /\ at[b] = "kb" /\ holds[b] = "orig"
    /\ kb["data"] = "orig" /\ ver < MaxWrites /\ ver' = ver + 1
    /\ UNCHANGED <<kb, pre, notice, dir, staged, ownerFile, vault, snap, late, lock, pc, own>>

(* ... also when the file it has open was set aside, or deleted, since.    *)
WriteAside(b) ==
    /\ pc[b] = "serving" /\ at[b] = "kb" /\ holds[b] = "orig"
    /\ kb["data"] # "orig" /\ late < MaxWrites /\ late' = late + 1
    /\ UNCHANGED <<kb, pre, notice, dir, staged, ownerFile, vault, ver, snap, lock, pc, own>>

Stop(b) ==
    /\ pc[b] = "serving" /\ Goto(b, "gone")
    /\ UNCHANGED <<files, lock, own>>

Crash(b) ==
    /\ "crash" \in Faults /\ pc[b] \notin {"off", "serving", "gone"} /\ Goto(b, "gone")
    /\ UNCHANGED <<files, lock, own>>

-----------------------------------------------------------------------------
Locking(b) == Mkdir(b) \/ WriteOwner(b) \/ TakeOver(b) \/ RemoveLock(b)
Moving(b) ==
    \/ Skip(b) \/ Decide(b) \/ Wipe(b) \/ LockLegacy(b) \/ Stage(b) \/ StageRefused(b)
    \/ Commit(b) \/ Verify(b) \/ Undo(b) \/ Undone(b)
    \/ Grace(b) \/ Complete(b) \/ Tell(b) \/ Finish(b)
Booting(b) ==
    \/ Config(b) \/ Refused(b) \/ Open(b) \/ Connect(b)
    \/ CleanUp(b) \/ CleanedUp(b) \/ OpenAgent(b)
Failing(b) ==
    LockTimeout(b) \/ GiveUp(b) \/ StepFails(b) \/ GraceFails(b) \/ BusyTimeout(b) \/ Crash(b)

Next == \E b \in Boots :
    \/ \E layout \in {"dir", "kb"} : Start(b, layout)
    \/ Locking(b) \/ Moving(b) \/ Booting(b) \/ Failing(b)
    \/ Write(b) \/ WriteAside(b) \/ Stop(b)

Spec == Init /\ [][Next]_vars

(* A process that runs takes its next step; nothing makes a boot start, a  *)
(* server stop, or a step fail.                                            *)
FairSpec == Spec /\ \A b \in Boots : WF_vars(Locking(b) \/ Moving(b) \/ Booting(b))

-----------------------------------------------------------------------------
Contents == {"none", "orig", "fresh", "empty"} \cup Boots
Marks == {"none", "begun", "done", "closed"}
Held == {"check", "wipe", "lockdb", "stage", "commit", "undo", "grace", "tell", "finish"}
Places == {"off", "acquire", "remove", "owner", "config", "open", "connect", "cleanup", "agent",
           "serving", "gone"}

TypeOK ==
    /\ kb \in [Files -> Contents] /\ pre \in [Files -> Contents] /\ notice \in BOOLEAN
    /\ dir \in [Items -> Contents \cup Marks] /\ staged \in [Items -> Contents \cup Marks]
    /\ ownerFile \in BOOLEAN /\ lock \in Boots \cup {"free", "bare"}
    /\ pc \in [Boots -> Held \cup Places] /\ at \in [Boots -> {"dir", "kb"}]
    /\ wipeOk \in [Boots -> BOOLEAN] /\ moved \in [Boots -> SUBSET Files]
    /\ i \in [Boots -> 1..5] /\ put \in [Boots -> SUBSET Items]
    /\ due \in [Boots -> BOOLEAN] /\ key \in [Boots -> Contents] /\ holds \in [Boots -> Contents]
    /\ vault \in Vaults /\ ver \in 0..MaxWrites /\ snap \in 0..MaxWrites /\ late \in 0..MaxWrites

(* One boot at a time is under the lock: nothing is wiped, committed or    *)
(* rolled back beside another live boot that holds it                      *)
(* (data-dir-migration.mjs:14).                                            *)
OneMover == \A b, c \in Boots : pc[b] \in Held /\ pc[c] \in Held => b = c

(* A vault without a key file had no secrets file to lose.                 *)
UserFiles == IF vault = "keyed" THEN Files ELSE Files \ {"secrets"}

(* Wherever the boots died or failed, each of the user's files is whole in *)
(* kb/, in its .pre-move copy or in the data directory (moveLegacy,        *)
(* completeGraceAfterHealthyBoot).                                         *)
NeverLost == \A f \in UserFiles : "orig" \in {kb[f], pre[f], dir[f]}

(* When the database is renamed aside, the copy holds every write that was *)
(* made to it until then (lockLegacy).  A server that opened the file      *)
(* before and waited for the lock may still write to it after that: late.  *)
CopyIsCurrent == pre["data"] = "orig" /\ dir["data"] = "orig" => snap = ver

(* A server that opened the user's database has the key that opens its     *)
(* vault, whatever a roll back left (stageSecrets, loadDevSecrets).        *)
KeyFits ==
    vault = "keyed" =>
        \A b \in Boots : pc[b] = "serving" /\ holds[b] = "orig" => key[b] = "orig"

(* The tripwire sends no one away from an old location whose data is not   *)
(* in the new one (legacyTripwire, writeMovedNotice).                      *)
RefusalHasData == notice => dir["data"] = "orig"

(* The .pre-move copies go only after a move that was completed, and never *)
(* while one is under way (completeGraceAfterHealthyBoot).                 *)
OriginalsOutliveTheMove ==
    [][(\E f \in Files : pre[f] = "orig" /\ pre'[f] = "none")
           => dir["marker"] = "done" /\ \A b \in Boots : pc[b] \notin Held \ {"check"}]_vars

(* A boot that waits for the lock comes up or is turned away, also when    *)
(* the lock's owner died (acquireLock).                                    *)
WaitsEnd == \A b \in Boots : pc[b] = "acquire" ~> pc[b] \in {"serving", "gone"}

(* The programs that opened the user's database in kb/.                    *)
Users ==
    {b \in Boots : pc[b] \in {"connect", "agent", "serving"} /\ at[b] = "kb" /\ holds[b] = "orig"}

(* Whatever fails, and wherever boots die, the database in kb/ is given up *)
(* once, for a copy that lacks no write made until then; nobody opens it   *)
(* after that, so that only who had it open can write past the copy; and   *)
(* the notice waits for that (moveLegacy, legacyTripwire).                 *)
OldLocation == INSTANCE Handover WITH
    Programs <- Boots,
    kept <- kb["data"] = "orig",
    holds <- IF kb["data"] = "orig" THEN ver ELSE IF dir["data"] = "orig" THEN snap ELSE -1,
    told <- notice,
    users <- Users,
    lost <- late
KeepsHandover == OldLocation!Spec

(* No commit renames over a database, though other boots open, create and  *)
(* look at data.db between the check and the rename (commitStaged).        *)
CommitsBesideNoDatabase ==
    \A b \in Boots :
        pc[b] \in {"wipe", "lockdb", "stage"} \/ (pc[b] = "commit" /\ i[b] <= 4)
            => dir["data"] = "none"

(* A boot that waits has somebody to wait for, or can go on: the lock is   *)
(* free, stale, or held by another boot that is alive and under way        *)
(* (acquireLock).                                                          *)
WaitsForSomeone ==
    \A b \in Boots : pc[b] = "acquire" =>
        \/ lock = "free" \/ Stale
        \/ \E c \in Boots \ {b} : pc[c] \in Held \cup {"owner"} /\ lock \in {c, "bare"}

(* How far boot b has come.  It counts the loops of the commit, the roll   *)
(* back, the grace step and the clean-up.                                  *)
Left(b) == LET One(x) == IF x \in put[b] THEN 1 ELSE 0
           IN  One("agent") + One("secrets") + One("marker") + One("data")

Rank(b) ==
    CASE pc[b] = "off" -> 0          [] pc[b] \in {"acquire", "remove"} -> 1
      [] pc[b] = "owner" -> 2        [] pc[b] = "check" -> 3
      [] pc[b] = "wipe" -> 4         [] pc[b] = "lockdb" -> 5
      [] pc[b] = "stage" -> 6        [] pc[b] = "commit" -> 6 + i[b]
      [] pc[b] = "grace" -> 11 + i[b]
      [] pc[b] = "tell" -> 16        [] pc[b] = "finish" -> 17
      [] pc[b] = "undo" -> 22 - Left(b)
      [] pc[b] = "config" -> 23      [] pc[b] = "open" -> 24
      [] pc[b] = "connect" -> 25     [] pc[b] = "cleanup" -> 25 + i[b]
      [] pc[b] = "agent" -> 30       [] pc[b] = "serving" -> 31
      [] OTHER -> 32

(* A boot never goes back but to the lock it did not get: it comes up or   *)
(* is gone after at most thirty-two steps from there, whatever fails.      *)
BootsMoveOn ==
    [][\A b \in Boots :
          <<pc[b], i[b], put[b]>> # <<pc[b], i[b], put[b]>>' /\ pc'[b] # "acquire" /\ pc'[b] # "remove"
              => Rank(b)' > Rank(b)]_vars

(* "Only when data.db is absent, rechecked right before the wipe"          *)
(* (data-dir-migration.mjs:209): a move that was committed meanwhile is    *)
(* not wiped.                                                              *)
WipesBesideNoDatabase ==
    [][\A b \in Boots : pc[b] = "wipe" /\ pc'[b] = "lockdb" /\ dir["data"] # "none"
           => dir' = dir]_vars

(* "A read fails while ANY other connection has the file open, idle        *)
(* servers included" (data-dir-migration.mjs:19): nobody writes to the old *)
(* database any more once the move set it aside.                           *)
NothingWrittenAside == late = 0

(* "After a move it must not be opened as if it were fresh"                *)
(* (data-dir-migration.mjs:112): no server makes a new database in kb/     *)
(* once the user's is in the data directory.                               *)
NotReopenedFresh == dir["data"] = "orig" => kb["data"] # "fresh"
=============================================================================
