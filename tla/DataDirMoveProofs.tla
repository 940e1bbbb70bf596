-------------------------- MODULE DataDirMoveProofs --------------------------
(***************************************************************************)
(* Theorems about DataDirMove, for any number of boots and writes.  What   *)
(* rests on the lock directory is proved for Faults without "race".        *)
(***************************************************************************)
EXTENDS DataDirMove, TLAPS

(* The marker has a mark and every other file a content.                   *)
Shaped ==
    /\ \A f \in Files : dir[f] \in Contents /\ staged[f] \in Contents
    /\ dir["marker"] \in Marks /\ staged["marker"] \in Marks

Typed == TypeOK /\ Shaped

LEMMA ItemKinds ==
    /\ Items = Files \cup {"marker"} /\ "marker" \notin Files
    /\ \A n \in 1..4 : CommitOrder[n] \in Items
    /\ \A n \in 1..3 : GraceOrder[n] \in Files
BY DEF Items, Files, CommitOrder, GraceOrder

-----------------------------------------------------------------------------
(* Types.                                                                  *)

LEMMA LockingTyped ==
    ASSUME Typed, NEW b \in Boots,
           Mkdir(b) \/ WriteOwner(b) \/ TakeOver(b) \/ RemoveLock(b) \/ LockTimeout(b)
    PROVE  Typed'
BY DEF Typed, TypeOK, Shaped, Mkdir, WriteOwner, TakeOver, RemoveLock, LockTimeout,
       FallBack, Goto, files, own, Held, Places

LEMMA StartTyped ==
    ASSUME Typed, NEW b \in Boots, NEW layout \in {"dir", "kb"}, Start(b, layout)
    PROVE  Typed'
BY DEF Typed, TypeOK, Shaped, Start, Goto, files, Held, Places

LEMMA CheckTyped ==
    ASSUME Typed, NEW b \in Boots, Skip(b) \/ Decide(b) \/ GiveUp(b) \/ Wipe(b) \/ LockLegacy(b)
    PROVE  Typed'
<1>1. CASE Skip(b)
    BY <1>1, ItemKinds DEF Typed, TypeOK, Shaped, Skip, Goto, Released, Held, Places, Contents, Marks, Files
<1>2. CASE Decide(b)
    BY <1>2, ItemKinds DEF Typed, TypeOK, Shaped, Decide, Goto, Held, Places, Contents, Marks, Files
<1>3. CASE GiveUp(b)
    BY <1>3 DEF Typed, TypeOK, Shaped, GiveUp, FallBack, Goto, Released, Held, Places, files
<1>4. CASE Wipe(b)
    BY <1>4, ItemKinds DEF Typed, TypeOK, Shaped, Wipe, Wiped, Goto, Held, Places, Contents, Marks, Files, own
<1>5. CASE LockLegacy(b)
    BY <1>5 DEF Typed, TypeOK, Shaped, LockLegacy, Goto, Held, Places, files, own
<1> QED BY <1>1, <1>2, <1>3, <1>4, <1>5

LEMMA MoveTyped ==
    ASSUME Typed, NEW b \in Boots,
           Stage(b) \/ StageRefused(b) \/ Commit(b) \/ Verify(b) \/ StepFails(b)
    PROVE  Typed'
<1>1. CASE Stage(b)
    BY <1>1, ItemKinds DEF Typed, TypeOK, Shaped, Stage, Goto, Held, Places, Contents, Marks, Files
<1>2. CASE StageRefused(b) \/ StepFails(b)
    BY <1>2 DEF Typed, TypeOK, Shaped, StageRefused, StepFails, Goto, Held, Places, files, own
<1>3. CASE Commit(b)
    <2>1. i[b] \in 1..4 /\ CommitOrder[i[b]] \in Items
        BY <1>3, ItemKinds DEF Typed, TypeOK, Commit
    <2>2. CASE staged[CommitOrder[i[b]]] = "none"
        BY <1>3, <2>1, <2>2 DEF Typed, TypeOK, Shaped, Commit
    <2>3. CASE staged[CommitOrder[i[b]]] # "none"
        BY <1>3, <2>1, <2>3, ItemKinds DEF Typed, TypeOK, Shaped, Commit, Contents, Marks
    <2> QED BY <2>2, <2>3
<1>4. CASE Verify(b)
    BY <1>4 DEF Typed, TypeOK, Shaped, Verify, Goto, Held, Places, files
<1> QED BY <1>1, <1>2, <1>3, <1>4

LEMMA UndoTyped ==
    ASSUME Typed, NEW b \in Boots, Undo(b) \/ Undone(b)
    PROVE  Typed'
<1>1. CASE Undo(b)
    BY <1>1, ItemKinds DEF Typed, TypeOK, Shaped, Undo, Contents, Marks
<1>2. CASE Undone(b)
    BY <1>2, ItemKinds DEF Typed, TypeOK, Shaped, Undone, FallBack, Released, Goto, Held, Places, Contents, Marks
<1> QED BY <1>1, <1>2

LEMMA GraceTyped ==
    ASSUME Typed, NEW b \in Boots,
           Grace(b) \/ Complete(b) \/ Tell(b) \/ GraceFails(b) \/ Finish(b)
    PROVE  Typed'
<1>1. CASE Grace(b)
    <2>1. i[b] \in 1..3 /\ GraceOrder[i[b]] \in Files
        BY <1>1, ItemKinds DEF Typed, TypeOK, Grace
    <2> QED BY <1>1, <2>1 DEF Typed, TypeOK, Shaped, Grace, Contents
<1>2. CASE Complete(b)
    BY <1>2, ItemKinds DEF Typed, TypeOK, Shaped, Complete, Goto, Held, Places, Contents, Marks, own
<1>3. CASE Tell(b) \/ GraceFails(b)
    BY <1>3 DEF Typed, TypeOK, Shaped, Tell, GraceFails, Goto, Held, Places, files, own
<1>4. CASE Finish(b)
    BY <1>4, ItemKinds DEF Typed, TypeOK, Shaped, Finish, Released, Goto, Held, Places, Contents, Marks, own
<1> QED BY <1>1, <1>2, <1>3, <1>4

LEMMA BootTyped ==
    ASSUME Typed, NEW b \in Boots,
           \/ Config(b) \/ Refused(b) \/ Open(b) \/ Connect(b) \/ BusyTimeout(b)
           \/ CleanUp(b) \/ CleanedUp(b) \/ OpenAgent(b)
    PROVE  Typed'
<1>1. CASE Config(b)
    BY <1>1, ItemKinds DEF Typed, TypeOK, Shaped, Config, KeyFile, Goto, Held, Places, Contents, Marks, Files
<1>2. CASE Refused(b) \/ BusyTimeout(b)
    BY <1>2 DEF Typed, TypeOK, Shaped, Refused, BusyTimeout, Goto, Held, Places, files, own
<1>3. CASE Open(b)
    BY <1>3, ItemKinds DEF Typed, TypeOK, Shaped, Open, Made, Goto, Held, Places, Contents, Marks, Files
<1>4. CASE Connect(b)
    <2>1. /\ dir' \in [Items -> Contents \cup Marks] /\ kb' \in [Files -> Contents]
          /\ holds' \in [Boots -> Contents]
        BY <1>4, ItemKinds DEF Typed, TypeOK, Connect, Filled, Contents
    <2>2. Shaped'
        BY <1>4, ItemKinds DEF Typed, TypeOK, Shaped, Connect, Filled, Contents, Files
    <2>3. pc' \in [Boots -> Held \cup Places] /\ i' \in [Boots -> 1..5]
        BY <1>4 DEF Typed, TypeOK, Connect, Goto, Places
    <2> QED BY <1>4, <2>1, <2>2, <2>3 DEF Typed, TypeOK, Connect
<1>7. CASE OpenAgent(b)
    BY <1>7, ItemKinds
       DEF Typed, TypeOK, Shaped, OpenAgent, Made, Goto, Held, Places, Contents, Marks, Files, own
<1>5. CASE CleanUp(b)
    BY <1>5 DEF Typed, TypeOK, Shaped, CleanUp, Contents
<1>6. CASE CleanedUp(b)
    BY <1>6, ItemKinds DEF Typed, TypeOK, Shaped, CleanedUp, Goto, Held, Places, Contents, Marks, own
<1> QED BY <1>1, <1>2, <1>3, <1>4, <1>5, <1>6, <1>7

LEMMA ServeTyped ==
    ASSUME Typed, NEW b \in Boots, Write(b) \/ WriteAside(b) \/ Stop(b) \/ Crash(b)
    PROVE  Typed'
BY FaultAssumption
   DEF Typed, TypeOK, Shaped, Write, WriteAside, Stop, Crash, Goto, Held, Places, files, own

LEMMA InitTyped == Init => Typed
<1> SUFFICES ASSUME Init PROVE Typed
    OBVIOUS
<1>1. /\ \A f \in Files : dir[f] \in Contents /\ staged[f] \in Contents
      /\ dir["marker"] = "none" /\ staged["marker"] = "none"
    BY ItemKinds DEF Init, Contents, Files
<1>2. dir \in [Items -> Contents \cup Marks] /\ staged \in [Items -> Contents \cup Marks]
    BY DEF Init, Contents, Marks
<1>3. /\ lock \in Boots \cup {"free", "bare"} /\ vault \in Vaults
      /\ ver \in 0..MaxWrites /\ snap \in 0..MaxWrites /\ late \in 0..MaxWrites
    BY FaultAssumption DEF Init
<1>4. /\ kb \in [Files -> Contents] /\ pre \in [Files -> Contents] /\ notice \in BOOLEAN
      /\ ownerFile \in BOOLEAN
    BY DEF Init, Contents
<1>5. /\ pc \in [Boots -> Held \cup Places] /\ at \in [Boots -> {"dir", "kb"}]
      /\ wipeOk \in [Boots -> BOOLEAN] /\ i \in [Boots -> 1..5]
      /\ due \in [Boots -> BOOLEAN] /\ key \in [Boots -> Contents]
      /\ holds \in [Boots -> Contents]
    BY DEF Init, Places, Contents
<1>6. moved \in [Boots -> SUBSET Files] /\ put \in [Boots -> SUBSET Items]
    BY DEF Init
<1> QED BY <1>1, <1>2, <1>3, <1>4, <1>5, <1>6 DEF Typed, TypeOK, Shaped, Marks

LEMMA NextTyped == Typed /\ [Next]_vars => Typed'
<1> SUFFICES ASSUME Typed, [Next]_vars PROVE Typed'
    OBVIOUS
<1>1. ASSUME NEW b \in Boots, Locking(b) \/ Moving(b) \/ Booting(b) \/ Failing(b)
             \/ Write(b) \/ WriteAside(b) \/ Stop(b)
      PROVE  Typed'
    BY <1>1, LockingTyped, CheckTyped, MoveTyped, UndoTyped, GraceTyped, BootTyped, ServeTyped
       DEF Locking, Moving, Booting, Failing
<1>2. CASE UNCHANGED vars
    BY <1>2 DEF Typed, TypeOK, Shaped, vars, files, own
<1> QED BY <1>1, <1>2, StartTyped DEF Next

LEMMA TypedHolds == Spec => []Typed
BY InitTyped, NextTyped, PTL DEF Spec

(* Every variable keeps its type, and the marker and the files theirs.     *)
THEOREM TypeCorrect == Spec => []TypeOK
<1>1. Typed => TypeOK
    BY DEF Typed
<1> QED BY <1>1, TypedHolds, PTL

-----------------------------------------------------------------------------
(* The copy is current, whether the lock directory excludes or not: the    *)
(* databases' own locks do.                                                *)

(* One boot at a time holds the EXCLUSIVE lock on the user's database, and *)
(* none while a server has read it; so nobody writes between the snapshot  *)
(* and the rename.                                                         *)
Copied ==
    /\ \A b, c \in Excluding : b = c
    /\ kb["data"] = "orig" /\ Excluding # {} => Connected = {}
    /\ \A b \in Boots : pc[b] \in {"commit", "grace"} /\ kb["data"] = "orig" => snap = ver
    /\ pre["data"] = "orig" => kb["data"] # "orig" /\ snap = ver
    /\ \A b \in Boots : pc[b] = "cleanup" => at[b] = "dir"

(* A step that changes neither the database in kb/ nor its copies, and     *)
(* brings no boot to a lock on it or to a server on it.                    *)
LEMMA StillCopied ==
    ASSUME Typed, Copied,
           Excluding' \subseteq Excluding,
           kb["data"] = "orig" => Connected' \subseteq Connected,
           kb'["data"] = "orig" <=> kb["data"] = "orig", ver' = ver, snap' = snap,
           pre'["data"] \in {"none", pre["data"]},
           \A b \in Boots : pc'[b] \in {"commit", "grace"} => pc[b] \in {"commit", "grace"},
           \A b \in Boots : pc'[b] = "cleanup" => at'[b] = "dir"
    PROVE  Copied'
BY DEF Copied

LEMMA NextCopied ==
    ASSUME Typed, Copied, [Next]_vars
    PROVE  Copied'
<1> USE DEF Typed, TypeOK, Goto
<1>1. ASSUME NEW b \in Boots, NEW l \in {"dir", "kb"}, Start(b, l) PROVE Copied'
    BY <1>1, StillCopied DEF Start, Excluding, Connected, files, Copied
<1>2. ASSUME NEW b \in Boots,
             Mkdir(b) \/ WriteOwner(b) \/ TakeOver(b) \/ RemoveLock(b) \/ LockTimeout(b)
      PROVE  Copied'
    BY <1>2, StillCopied
       DEF Mkdir, WriteOwner, TakeOver, RemoveLock, LockTimeout, FallBack,
           Excluding, Connected, files, own, Copied
<1>3. ASSUME NEW b \in Boots, Skip(b) \/ Decide(b) \/ GiveUp(b) \/ Wipe(b)
      PROVE  Copied'
    BY <1>3, StillCopied
       DEF Skip, Decide, GiveUp, Wipe, FallBack, Excluding, Connected, files, own, Copied
<1>4. ASSUME NEW b \in Boots, LockLegacy(b) PROVE Copied'
    <2>1. CASE InUse(b)
        BY <1>4, <2>1, StillCopied DEF LockLegacy, Excluding, Connected, files, own, Copied
    <2>2. CASE ~InUse(b)
        <3>1. Excluding = {} /\ Connected = {} /\ pc' = [pc EXCEPT ![b] = "stage"]
            BY <1>4, <2>2 DEF LockLegacy, InUse
        <3>2. Connected' = {} /\ \A c \in Excluding' : c = b
            BY <1>4, <3>1 DEF LockLegacy, Excluding, Connected, files, own
        <3> QED BY <1>4, <3>1, <3>2 DEF LockLegacy, Excluding, files, own, Copied
    <2> QED BY <2>1, <2>2
<1>5. ASSUME NEW b \in Boots, Stage(b) PROVE Copied'
    <2>1. Excluding' = Excluding /\ Connected' = Connected
        BY <1>5 DEF Stage, Excluding, Connected
    <2> QED BY <1>5, <2>1 DEF Stage, Copied
<1>6. ASSUME NEW b \in Boots,
             StageRefused(b) \/ Commit(b) \/ StepFails(b) \/ Undo(b) \/ Undone(b)
      PROVE  Copied'
    BY <1>6, StillCopied
       DEF StageRefused, Commit, StepFails, Undo, Undone, FallBack,
           Excluding, Connected, files, own, Copied
<1>7. ASSUME NEW b \in Boots, Verify(b) PROVE Copied'
    BY <1>7, StillCopied DEF Verify, Excluding, Connected, files, Copied
<1>8. ASSUME NEW b \in Boots, Grace(b) PROVE Copied'
    <2>1. Excluding' = Excluding /\ pc' = pc /\ pc[b] = "grace"
        BY <1>8 DEF Grace, Excluding
    <2>2. GraceOrder[i[b]] \in Files
        BY <1>8, ItemKinds DEF Grace
    <2>3. CASE GraceOrder[i[b]] = "data" /\ "data" \in moved[b]
        BY <1>8, <2>1, <2>3 DEF Grace, Copied, Files
    <2>4. CASE ~(GraceOrder[i[b]] = "data" /\ "data" \in moved[b])
        <3>1. kb'["data"] = kb["data"] /\ pre'["data"] = pre["data"]
            BY <1>8, <2>2, <2>4 DEF Grace, Files
        <3>2. Connected' = Connected
            BY <1>8, <3>1 DEF Grace, Connected
        <3> QED BY <1>8, <2>1, <3>1, <3>2, StillCopied DEF Grace, Copied
    <2> QED BY <2>3, <2>4
<1>9. ASSUME NEW b \in Boots, Complete(b) \/ Tell(b) \/ GraceFails(b) \/ Finish(b)
      PROVE  Copied'
    BY <1>9, StillCopied
       DEF Complete, Tell, GraceFails, Finish, Excluding, Connected, files, own, Copied
<1>10. ASSUME NEW b \in Boots, Config(b) PROVE Copied'
    <2>1. kb'["data"] = kb["data"]
        BY <1>10 DEF Config, Files
    <2> QED BY <1>10, <2>1, StillCopied DEF Config, Excluding, Connected, Copied
<1>11. ASSUME NEW b \in Boots, Open(b) PROVE Copied'
    <2>1. kb'["data"] = "orig" <=> kb["data"] = "orig"
        BY <1>11 DEF Open, Made, Files
    <2>2. Excluding' \subseteq Excluding /\ (kb["data"] = "orig" => Connected' \subseteq Connected)
        BY <1>11, <2>1 DEF Open, Excluding, Connected
    <2> QED BY <1>11, <2>1, <2>2, StillCopied DEF Open, Copied
<1>12. ASSUME NEW b \in Boots, Connect(b) PROVE Copied'
    <2>1. Excluding' = Excluding /\ (kb'["data"] = "orig" <=> kb["data"] = "orig")
        BY <1>12 DEF Connect, Filled, Excluding, Files
    <2>2. \A c \in Boots : pc'[c] = "cleanup" => at'[c] = "dir"
        BY <1>12 DEF Connect, Copied
    <2>4. CASE kb["data"] = "orig" /\ Excluding # {}
        <3>1. ~(at[b] = "kb" /\ holds'[b] = "orig")
            BY <1>12, <2>4 DEF Connect, Waits
        <3>2. Connected' \subseteq Connected
            BY <1>12, <2>1, <2>4, <3>1 DEF Connect, Connected
        <3> QED BY <1>12, <2>1, <2>2, <3>2, StillCopied DEF Connect
    <2>5. CASE ~(kb["data"] = "orig" /\ Excluding # {})
        BY <1>12, <2>1, <2>2, <2>5 DEF Connect, Copied
    <2> QED BY <2>4, <2>5
<1>17. ASSUME NEW b \in Boots, OpenAgent(b) PROVE Copied'
    <2>1. kb'["data"] = kb["data"]
        BY <1>17 DEF OpenAgent, Made, Files
    <2>2. Excluding' \subseteq Excluding /\ Connected' \subseteq Connected
        BY <1>17, <2>1 DEF OpenAgent, Excluding, Connected, own
    <2> QED BY <1>17, <2>1, <2>2, StillCopied DEF OpenAgent, own, Copied
<1>13. ASSUME NEW b \in Boots, CleanUp(b) \/ CleanedUp(b) \/ Refused(b) \/ BusyTimeout(b)
       PROVE  Copied'
    <2>1. CASE CleanUp(b)
        <3>1. pre'["data"] \in {"none", pre["data"]}
            BY <2>1 DEF CleanUp, Files
        <3> QED BY <2>1, <3>1, StillCopied DEF CleanUp, Excluding, Connected, Copied
    <2>2. CASE CleanedUp(b)
        <3>1. at[b] = "dir"
            BY <2>2 DEF CleanedUp, Copied
        <3> QED BY <2>2, <3>1, StillCopied DEF CleanedUp, Excluding, Connected, own, Copied
    <2>3. CASE Refused(b) \/ BusyTimeout(b)
        BY <2>3, StillCopied DEF Refused, BusyTimeout, Excluding, Connected, files, own, Copied
    <2> QED BY <1>13, <2>1, <2>2, <2>3
<1>14. ASSUME NEW b \in Boots, Write(b) PROVE Copied'
    <2>1. b \in Connected /\ kb["data"] = "orig"
        BY <1>14 DEF Write, Connected
    <2>2. Excluding = {} /\ pre["data"] # "orig"
        BY <2>1 DEF Copied
    <2> QED BY <1>14, <2>2 DEF Write, own, Copied, Excluding, Connected
<1>15. ASSUME NEW b \in Boots, Stop(b) \/ Crash(b) \/ WriteAside(b) PROVE Copied'
    BY <1>15, StillCopied DEF Stop, Crash, WriteAside, Excluding, Connected, files, own, Copied
<1>16. CASE UNCHANGED vars
    BY <1>16, StillCopied DEF vars, files, own, Excluding, Connected, Copied
<1> QED BY <1>1, <1>2, <1>3, <1>4, <1>5, <1>6, <1>7, <1>8, <1>9, <1>10, <1>11, <1>12, <1>13,
           <1>14, <1>15, <1>16, <1>17
        DEF Next, Locking, Moving, Booting, Failing

LEMMA CopiedHolds == Spec => []Copied
<1>1. Init => Copied
    BY DEF Init, Copied, Excluding, Connected, Files
<1>2. Typed /\ Copied /\ [Next]_vars => Copied'
    BY NextCopied
<1> QED BY <1>1, <1>2, TypedHolds, PTL DEF Spec

(* When it is renamed aside, the database holds no write that its copy     *)
(* lacks, with every fault of Faults: kb/data.db is locked from the        *)
(* snapshot to the rename, and who opened it meanwhile waits (lockLegacy). *)
THEOREM CopyStaysCurrent == Spec => []CopyIsCurrent
<1>1. Copied => CopyIsCurrent
    BY DEF Copied, CopyIsCurrent
<1> QED BY <1>1, CopiedHolds, PTL

-----------------------------------------------------------------------------
(* The lock directory, when a takeover is one step.                        *)

(* Who is under the lock owns it, and one boot at a time is about to write *)
(* its name into a new one.                                                *)
Mutex ==
    /\ \A b \in Boots : pc[b] \in Held => lock = b
    /\ \A b \in Boots : pc[b] = "owner" => lock = "bare"
    /\ \A b, c \in Boots : pc[b] = "owner" /\ pc[c] = "owner" => b = c
    /\ \A b \in Boots : pc[b] # "remove"

LEMMA NextMutex ==
    ASSUME "race" \notin Faults, Typed, Mutex, [Next]_vars
    PROVE  Mutex'
<1> USE BootAssumption DEF Typed, TypeOK, Goto, Held
<1>1. ASSUME NEW b \in Boots, NEW l \in {"dir", "kb"}, Start(b, l) PROVE Mutex'
    BY <1>1 DEF Start, Mutex
<1>2. ASSUME NEW b \in Boots, Mkdir(b) PROVE Mutex'
    BY <1>2 DEF Mkdir, Mutex
<1>3. ASSUME NEW b \in Boots, WriteOwner(b) PROVE Mutex'
    BY <1>3 DEF WriteOwner, FallBack, Mutex
<1>4. ASSUME NEW b \in Boots, TakeOver(b) PROVE Mutex'
    BY <1>4 DEF TakeOver, Stale, Mutex
<1>5. ASSUME NEW b \in Boots, RemoveLock(b) PROVE Mutex'
    BY <1>5 DEF RemoveLock, Mutex
<1>6. ASSUME NEW b \in Boots, LockTimeout(b) PROVE Mutex'
    BY <1>6 DEF LockTimeout, FallBack, Mutex
<1>7. ASSUME NEW b \in Boots, Skip(b) \/ GiveUp(b) \/ Undone(b) \/ Finish(b)
      PROVE  Mutex'
    <2>1. /\ pc[b] \in Held /\ pc' = [pc EXCEPT ![b] = "config"]
          /\ lock' = Released(b)
        BY <1>7 DEF Skip, GiveUp, Undone, Finish, FallBack
    <2>2. lock = b /\ lock' = "free"
        BY <2>1 DEF Released, Mutex
    <2> QED BY <2>1, <2>2 DEF Mutex
<1>8. ASSUME NEW b \in Boots,
             \/ Decide(b) \/ Wipe(b) \/ LockLegacy(b) \/ Stage(b) \/ StageRefused(b)
             \/ Commit(b) \/ Verify(b) \/ Undo(b) \/ StepFails(b)
      PROVE  Mutex'
    <2>1. /\ pc[b] \in Held /\ lock' = lock
          /\ pc' = pc \/ \E l \in Held : pc' = [pc EXCEPT ![b] = l]
        BY <1>8 DEF Decide, Wipe, LockLegacy, Stage, StageRefused, Commit, Verify, Undo,
                    StepFails, files
    <2> QED BY <2>1 DEF Mutex
<1>9. ASSUME NEW b \in Boots, Grace(b) \/ Complete(b) \/ Tell(b) \/ GraceFails(b)
      PROVE  Mutex'
    <2>1. /\ pc[b] \in Held /\ lock' = lock
          /\ pc' = pc \/ \E l \in Held : pc' = [pc EXCEPT ![b] = l]
        BY <1>9 DEF Grace, Complete, Tell, GraceFails, GraceMayFail, files
    <2> QED BY <2>1 DEF Mutex
<1>10. ASSUME NEW b \in Boots,
              \/ Config(b) \/ Refused(b) \/ Open(b) \/ Connect(b) \/ BusyTimeout(b)
              \/ CleanUp(b) \/ CleanedUp(b) \/ OpenAgent(b)
              \/ Write(b) \/ WriteAside(b) \/ Stop(b) \/ Crash(b)
       PROVE  Mutex'
    <2>1. /\ lock' = lock
          /\ \/ pc' = pc
             \/ \E l \in {"open", "connect", "cleanup", "agent", "serving", "gone"} :
                    pc' = [pc EXCEPT ![b] = l]
        BY <1>10 DEF Config, Refused, Open, Connect, BusyTimeout, CleanUp, CleanedUp, OpenAgent,
                     Write, WriteAside, Stop, Crash, files
    <2> QED BY <2>1 DEF Mutex
<1>11. CASE UNCHANGED vars
    BY <1>11 DEF vars, Mutex
<1> QED BY <1>1, <1>2, <1>3, <1>4, <1>5, <1>6, <1>7, <1>8, <1>9, <1>10, <1>11
        DEF Next, Locking, Moving, Booting, Failing

LEMMA MutexHolds ==
    ASSUME "race" \notin Faults
    PROVE  Spec => []Mutex
<1>1. Init => Mutex
    BY DEF Init, Mutex, Held
<1>2. Typed /\ Mutex /\ [Next]_vars => Mutex'
    BY NextMutex
<1> QED BY <1>1, <1>2, TypedHolds, PTL DEF Spec

(* One live boot at a time is under the lock (acquireLock).                *)
THEOREM MoverIsAlone ==
    ASSUME "race" \notin Faults
    PROVE  Spec => []OneMover
<1>1. Mutex => OneMover
    BY DEF Mutex, OneMover
<1> QED BY <1>1, MutexHolds, PTL

-----------------------------------------------------------------------------
(* No file is lost.  Until the first rename of a grace step every file is  *)
(* in kb/; from then on the data directory has the database and a marker,  *)
(* no boot wipes, commits or rolls back any more, and each file is in kb/  *)
(* or verified in the data directory.                                      *)

Settled ==
    /\ dir["data"] = "orig" /\ dir["marker"] # "none"
    /\ \A b \in Boots : pc[b] \notin {"wipe", "lockdb", "stage", "commit", "undo"}

Kept == \/ \A f \in UserFiles : kb[f] = "orig"
        \/ Settled /\ \A f \in UserFiles : dir[f] = "orig" \/ kb[f] = "orig"

(* What mover b has done so far.                                           *)
Progress(b) ==
    /\ pc[b] \in {"wipe", "lockdb", "stage", "commit"} => "data" \in moved[b]
    /\ pc[b] = "commit" => IF i[b] <= 3 THEN staged["marker"] # "none" ELSE dir["marker"] # "none"
    /\ pc[b] = "grace" => \A f \in moved[b] \cap UserFiles : dir[f] = "orig"
    /\ pc[b] \in {"grace", "tell"} => dir["data"] = "orig" /\ dir["marker"] # "none"

Safe == Kept /\ (\A b \in Boots : Progress(b)) /\ (notice => Settled)

LEMMA UserFileFacts ==
    /\ UserFiles \subseteq Files /\ {"data", "agent"} \subseteq UserFiles
    /\ vault = "keyed" => UserFiles = Files
    /\ vault' = vault => UserFiles' = UserFiles
BY DEF UserFiles, Files

(* A step of a boot that is not under the lock, or only looks, keeps what  *)
(* is in both places.                                                      *)
LEMMA StillSafe ==
    ASSUME Typed, Safe,
           \A f \in Files : kb[f] = "orig" => kb'[f] = "orig",
           \A f \in Files : dir[f] = "orig" => dir'[f] = "orig",
           vault' = vault,
           dir["marker"] # "none" => dir'["marker"] # "none",
           staged' = staged \/ \A b \in Boots : pc'[b] # "commit",
           moved' = moved, notice' = notice,
           \A b \in Boots : \/ pc'[b] = pc[b] /\ (pc[b] = "commit" => i'[b] = i[b])
                            \/ pc'[b] \notin {"wipe", "lockdb", "stage", "commit", "undo",
                                              "grace", "tell"}
    PROVE  Safe'
<1>1. Settled => Settled'
    BY DEF Settled, Files
<1>2. Kept'
    BY <1>1, UserFileFacts DEF Safe, Kept
<1>3. \A b \in Boots : Progress(b)'
    BY UserFileFacts DEF Safe, Progress, Files, Typed, TypeOK
<1> QED BY <1>1, <1>2, <1>3 DEF Safe

(* A mover's step before the grace step touches only the data directory.   *)
LEMMA MoverSafe ==
    ASSUME Typed, Safe, Mutex, NEW b \in Boots,
           pc[b] \in {"check", "wipe", "lockdb", "stage", "commit", "undo"},
           pc[b] = "check" => ~Settled,
           UNCHANGED <<kb, notice, vault>>,
           pc' = pc \/ \E l \in Held : pc' = [pc EXCEPT ![b] = l],
           Progress(b)'
    PROVE  Safe'
<1>1. ~Settled
    BY DEF Settled
<1>2. Kept' /\ ~notice'
    BY <1>1, UserFileFacts DEF Safe, Kept
<1>3. \A c \in Boots \ {b} : pc'[c] = pc[c] /\ pc[c] \notin Held
    BY DEF Mutex, Held, Typed, TypeOK
<1>4. \A c \in Boots \ {b} : Progress(c)'
    BY <1>3 DEF Progress, Held
<1> QED BY <1>2, <1>4 DEF Safe

LEMMA GraceSafe ==
    ASSUME Typed, Safe, Mutex, NEW b \in Boots, Grace(b) \/ Complete(b) \/ Tell(b)
    PROVE  Safe'
<1> USE DEF Typed, TypeOK, Goto
<1>1. \A c \in Boots \ {b} : pc[c] \notin Held /\ pc'[c] = pc[c]
    BY DEF Grace, Complete, Tell, Mutex, Held
<1>2. dir["data"] = "orig" /\ dir["marker"] # "none" /\ pc[b] \in {"grace", "tell"}
    BY DEF Grace, Complete, Tell, Safe, Progress
<1>3. dir'["data"] = "orig" /\ dir'["marker"] # "none" /\ pc'[b] \in {"grace", "tell", "finish"}
    BY <1>2, ItemKinds DEF Grace, Complete, Tell, Held, Files
<1>4. Settled'
    BY <1>1, <1>3 DEF Settled, Held
<1>5. \A f \in UserFiles : dir[f] = "orig" \/ kb[f] = "orig"
    BY DEF Safe, Kept
<1>6. (\A f \in Files : dir'[f] = dir[f]) /\ UserFiles' = UserFiles
    BY ItemKinds, UserFileFacts DEF Grace, Complete, Tell
<1>7. \A f \in UserFiles : dir'[f] = "orig" \/ kb'[f] = "orig"
    <2>1. CASE Grace(b)
        <3>1. GraceOrder[i[b]] \in Files
            BY <2>1, ItemKinds DEF Grace
        <3>2. \A f \in moved[b] \cap UserFiles : dir[f] = "orig"
            BY <2>1 DEF Grace, Safe, Progress
        <3> QED BY <2>1, <3>1, <3>2, <1>5, <1>6, UserFileFacts DEF Grace
    <2>2. CASE Complete(b) \/ Tell(b)
        BY <2>2, <1>5, <1>6, UserFileFacts DEF Complete, Tell
    <2> QED BY <2>1, <2>2
<1>8. \A c \in Boots \ {b} : Progress(c)'
    BY <1>1 DEF Progress, Held
<1>9. Progress(b)'
    <2>1. pc'[b] = "grace" => \A f \in moved'[b] \cap UserFiles : dir'[f] = "orig"
        BY <1>6 DEF Grace, Complete, Tell, Safe, Progress
    <2> QED BY <1>3, <1>6, <2>1 DEF Progress
<1> QED BY <1>4, <1>6, <1>7, <1>8, <1>9 DEF Safe, Kept

LEMMA NextSafe ==
    ASSUME Typed, Mutex, Safe, [Next]_vars
    PROVE  Safe'
<1> USE DEF Typed, TypeOK, Goto
<1>1. ASSUME NEW b \in Boots, NEW l \in {"dir", "kb"}, Start(b, l) PROVE Safe'
    BY <1>1, StillSafe DEF Start, files
<1>2. ASSUME NEW b \in Boots,
             Mkdir(b) \/ WriteOwner(b) \/ TakeOver(b) \/ RemoveLock(b) \/ LockTimeout(b)
      PROVE  Safe'
    BY <1>2, StillSafe
       DEF Mkdir, WriteOwner, TakeOver, RemoveLock, LockTimeout, FallBack, files, own
<1>3. ASSUME NEW b \in Boots, Skip(b) PROVE Safe'
    <2>1. \A f \in Files : dir[f] = "orig" => dir'[f] = "orig"
        BY <1>3, ItemKinds DEF Skip, IsMoved
    <2>2. dir'["marker"] = dir["marker"]
        BY <1>3 DEF Skip
    <2> QED BY <1>3, <2>1, <2>2, StillSafe DEF Skip
<1>4. ASSUME NEW b \in Boots, Decide(b) PROVE Safe'
    <2>1. ~Settled
        BY <1>4 DEF Decide, IsMoved, Settled
    <2>2. kb["data"] # "none" /\ "data" \in moved'[b]
        BY <1>4 DEF Decide, Files
    <2>3. Progress(b)'
        BY <1>4, <2>2 DEF Decide, Progress
    <2> QED BY <1>4, <2>1, <2>3, MoverSafe DEF Decide, Held
<1>5. ASSUME NEW b \in Boots, Wipe(b) \/ LockLegacy(b) \/ Stage(b) \/ StageRefused(b)
      PROVE  Safe'
    <2>1. Progress(b)'
        BY <1>5, ItemKinds
           DEF Wipe, LockLegacy, Stage, StageRefused, Safe, Progress, files, own
    <2> QED BY <1>5, <2>1, MoverSafe DEF Wipe, LockLegacy, Stage, StageRefused, Held, files
<1>6. ASSUME NEW b \in Boots, Commit(b) PROVE Safe'
    <2>1. i[b] \in 1..4 /\ pc[b] = "commit" /\ pc' = pc /\ moved' = moved /\ i'[b] = i[b] + 1
        BY <1>6 DEF Commit
    <2>2. i[b] = 3 => CommitOrder[i[b]] = "marker"
        BY DEF CommitOrder
    <2>3. i[b] # 3 => CommitOrder[i[b]] # "marker" /\ CommitOrder[i[b]] \in Items
        BY <2>1, ItemKinds DEF CommitOrder
    <2>4. CASE i[b] = 3
        BY <1>6, <2>1, <2>2, <2>4, ItemKinds, MoverSafe DEF Commit, Safe, Progress
    <2>5. CASE i[b] # 3
        <3>1. dir'["marker"] = dir["marker"] /\ staged'["marker"] = staged["marker"]
            BY <1>6, <2>3, <2>5, ItemKinds DEF Commit
        <3>2. Progress(b)'
            BY <2>1, <2>5, <3>1 DEF Safe, Progress
        <3> QED BY <1>6, <2>1, <3>2, MoverSafe DEF Commit
    <2> QED BY <2>4, <2>5
<1>7. ASSUME NEW b \in Boots, Verify(b) PROVE Safe'
    <2>1. /\ i[b] = 5 /\ "data" \in moved[b] /\ dir["marker"] # "none"
          /\ \A f \in UserFiles : kb[f] = "orig"
        BY <1>7 DEF Verify, Safe, Progress, Kept, Settled
    <2>2. UserFiles' = UserFiles /\ "data" \in UserFiles
        BY <1>7, UserFileFacts DEF Verify, files
    <2>3. Progress(b)'
        BY <1>7, <2>1, <2>2 DEF Verify, Progress, files
    <2> QED BY <1>7, <2>3, MoverSafe DEF Verify, Held, files
<1>8. ASSUME NEW b \in Boots, StepFails(b) \/ Undo(b) PROVE Safe'
    <2>1. Progress(b)'
        BY <1>8 DEF StepFails, Undo, Progress, files, own
    <2> QED BY <1>8, <2>1, MoverSafe DEF StepFails, Undo, Held, files
<1>9. ASSUME NEW b \in Boots, Undone(b) \/ Finish(b) PROVE Safe'
    <2>1. \A c \in Boots : pc'[c] # "commit"
        BY <1>9 DEF Undone, Finish, FallBack, Mutex, Held
    <2> QED BY <1>9, <2>1, StillSafe DEF Undone, Finish, FallBack, own
<1>10. ASSUME NEW b \in Boots, GiveUp(b) \/ GraceFails(b) PROVE Safe'
    BY <1>10, StillSafe DEF GiveUp, GraceFails, FallBack, files, own
<1>11. ASSUME NEW b \in Boots, Grace(b) \/ Complete(b) \/ Tell(b) PROVE Safe'
    BY <1>11, GraceSafe
<1>12. ASSUME NEW b \in Boots, Config(b) PROVE Safe'
    <2>1. dir'["marker"] = dir["marker"]
        BY <1>12, ItemKinds DEF Config
    <2>2. \A f \in Files : (dir[f] = "orig" => dir'[f] = "orig")
                          /\ (kb[f] = "orig" => kb'[f] = "orig")
        BY <1>12, ItemKinds DEF Config, KeyFile, Files
    <2> QED BY <1>12, <2>1, <2>2, StillSafe DEF Config
<1>13. ASSUME NEW b \in Boots, Open(b) \/ OpenAgent(b) PROVE Safe'
    <2>1. /\ dir'["marker"] = dir["marker"]
          /\ \A f \in Files : dir[f] = "orig" => dir'[f] = "orig"
          /\ \A f \in Files : kb[f] = "orig" => kb'[f] = "orig"
        BY <1>13, ItemKinds DEF Open, OpenAgent, Made, Files
    <2> QED BY <1>13, <2>1, StillSafe DEF Open, OpenAgent, own
<1>14. ASSUME NEW b \in Boots, Connect(b) PROVE Safe'
    <2>1. /\ dir'["marker"] = dir["marker"]
          /\ \A f \in Files : dir[f] = "orig" => dir'[f] = "orig"
          /\ \A f \in Files : kb[f] = "orig" => kb'[f] = "orig"
        BY <1>14, ItemKinds DEF Connect, Filled, Files
    <2> QED BY <1>14, <2>1, StillSafe DEF Connect
<1>15. ASSUME NEW b \in Boots, CleanedUp(b) PROVE Safe'
    <2>1. /\ dir["marker"] # "none" => dir'["marker"] # "none"
          /\ \A f \in Files : dir'[f] = dir[f]
        BY <1>15, ItemKinds DEF CleanedUp
    <2> QED BY <1>15, <2>1, StillSafe DEF CleanedUp, own
<1>16. ASSUME NEW b \in Boots,
              \/ CleanUp(b) \/ Refused(b) \/ BusyTimeout(b) \/ Write(b) \/ WriteAside(b)
              \/ Stop(b) \/ Crash(b)
       PROVE  Safe'
    BY <1>16, StillSafe
       DEF CleanUp, Refused, BusyTimeout, Write, WriteAside, Stop, Crash, files, own
<1>17. CASE UNCHANGED vars
    BY <1>17, StillSafe DEF vars, files, own
<1> QED BY <1>1, <1>2, <1>3, <1>4, <1>5, <1>6, <1>7, <1>8, <1>9, <1>10, <1>11, <1>12, <1>13,
           <1>14, <1>15, <1>16, <1>17
        DEF Next, Locking, Moving, Booting, Failing

LEMMA SafeHolds ==
    ASSUME "race" \notin Faults
    PROVE  Spec => []Safe
<1>1. Init => Safe
    BY DEF Init, Safe, Kept, Progress, Files, UserFiles
<1>2. Typed /\ Mutex /\ Safe /\ [Next]_vars => Safe'
    BY NextSafe
<1> QED BY <1>1, <1>2, TypedHolds, MutexHolds, PTL DEF Spec

(* Each of the user's files is whole somewhere, wherever a boot died, a    *)
(* step failed or a roll back stopped (moveLegacy).                        *)
THEOREM FilesAreNeverLost ==
    ASSUME "race" \notin Faults
    PROVE  Spec => []NeverLost
<1>1. Safe => NeverLost
    BY DEF Safe, Kept, NeverLost
<1> QED BY <1>1, SafeHolds, PTL

(* The tripwire's notice is there only when the data directory has the     *)
(* user's database (writeMovedNotice).                                     *)
THEOREM NoticeIsTrue ==
    ASSUME "race" \notin Faults
    PROVE  Spec => []RefusalHasData
<1>1. Safe => RefusalHasData
    BY DEF Safe, Settled, RefusalHasData
<1> QED BY <1>1, SafeHolds, PTL

-----------------------------------------------------------------------------
(* The clean-up of the originals.                                          *)

(* A completed move that no boot is under way with, nor will be again.     *)
Completed ==
    /\ dir["data"] # "none" /\ dir["marker"] \in {"done", "closed"}
    /\ \A b \in Boots : pc[b] \notin Held \ {"check"}

Cleaning ==
    /\ staged["marker"] # "closed"
    /\ \A b \in Boots : pc[b] = "cleanup" => due[b]
    /\ \A b \in Boots : due[b] => Completed
    /\ dir["marker"] = "closed" => Completed /\ \A f \in Files : pre[f] = "none"

LEMMA StillCleaning ==
    ASSUME Typed, Cleaning,
           Completed => dir'["data"] # "none" /\ UNCHANGED dir["marker"],
           dir'["marker"] = "closed" => dir["marker"] = "closed",
           UNCHANGED staged["marker"],
           dir["marker"] = "closed" => UNCHANGED pre,
           UNCHANGED due,
           \A b \in Boots : \/ pc'[b] = pc[b]
                            \/ pc'[b] \notin {"cleanup"} \cup (Held \ {"check"})
                            \/ ~Completed /\ pc'[b] # "cleanup"
    PROVE  Cleaning'
<1>1. Completed => Completed'
    BY DEF Completed
<1>2. \A b \in Boots : pc'[b] = "cleanup" => due'[b]
    BY DEF Cleaning
<1> QED BY <1>1, <1>2 DEF Cleaning

(* Under the lock, past its check, a boot knows the move is not completed. *)
LEMMA BusyCleaning ==
    ASSUME Typed, Cleaning, NEW b \in Boots, pc[b] \in Held \ {"check"},
           dir["marker"] # "closed" => dir'["marker"] # "closed",
           staged'["marker"] # "closed", UNCHANGED due,
           pc' = pc \/ \E l \in (Held \cup Places) \ {"cleanup"} : pc' = [pc EXCEPT ![b] = l]
    PROVE  Cleaning'
<1>1. ~Completed /\ dir["marker"] # "closed" /\ \A c \in Boots : ~due[c] /\ pc[c] # "cleanup"
    BY DEF Completed, Cleaning
<1>2. \A c \in Boots : pc'[c] # "cleanup"
    BY <1>1 DEF Typed, TypeOK
<1> QED BY <1>1, <1>2 DEF Cleaning

LEMMA NextCleaning ==
    ASSUME Typed, Mutex, Cleaning, [Next]_vars
    PROVE  Cleaning'
<1> USE DEF Typed, TypeOK, Goto, Held
<1>1. ASSUME NEW b \in Boots, NEW l \in {"dir", "kb"}, Start(b, l) PROVE Cleaning'
    BY <1>1, StillCleaning DEF Start, files, Completed
<1>2. ASSUME NEW b \in Boots,
             Mkdir(b) \/ WriteOwner(b) \/ TakeOver(b) \/ RemoveLock(b) \/ LockTimeout(b)
      PROVE  Cleaning'
    BY <1>2, StillCleaning
       DEF Mkdir, WriteOwner, TakeOver, RemoveLock, LockTimeout, FallBack, files, own,
           Completed
<1>3. ASSUME NEW b \in Boots, Skip(b) PROVE Cleaning'
    <2>1. /\ pc[b] = "check" /\ pc' = [pc EXCEPT ![b] = "config"]
          /\ pre' = pre /\ staged' = staged
        BY <1>3 DEF Skip
    <2>2. \A c \in Boots \ {b} : pc[c] \notin Held
        BY <2>1 DEF Mutex
    <2>3. \A c \in Boots : due'[c] => due[c] \/ (c = b /\ IsMoved /\ dir["marker"] = "done")
        BY <1>3 DEF Skip, GraceDue
    <2>4. CASE IsMoved
        <3>1. dir' = dir
            BY <1>3, <2>4 DEF Skip
        <3>2. dir["marker"] = "done" => Completed'
            BY <2>1, <2>2, <2>4, <3>1 DEF Completed, IsMoved
        <3>3. Completed => Completed'
            BY <2>1, <3>1 DEF Completed
        <3>4. \A c \in Boots : due'[c] => Completed'
            BY <2>3, <3>2, <3>3 DEF Cleaning
        <3>5. \A c \in Boots : pc'[c] # "cleanup" \/ (c # b /\ pc[c] = "cleanup")
            BY <2>1
        <3>6. \A c \in Boots \ {b} : due'[c] = due[c]
            BY <1>3 DEF Skip
        <3> QED BY <2>1, <3>1, <3>3, <3>4, <3>5, <3>6 DEF Cleaning
    <2>5. CASE ~IsMoved
        <3>1. ~Completed /\ dir'["marker"] = dir["marker"]
            BY <1>3, <2>5, ItemKinds DEF Skip, Completed, IsMoved
        <3>2. \A c \in Boots : ~due'[c] /\ pc'[c] # "cleanup"
            BY <2>1, <2>3, <2>5, <3>1 DEF Cleaning
        <3> QED BY <2>1, <3>1, <3>2 DEF Cleaning
    <2> QED BY <2>4, <2>5
<1>4. ASSUME NEW b \in Boots, Decide(b) PROVE Cleaning'
    <2>1. ~Completed
        BY <1>4 DEF Decide, Completed, IsMoved
    <2>2. dir'["marker"] = dir["marker"]
        BY <1>4 DEF Decide
    <2> QED BY <1>4, <2>1, <2>2, StillCleaning DEF Decide
<1>5. ASSUME NEW b \in Boots,
             \/ GiveUp(b) \/ Wipe(b) \/ LockLegacy(b) \/ Stage(b) \/ StageRefused(b)
             \/ Verify(b) \/ StepFails(b) \/ Undone(b)
      PROVE  Cleaning'
    <2>1. /\ dir["marker"] # "closed" => dir'["marker"] # "closed"
          /\ staged'["marker"] # "closed"
        BY <1>5, ItemKinds
           DEF GiveUp, Wipe, Wiped, LockLegacy, Stage, StageRefused, Verify, StepFails, Undone,
               files, own, Cleaning
    <2> QED BY <1>5, <2>1, BusyCleaning
            DEF GiveUp, Wipe, LockLegacy, Stage, StageRefused, Verify, StepFails, Undone,
                FallBack, own, Places
<1>6. ASSUME NEW b \in Boots, Commit(b) \/ Undo(b) PROVE Cleaning'
    <2>1. /\ dir["marker"] # "closed" => dir'["marker"] # "closed"
          /\ staged'["marker"] # "closed"
        BY <1>6, ItemKinds DEF Commit, Undo, Cleaning
    <2> QED BY <1>6, <2>1, BusyCleaning DEF Commit, Undo
<1>7. ASSUME NEW b \in Boots,
             Grace(b) \/ Complete(b) \/ Tell(b) \/ GraceFails(b) \/ Finish(b)
      PROVE  Cleaning'
    <2>1. /\ dir["marker"] # "closed" => dir'["marker"] # "closed"
          /\ staged'["marker"] # "closed"
        BY <1>7, ItemKinds DEF Grace, Complete, Tell, GraceFails, Finish, files, own, Cleaning
    <2> QED BY <1>7, <2>1, BusyCleaning
            DEF Grace, Complete, Tell, GraceFails, GraceMayFail, Finish, files, own, Places
<1>8. ASSUME NEW b \in Boots, Config(b) PROVE Cleaning'
    <2>1. dir'["marker"] = dir["marker"] /\ dir'["data"] = dir["data"]
        BY <1>8, ItemKinds DEF Config, Files
    <2> QED BY <1>8, <2>1, StillCleaning DEF Config, Completed
<1>9. ASSUME NEW b \in Boots, Connect(b) PROVE Cleaning'
    <2>1. dir'["marker"] = dir["marker"] /\ (dir["data"] # "none" => dir'["data"] # "none")
        BY <1>9, ItemKinds DEF Connect, Filled, Files
    <2>2. CASE due[b]
        <3>1. Completed' /\ Completed
            BY <1>9, <2>1, <2>2 DEF Connect, Completed, Cleaning
        <3> QED BY <1>9, <2>1, <2>2, <3>1 DEF Connect, Cleaning
    <2>3. CASE ~due[b]
        BY <1>9, <2>1, <2>3, StillCleaning DEF Connect, Completed
    <2> QED BY <2>2, <2>3
<1>10. ASSUME NEW b \in Boots,
              \/ Open(b) \/ OpenAgent(b) \/ Refused(b) \/ BusyTimeout(b) \/ Write(b)
              \/ WriteAside(b) \/ Stop(b) \/ Crash(b)
       PROVE  Cleaning'
    <2>1. dir'["marker"] = dir["marker"] /\ (dir["data"] # "none" => dir'["data"] # "none")
        BY <1>10, ItemKinds
           DEF Open, OpenAgent, Made, Refused, BusyTimeout, Write, WriteAside, Stop, Crash,
               files, Files
    <2> QED BY <1>10, <2>1, StillCleaning
            DEF Open, OpenAgent, Refused, BusyTimeout, Write, WriteAside, Stop, Crash, files,
                own, Completed
<1>11. ASSUME NEW b \in Boots, CleanUp(b) PROVE Cleaning'
    <2>1. dir["marker"] = "closed" => \A f \in Files : pre'[f] = "none"
        BY <1>11 DEF CleanUp, Cleaning
    <2> QED BY <1>11, <2>1 DEF CleanUp, Cleaning, Completed
<1>12. ASSUME NEW b \in Boots, CleanedUp(b) PROVE Cleaning'
    <2>1. Completed
        BY <1>12 DEF CleanedUp, Cleaning
    <2>2. Completed'
        BY <1>12, <2>1, ItemKinds DEF CleanedUp, Completed, Files
    <2>3. dir'["marker"] = "closed" => \A f \in Files : pre'[f] = "none"
        BY <1>12 DEF CleanedUp, Cleaning
    <2> QED BY <1>12, <2>2, <2>3 DEF CleanedUp, own, Cleaning
<1>13. CASE UNCHANGED vars
    BY <1>13, StillCleaning DEF vars, files, own, Completed
<1> QED BY <1>1, <1>2, <1>3, <1>4, <1>5, <1>6, <1>7, <1>8, <1>9, <1>10, <1>11, <1>12, <1>13
        DEF Next, Locking, Moving, Booting, Failing

LEMMA OriginalsStay ==
    ASSUME Typed, Cleaning, [Next]_vars,
           NEW f \in Files, pre[f] = "orig", pre'[f] = "none"
    PROVE  dir["marker"] = "done" /\ \A b \in Boots : pc[b] \notin Held \ {"check"}
<1>1. PICK b \in Boots : CleanUp(b)
    <2>1. ASSUME NEW b \in Boots, Grace(b) PROVE FALSE
        <3>1. GraceOrder[i[b]] \in Files
            BY <2>1, ItemKinds DEF Grace, Typed, TypeOK
        <3> QED BY <2>1, <3>1 DEF Grace, Typed, TypeOK
    <2>2. pre' # pre
        OBVIOUS
    <2> QED BY <2>1, <2>2
            DEF Next, vars, files, own, Locking, Moving, Booting, Failing, Start,
                Mkdir, WriteOwner, TakeOver, RemoveLock, LockTimeout, Skip, Decide, GiveUp, Wipe,
                LockLegacy, Stage, StageRefused, Commit, Verify, StepFails, Undo, Undone,
                Complete, Tell, GraceFails, Finish, Config, Refused, Open, Connect, BusyTimeout,
                OpenAgent, CleanedUp, Write, WriteAside, Stop, Crash
<1>2. Completed
    BY <1>1 DEF CleanUp, Cleaning
<1> QED BY <1>2 DEF Completed, Cleaning

(* The originals go only after a completed move, and while none is under   *)
(* way (completeGraceAfterHealthyBoot).                                    *)
THEOREM OriginalsAreKept ==
    ASSUME "race" \notin Faults
    PROVE  Spec => OriginalsOutliveTheMove
<1>1. Init => Cleaning
    BY ItemKinds DEF Init, Cleaning
<1>2. Typed /\ Mutex /\ Cleaning /\ [Next]_vars => Cleaning'
    BY NextCleaning
<1>3. Typed /\ Cleaning /\ [Next]_vars =>
        [(\E f \in Files : pre[f] = "orig" /\ pre'[f] = "none")
            => dir["marker"] = "done" /\ \A b \in Boots : pc[b] \notin Held \ {"check"}]_vars
    BY OriginalsStay
<1> QED BY <1>1, <1>2, <1>3, TypedHolds, MutexHolds, PTL DEF Spec, OriginalsOutliveTheMove

-----------------------------------------------------------------------------
(* The vault key.                                                          *)

(* A boot past the move.                                                   *)
Ready == {"config", "open", "connect", "cleanup", "agent", "serving"}

(* The database is in the data directory for good: no boot may remove it.  *)
Landed ==
    /\ dir["data"] = "orig"
    /\ \A b \in Boots : pc[b] \notin {"wipe", "lockdb", "stage", "commit", "undo"}

(* What can be in the data directory, and no other key beside the user's   *)
(* database when there is a key to its vault.                              *)
Located ==
    /\ dir["data"] \in {"none", "empty", "orig"}
    /\ dir["data"] = "empty" => dir["marker"] = "none"
    /\ staged["data"] \in {"none", "orig"}
    /\ vault = "keyed" => staged["secrets"] \in {"none", "orig"}
    /\ vault = "keyed" /\ dir["data"] = "orig" => dir["secrets"] \in {"none", "orig"}

(* What boot b may count on where it stands.                               *)
Placed(b) ==
    /\ pc[b] \in {"wipe", "lockdb", "stage", "commit"} => dir["data"] # "empty"
    /\ vault = "keyed" /\ pc[b] = "commit" => dir["secrets"] \in {"none", "orig"}
    /\ pc[b] \in {"grace", "tell", "finish"} => dir["data"] = "orig"
    /\ at[b] = "dir" /\ pc[b] \in Ready => Landed

AllPlaced == Located /\ \A b \in Boots : Placed(b)

(* A step of boot b under the lock.                                        *)
LEMMA MoverPlaced ==
    ASSUME Typed, Mutex, AllPlaced, NEW b \in Boots, pc[b] \in Held,
           \A c \in Boots \ {b} : pc'[c] = pc[c] /\ at'[c] = at[c],
           Landed => Landed', Located', Placed(b)'
    PROVE  AllPlaced'
<1>1. \A c \in Boots \ {b} : pc[c] \notin Held
    BY DEF Mutex, Typed, TypeOK
<1>2. \A c \in Boots \ {b} : Placed(c)'
    BY <1>1 DEF AllPlaced, Placed, Held, Ready
<1> QED BY <1>2 DEF AllPlaced

(* A step of a boot that is not.                                           *)
LEMMA OtherPlaced ==
    ASSUME Typed, AllPlaced, NEW b \in Boots,
           \A c \in Boots \ {b} : pc'[c] = pc[c] /\ at'[c] = at[c],
           dir'["data"] = dir["data"], vault' = vault,
           vault = "keyed" => dir'["secrets"] = dir["secrets"],
           dir["marker"] = "none" => dir'["marker"] = "none",
           UNCHANGED staged,
           pc'[b] \notin {"wipe", "lockdb", "stage", "commit", "undo", "grace", "tell", "finish"},
           at'[b] = "dir" /\ pc'[b] \in Ready => Landed
    PROVE  AllPlaced'
<1>1. Landed => Landed'
    BY DEF Landed
<1>2. Located'
    BY DEF AllPlaced, Located
<1>3. \A c \in Boots : Placed(c)'
    BY <1>1 DEF AllPlaced, Placed, Ready
<1> QED BY <1>2, <1>3 DEF AllPlaced

LEMMA CheckPlaced ==
    ASSUME Typed, Mutex, Safe, AllPlaced, NEW b \in Boots,
           Skip(b) \/ Decide(b) \/ GiveUp(b) \/ Wipe(b) \/ LockLegacy(b)
    PROVE  AllPlaced'
<1> USE DEF Typed, TypeOK, Goto
<1>1. CASE Skip(b)
    <2>1. IsMoved
        BY <1>1, ItemKinds, UserFileFacts DEF Skip, IsMoved, Safe, Kept, Settled
    <2>2. dir["data"] = "orig" /\ dir' = dir /\ staged' = staged /\ at' = at
          /\ pc[b] = "check" /\ pc' = [pc EXCEPT ![b] = "config"]
        BY <1>1, <2>1 DEF Skip, IsMoved, AllPlaced, Located
    <2>3. Landed'
        BY <2>2 DEF Landed, Mutex, Held
    <2>4. Located' /\ Placed(b)'
        BY <1>1, <2>2, <2>3 DEF Skip, AllPlaced, Located, Placed
    <2> QED BY <2>2, <2>3, <2>4, MoverPlaced DEF Held
<1>2. CASE Decide(b)
    <2>1. ~Landed
        BY <1>2 DEF Decide, IsMoved, Landed
    <2>2. Located'
        BY <1>2, ItemKinds DEF Decide, AllPlaced, Located, Files
    <2>3. Placed(b)'
        BY <1>2, ItemKinds DEF Decide, Placed, Ready, Files
    <2> QED BY <1>2, <2>1, <2>2, <2>3, MoverPlaced DEF Decide, Held
<1>3. CASE GiveUp(b) \/ LockLegacy(b)
    <2>1. ~Landed /\ Located' /\ Placed(b)'
        BY <1>3
           DEF GiveUp, LockLegacy, FallBack, Landed, AllPlaced, Located, Placed, Ready, files, own
    <2> QED BY <1>3, <2>1, MoverPlaced DEF GiveUp, LockLegacy, FallBack, own, Held
<1>4. CASE Wipe(b)
    <2>1. ~Landed /\ dir["data"] # "empty"
        BY <1>4 DEF Wipe, Landed, AllPlaced, Placed
    <2>2. Located' /\ Placed(b)'
        BY <1>4, <2>1, ItemKinds
           DEF Wipe, Wiped, AllPlaced, Located, Placed, Ready, own, Files
    <2> QED BY <1>4, <2>1, <2>2, MoverPlaced DEF Wipe, own, Held
<1> QED BY <1>1, <1>2, <1>3, <1>4

LEMMA MovePlaced ==
    ASSUME Typed, Mutex, Safe, AllPlaced, NEW b \in Boots,
           \/ Stage(b) \/ StageRefused(b) \/ Commit(b) \/ Verify(b) \/ StepFails(b)
           \/ Undo(b) \/ Undone(b)
    PROVE  AllPlaced'
<1> USE DEF Typed, TypeOK, Goto
<1>1. ~Landed /\ \A f \in UserFiles : kb[f] = "orig"
    BY DEF Stage, StageRefused, Commit, Verify, StepFails, Undo, Undone, Landed, Safe, Kept,
           Settled
<1>2. CASE Stage(b)
    <2>1. kb["data"] = "orig" /\ (vault = "keyed" => kb["secrets"] = "orig")
        BY <1>1, UserFileFacts DEF Files
    <2>2. vault = "keyed" => dir["secrets"] \in {"none", "orig"}
        BY <1>2, <2>1 DEF Stage, SecretsRefused
    <2>3. /\ staged'["data"] \in {"none", "orig"}
          /\ vault = "keyed" => staged'["secrets"] \in {"none", "orig"}
        BY <1>2, <2>1, ItemKinds DEF Stage, Files
    <2>4. Located' /\ Placed(b)'
        BY <1>2, <2>2, <2>3 DEF Stage, AllPlaced, Located, Placed, Ready
    <2> QED BY <1>1, <1>2, <2>4, MoverPlaced DEF Stage, Held
<1>3. CASE Commit(b)
    <2> DEFINE x == CommitOrder[i[b]]
    <2>1. x \in Items /\ pc[b] = "commit" /\ UNCHANGED <<pc, at, vault>>
        BY <1>3, ItemKinds DEF Commit
    <2>2. dir["data"] # "empty" /\ (vault = "keyed" => dir["secrets"] \in {"none", "orig"})
        BY <2>1 DEF AllPlaced, Placed
    <2>3. CASE staged[x] = "none"
        BY <1>1, <1>3, <2>1, <2>2, <2>3, MoverPlaced
           DEF Commit, AllPlaced, Located, Placed, Ready, Held
    <2>4. CASE staged[x] # "none"
        <3>1. /\ dir' = [dir EXCEPT ![x] = staged[x]]
              /\ staged' = [staged EXCEPT ![x] = "none"]
            BY <1>3, <2>4 DEF Commit
        <3>2. /\ dir'["data"] \in {"none", "orig"} /\ staged'["data"] \in {"none", "orig"}
              /\ vault = "keyed" => dir'["secrets"] \in {"none", "orig"}
                                    /\ staged'["secrets"] \in {"none", "orig"}
            BY <2>1, <2>2, <2>4, <3>1, ItemKinds DEF AllPlaced, Located, Files
        <3>3. Located' /\ Placed(b)'
            BY <2>1, <2>2, <3>2 DEF Located, Placed, Ready
        <3> QED BY <1>1, <2>1, <3>3, MoverPlaced DEF Held
    <2> QED BY <2>3, <2>4
<1>4. CASE Verify(b)
    <2>1. "data" \in moved[b]
        BY <1>4 DEF Verify, Safe, Progress
    <2>2. Located' /\ Placed(b)'
        BY <1>1, <1>4, <2>1, UserFileFacts
           DEF Verify, AllPlaced, Located, Placed, Ready, files, Files
    <2> QED BY <1>1, <1>4, <2>2, MoverPlaced DEF Verify, Held
<1>5. CASE StageRefused(b) \/ StepFails(b)
    <2>1. Located' /\ Placed(b)'
        BY <1>5 DEF StageRefused, StepFails, AllPlaced, Located, Placed, Ready, files, own
    <2> QED BY <1>1, <1>5, <2>1, MoverPlaced DEF StageRefused, StepFails, own, Held
<1>6. CASE Undo(b)
    <2>1. Located'
        BY <1>6, ItemKinds DEF Undo, AllPlaced, Located, Files
    <2>2. Placed(b)'
        BY <1>6 DEF Undo, Placed, Ready
    <2> QED BY <1>1, <1>6, <2>1, <2>2, MoverPlaced DEF Undo, Held
<1>7. CASE Undone(b)
    <2>1. Located' /\ Placed(b)'
        BY <1>7, ItemKinds DEF Undone, FallBack, AllPlaced, Located, Placed, Ready, Files
    <2> QED BY <1>1, <1>7, <2>1, MoverPlaced DEF Undone, FallBack, Held
<1> QED BY <1>2, <1>3, <1>4, <1>5, <1>6, <1>7

LEMMA GracePlaced ==
    ASSUME Typed, Mutex, AllPlaced, NEW b \in Boots,
           Grace(b) \/ Complete(b) \/ Tell(b) \/ GraceFails(b) \/ Finish(b)
    PROVE  AllPlaced'
<1> USE DEF Typed, TypeOK, Goto
<1>1. /\ pc[b] \in {"grace", "tell", "finish"} /\ dir["data"] = "orig"
      /\ pc'[b] \in {"grace", "tell", "finish", "config"} /\ at' = at
      /\ \A c \in Boots \ {b} : pc'[c] = pc[c]
    BY DEF Grace, Complete, Tell, GraceFails, GraceMayFail, Finish, own, AllPlaced, Placed
<1>2. dir'["data"] = "orig" /\ dir'["secrets"] = dir["secrets"] /\ vault' = vault
    BY <1>1, ItemKinds DEF Grace, Complete, Tell, GraceFails, Finish, files, Files
<1>3. staged' = staged \/ staged' = [x \in Items |-> "none"]
    BY DEF Grace, Complete, Tell, GraceFails, Finish, files
<1>4. \A c \in Boots \ {b} : pc[c] \notin Held
    BY <1>1 DEF Mutex, Held
<1>5. Landed'
    BY <1>1, <1>2, <1>4 DEF Landed, Held
<1>6. Located'
    BY <1>1, <1>2, <1>3, ItemKinds DEF AllPlaced, Located, Files
<1>7. Placed(b)'
    BY <1>1, <1>2, <1>5 DEF Placed, Ready
<1> QED BY <1>1, <1>5, <1>6, <1>7, MoverPlaced DEF Held

LEMMA NextPlaced ==
    ASSUME Typed, Mutex, Safe, AllPlaced, [Next]_vars
    PROVE  AllPlaced'
<1> USE DEF Typed, TypeOK, Goto
<1>1. ASSUME NEW b \in Boots, NEW l \in {"dir", "kb"}, Start(b, l) PROVE AllPlaced'
    BY <1>1, OtherPlaced DEF Start, Ready, files
<1>2. ASSUME NEW b \in Boots,
             Mkdir(b) \/ WriteOwner(b) \/ TakeOver(b) \/ RemoveLock(b) \/ LockTimeout(b)
      PROVE  AllPlaced'
    BY <1>2, OtherPlaced
       DEF Mkdir, WriteOwner, TakeOver, RemoveLock, LockTimeout, FallBack, Ready, files, own
<1>3. ASSUME NEW b \in Boots, Config(b) PROVE AllPlaced'
    <2>1. at[b] = "dir" => Landed
        BY <1>3 DEF Config, AllPlaced, Placed, Ready
    <2>2. vault = "keyed" /\ at[b] = "dir" => KeyFile(b) # "none"
        BY <2>1, UserFileFacts DEF KeyFile, Landed, Safe, Kept, Files
    <2>3. dir'["data"] = dir["data"] /\ dir'["marker"] = dir["marker"]
        BY <1>3, ItemKinds DEF Config, Files
    <2>4. vault = "keyed" => dir'["secrets"] = dir["secrets"]
        BY <1>3, <2>2 DEF Config
    <2> QED BY <1>3, <2>1, <2>3, <2>4, OtherPlaced DEF Config, Ready
<1>4. ASSUME NEW b \in Boots, Open(b) \/ Connect(b) \/ OpenAgent(b) PROVE AllPlaced'
    <2>1. at[b] = "dir" => Landed
        BY <1>4 DEF Open, Connect, OpenAgent, AllPlaced, Placed, Ready
    <2>2. /\ dir'["data"] = dir["data"] /\ dir'["marker"] = dir["marker"]
          /\ dir'["secrets"] = dir["secrets"]
        BY <1>4, <2>1, ItemKinds DEF Open, Connect, OpenAgent, Made, Filled, Landed, Files
    <2> QED BY <1>4, <2>1, <2>2, OtherPlaced DEF Open, Connect, OpenAgent, own
<1>5. ASSUME NEW b \in Boots, BusyTimeout(b) PROVE AllPlaced'
    BY <1>5, OtherPlaced DEF BusyTimeout, Ready, files, own
<1>6. ASSUME NEW b \in Boots, CleanedUp(b) PROVE AllPlaced'
    <2>1. at[b] = "dir" => Landed
        BY <1>6 DEF CleanedUp, AllPlaced, Placed, Ready
    <2>2. /\ \A x \in Files : dir'[x] = dir[x]
          /\ dir["marker"] = "none" => dir'["marker"] = "none"
        BY <1>6, ItemKinds DEF CleanedUp
    <2> QED BY <1>6, <2>1, <2>2, OtherPlaced DEF CleanedUp, own, Files
<1>7. ASSUME NEW b \in Boots, CleanUp(b) \/ Write(b) \/ WriteAside(b) PROVE AllPlaced'
    <2>1. pc[b] \in {"cleanup", "serving"} /\ UNCHANGED <<pc, at>>
        BY <1>7 DEF CleanUp, Write, WriteAside, own
    <2> QED BY <1>7, <2>1, OtherPlaced
            DEF CleanUp, Write, WriteAside, AllPlaced, Placed, Ready, own
<1>8. ASSUME NEW b \in Boots, Refused(b) \/ Stop(b) \/ Crash(b) PROVE AllPlaced'
    BY <1>8, OtherPlaced DEF Refused, Stop, Crash, Ready, files, own
<1>9. CASE UNCHANGED vars
    BY <1>9 DEF vars, files, own, AllPlaced, Located, Placed, Landed
<1> QED BY <1>1, <1>2, <1>3, <1>4, <1>5, <1>6, <1>7, <1>8, <1>9,
           CheckPlaced, MovePlaced, GracePlaced
        DEF Next, Locking, Moving, Booting, Failing

(* A boot that opened its database.                                        *)
Opened == {"connect", "cleanup", "agent", "serving"}

(* The grace step renames the database before the key; so who finds the    *)
(* user's database loaded the user's key.                                  *)
Keyed ==
    /\ vault = "keyed" /\ kb["data"] = "orig" => kb["secrets"] = "orig"
    /\ \A b \in Boots : pc[b] = "grace" =>
           "data" \in moved[b] /\ (i[b] > 1 => kb["data"] # "orig")
    /\ \A b \in Boots : vault = "keyed" /\ pc[b] = "open" =>
           (at[b] = "dir" \/ kb["data"] = "orig" => key[b] = "orig")
    /\ \A b \in Boots : vault = "keyed" /\ pc[b] \in Opened =>
           (holds[b] = "orig" => key[b] = "orig")

LEMMA StillKeyed ==
    ASSUME Typed, Keyed, vault' = vault,
           kb'["data"] = "orig" => kb["data"] = "orig" /\ kb'["secrets"] = kb["secrets"],
           \A b \in Boots : pc'[b] = "grace" =>
               pc[b] = "grace" /\ moved'[b] = moved[b] /\ i'[b] = i[b],
           \A b \in Boots : pc'[b] = "open" =>
               pc[b] = "open" /\ at'[b] = at[b] /\ key'[b] = key[b],
           \A b \in Boots : pc'[b] \in Opened =>
               pc[b] \in Opened /\ key'[b] = key[b] /\ (holds'[b] = "orig" => holds[b] = "orig")
    PROVE  Keyed'
BY DEF Keyed

LEMMA NextKeyed ==
    ASSUME Typed, Safe, AllPlaced, Keyed, [Next]_vars
    PROVE  Keyed'
<1> USE DEF Typed, TypeOK, Goto
<1>1. ASSUME NEW b \in Boots, NEW l \in {"dir", "kb"}, Start(b, l) PROVE Keyed'
    BY <1>1, StillKeyed DEF Start, Opened, files
<1>2. ASSUME NEW b \in Boots,
             Mkdir(b) \/ WriteOwner(b) \/ TakeOver(b) \/ RemoveLock(b) \/ LockTimeout(b)
      PROVE  Keyed'
    BY <1>2, StillKeyed
       DEF Mkdir, WriteOwner, TakeOver, RemoveLock, LockTimeout, FallBack, Opened, files, own
<1>3. ASSUME NEW b \in Boots,
             Skip(b) \/ Decide(b) \/ GiveUp(b) \/ Wipe(b) \/ LockLegacy(b)
      PROVE  Keyed'
    BY <1>3, StillKeyed DEF Skip, Decide, GiveUp, Wipe, LockLegacy, FallBack, Opened, files, own
<1>4. ASSUME NEW b \in Boots,
             \/ Stage(b) \/ StageRefused(b) \/ Commit(b) \/ StepFails(b) \/ Undo(b)
             \/ Undone(b)
      PROVE  Keyed'
    BY <1>4, StillKeyed
       DEF Stage, StageRefused, Commit, StepFails, Undo, Undone, FallBack, Opened, files, own
<1>5. ASSUME NEW b \in Boots, Verify(b) PROVE Keyed'
    <2>1. "data" \in moved[b]
        BY <1>5 DEF Verify, Safe, Progress
    <2> QED BY <1>5, <2>1 DEF Verify, files, Keyed, Opened
<1>6. ASSUME NEW b \in Boots, Grace(b) PROVE Keyed'
    <2> DEFINE f == GraceOrder[i[b]]
    <2>1. /\ i[b] \in 1..3 /\ pc[b] = "grace" /\ i' = [i EXCEPT ![b] = i[b] + 1]
          /\ UNCHANGED <<pc, at, moved, key, holds, vault>> /\ "data" \in moved[b]
        BY <1>6 DEF Grace, Keyed
    <2>2. f \in Files /\ (i[b] = 1 => f = "data") /\ (i[b] > 1 => f # "data")
        BY <2>1, ItemKinds DEF GraceOrder
    <2>3. kb'["data"] # "orig"
        <3>1. CASE i[b] = 1
            BY <1>6, <2>1, <2>2, <3>1 DEF Grace, Files
        <3>2. CASE i[b] > 1
            BY <1>6, <2>1, <2>2, <3>2 DEF Grace, Keyed, Files
        <3> QED BY <2>1, <3>1, <3>2
    <2>4. \A c \in Boots : i'[c] > 1 /\ pc[c] = "grace" => kb'["data"] # "orig"
        BY <2>3
    <2> QED BY <2>1, <2>3, <2>4 DEF Keyed
<1>7. ASSUME NEW b \in Boots, Complete(b) \/ Tell(b) \/ GraceFails(b) \/ Finish(b)
      PROVE  Keyed'
    BY <1>7, StillKeyed DEF Complete, Tell, GraceFails, Finish, Opened, files, own
<1>8. ASSUME NEW b \in Boots, Config(b) PROVE Keyed'
    <2>1. /\ kb'["data"] = kb["data"]
          /\ vault = "keyed" /\ kb["data"] = "orig" => kb'["secrets"] = kb["secrets"]
        BY <1>8 DEF Config, KeyFile, Keyed, Files
    <2>2. vault = "keyed" /\ (at[b] = "dir" \/ kb["data"] = "orig") => KeyFile(b) = "orig"
        <3>1. CASE vault = "keyed" /\ at[b] = "dir"
            <4>1. dir["secrets"] \in {"none", "orig"}
                BY <1>8, <3>1 DEF Config, AllPlaced, Placed, Located, Landed, Ready
            <4> QED BY <3>1, <4>1, UserFileFacts DEF KeyFile, Safe, Kept, Files
        <3>2. CASE ~(vault = "keyed" /\ at[b] = "dir")
            BY <3>2 DEF KeyFile, Keyed
        <3> QED BY <3>1, <3>2
    <2>3. vault = "keyed" /\ (at[b] = "dir" \/ kb["data"] = "orig") => key'[b] = "orig"
        BY <1>8, <2>2 DEF Config
    <2>4. \A c \in Boots \ {b} : pc'[c] = pc[c] /\ key'[c] = key[c]
        BY <1>8 DEF Config
    <2>5. pc'[b] = "open" /\ UNCHANGED <<at, moved, i, holds, vault>>
        BY <1>8 DEF Config
    <2> QED BY <2>1, <2>3, <2>4, <2>5 DEF Keyed, Opened
<1>9. ASSUME NEW b \in Boots, Open(b) PROVE Keyed'
    <2>1. /\ kb'["data"] = "orig" => kb["data"] = "orig"
          /\ kb'["secrets"] = kb["secrets"]
        BY <1>9 DEF Open, Made, Files
    <2>2. vault = "keyed" /\ holds'[b] = "orig" => key[b] = "orig"
        BY <1>9, <2>1 DEF Open, Keyed
    <2>3. /\ pc' = [pc EXCEPT ![b] = "connect"] /\ UNCHANGED <<at, moved, i, key, vault>>
          /\ \A c \in Boots \ {b} : holds'[c] = holds[c]
        BY <1>9 DEF Open
    <2> QED BY <2>1, <2>2, <2>3 DEF Keyed, Opened
<1>10. ASSUME NEW b \in Boots, Connect(b) \/ OpenAgent(b) PROVE Keyed'
    <2>1. kb'["data"] = "orig" => kb["data"] = "orig" /\ kb'["secrets"] = kb["secrets"]
        BY <1>10 DEF Connect, OpenAgent, Filled, Made, Files
    <2>2. /\ vault' = vault
          /\ \A c \in Boots : pc'[c] = "grace" =>
                 pc[c] = "grace" /\ moved'[c] = moved[c] /\ i'[c] = i[c]
          /\ \A c \in Boots : pc'[c] = "open" => pc[c] = "open" /\ at'[c] = at[c] /\ key'[c] = key[c]
        BY <1>10 DEF Connect, OpenAgent, own
    <2>3. \A c \in Boots : pc'[c] \in Opened =>
              pc[c] \in Opened /\ key'[c] = key[c] /\ (holds'[c] = "orig" => holds[c] = "orig")
        BY <1>10 DEF Connect, OpenAgent, own, Opened
    <2> QED BY <2>1, <2>2, <2>3, StillKeyed
<1>11. ASSUME NEW b \in Boots,
              \/ CleanUp(b) \/ CleanedUp(b) \/ Refused(b) \/ BusyTimeout(b) \/ Write(b)
              \/ WriteAside(b) \/ Stop(b) \/ Crash(b)
       PROVE  Keyed'
    BY <1>11, StillKeyed
       DEF CleanUp, CleanedUp, Refused, BusyTimeout, Write, WriteAside, Stop, Crash, Opened,
           files, own
<1>12. CASE UNCHANGED vars
    BY <1>12, StillKeyed DEF vars, files, own, Opened
<1> QED BY <1>1, <1>2, <1>3, <1>4, <1>5, <1>6, <1>7, <1>8, <1>9, <1>10, <1>11, <1>12
        DEF Next, Locking, Moving, Booting, Failing

LEMMA PlacedHolds ==
    ASSUME "race" \notin Faults
    PROVE  Spec => []AllPlaced
<1>1. Init => AllPlaced
    BY ItemKinds DEF Init, AllPlaced, Located, Placed, Ready, Files
<1>2. Typed /\ Mutex /\ Safe /\ AllPlaced /\ [Next]_vars => AllPlaced'
    BY NextPlaced
<1> QED BY <1>1, <1>2, TypedHolds, MutexHolds, SafeHolds, PTL DEF Spec

LEMMA KeyedHolds ==
    ASSUME "race" \notin Faults
    PROVE  Spec => []Keyed
<1>1. Init => Keyed
    BY DEF Init, Keyed, Files
<1>2. Typed /\ Safe /\ AllPlaced /\ Keyed /\ [Next]_vars => Keyed'
    BY NextKeyed
<1> QED BY <1>1, <1>2, TypedHolds, SafeHolds, PlacedHolds, PTL DEF Spec

(* A server that has the user's database open has the key of its vault     *)
(* (stageSecrets, loadDevSecrets).                                         *)
THEOREM KeyAlwaysFits ==
    ASSUME "race" \notin Faults
    PROVE  Spec => []KeyFits
<1>1. Typed /\ Keyed => KeyFits
    BY DEF Typed, TypeOK, Keyed, KeyFits, Opened
<1> QED BY <1>1, TypedHolds, KeyedHolds, PTL

-----------------------------------------------------------------------------
(* What the move promises the old location.                                *)

(* The notice is put up behind the renames of the grace step.              *)
Told ==
    /\ \A b \in Boots : pc[b] = "tell" => kb["data"] # "orig"
    /\ notice => kb["data"] # "orig"

(* What a step does to the database in kb/, its users, its counts and the  *)
(* notice.                                                                 *)
Idles ==
    /\ kb'["data"] = "orig" <=> kb["data"] = "orig"
    /\ Users' = Users \/ \E b \in Users : Users' = Users \ {b}
    /\ UNCHANGED <<ver, snap, late, notice>>
Opens(b) ==
    kb["data"] = "orig" /\ Users' = Users \cup {b} /\ UNCHANGED <<kb, dir, ver, snap, late, notice>>
Writes ==
    /\ kb["data"] = "orig" /\ Users # {} /\ ver' = ver + 1
    /\ UNCHANGED <<kb, dir, snap, late, notice, Users>>
Strays ==
    /\ kb["data"] # "orig" /\ Users # {} /\ late' = late + 1
    /\ UNCHANGED <<kb, dir, ver, snap, notice, Users>>
Snaps(b) ==
    pc[b] = "stage" /\ UNCHANGED <<kb, ver, late, notice, Users>>
Renames(b) ==
    /\ pc[b] = "grace" /\ UNCHANGED <<dir, ver, snap, late, notice, Users>>
    /\ kb'["data"] = "orig" => kb["data"] = "orig"
Tells(b) ==
    pc[b] = "tell" /\ notice' = TRUE /\ UNCHANGED <<kb, dir, ver, snap, late, Users>>

LEMMA UsersStay ==
    ASSUME Typed, NEW b \in Boots,
           \A c \in Boots \ {b} : pc'[c] = pc[c] /\ at'[c] = at[c] /\ holds'[c] = holds[c],
           (b \in Users)' <=> b \in Users
    PROVE  Users' = Users
BY DEF Users

LEMMA UsersLeave ==
    ASSUME Typed, NEW b \in Boots, pc' = [pc EXCEPT ![b] = "gone"], UNCHANGED <<at, holds>>
    PROVE  Users' = Users \ {b}
BY DEF Users, Typed, TypeOK

(* What a boot does that has not opened its database yet.                  *)
LEMMA EarlyStep ==
    ASSUME Typed, NEW b \in Boots,
           \/ \E l \in {"dir", "kb"} : Start(b, l)
           \/ Locking(b) \/ LockTimeout(b) \/ GiveUp(b) \/ StepFails(b) \/ GraceFails(b)
           \/ Moving(b) \/ Config(b) \/ Refused(b)
    PROVE  Users' = Users
<1> USE DEF Typed, TypeOK, Goto
<1>1. /\ \A c \in Boots \ {b} : pc'[c] = pc[c] /\ at'[c] = at[c]
      /\ holds' = holds
      /\ pc[b] \notin {"connect", "agent", "serving"}
      /\ pc'[b] \notin {"connect", "agent", "serving"}
    <2>1. CASE \/ \E l \in {"dir", "kb"} : Start(b, l)
               \/ Locking(b) \/ LockTimeout(b) \/ GiveUp(b) \/ StepFails(b) \/ GraceFails(b)
        BY <2>1 DEF Start, Locking, Mkdir, WriteOwner, TakeOver, RemoveLock, FallBack, LockTimeout,
               GiveUp, StepFails, GraceFails, GraceMayFail, own
    <2>2. CASE \/ Skip(b) \/ Decide(b) \/ Wipe(b) \/ LockLegacy(b) \/ Stage(b) \/ StageRefused(b)
               \/ Commit(b) \/ Verify(b)
        BY <2>2 DEF Skip, Decide, Wipe, LockLegacy, Stage, StageRefused, Commit, Verify, own
    <2>3. CASE \/ Undo(b) \/ Undone(b) \/ Grace(b) \/ Complete(b) \/ Tell(b) \/ Finish(b)
               \/ Config(b) \/ Refused(b)
        BY <2>3 DEF Undo, Undone, FallBack, Grace, Complete, Tell, Finish, Config, Refused, own
    <2> QED BY <2>1, <2>2, <2>3 DEF Moving
<1>2. ~(b \in Users) /\ ~(b \in Users)'
    BY <1>1 DEF Users
<1> QED BY <1>1, <1>2, UsersStay

LEMMA EveryStepIs ==
    ASSUME Typed, Copied, [Next]_vars
    PROVE  \/ Idles \/ Writes \/ Strays
           \/ \E b \in Boots : Opens(b) \/ Snaps(b) \/ Renames(b) \/ Tells(b)
<1> USE DEF Typed, TypeOK, Files
<1>1. ASSUME NEW b \in Boots, Grace(b) PROVE Renames(b)
    <2>1. Users' = Users
        BY <1>1, EarlyStep DEF Moving
    <2>2. kb'["data"] = "orig" => kb["data"] = "orig"
        BY <1>1, ItemKinds DEF Grace
    <2> QED BY <1>1, <2>1, <2>2 DEF Grace, Renames
<1>2. ASSUME NEW b \in Boots, Config(b) PROVE Idles
    BY <1>2, EarlyStep DEF Config, Idles
<1>3. ASSUME NEW b \in Boots, Stage(b) PROVE Snaps(b)
    BY <1>3, EarlyStep DEF Stage, Snaps, Moving
<1>4. ASSUME NEW b \in Boots, Write(b) PROVE Writes
    BY <1>4 DEF Write, Writes, Users, own
<1>5. ASSUME NEW b \in Boots, WriteAside(b) PROVE Strays
    BY <1>5 DEF WriteAside, Strays, Users, own
<1>6. ASSUME NEW b \in Boots, Tell(b) PROVE Idles \/ Tells(b)
    BY <1>6, EarlyStep DEF Tell, Tells, Idles, Moving
<1>7. ASSUME NEW b \in Boots, Open(b) PROVE Idles \/ Opens(b)
    <2>1. kb'["data"] = "orig" <=> kb["data"] = "orig"
        BY <1>7 DEF Open, Made
    <2>2. /\ pc[b] = "open" /\ pc' = [pc EXCEPT ![b] = "connect"] /\ at' = at
          /\ \A c \in Boots \ {b} : holds'[c] = holds[c]
        BY <1>7 DEF Open, Goto
    <2>3. CASE at[b] = "kb" /\ kb["data"] = "orig"
        <3>1. kb' = kb /\ dir' = dir /\ holds' = [holds EXCEPT ![b] = "orig"]
            BY <1>7, <2>3 DEF Open, Made
        <3>2. Users' = Users \cup {b}
            BY <2>2, <2>3, <3>1 DEF Users
        <3> QED BY <1>7, <2>3, <3>1, <3>2 DEF Open, Opens
    <2>4. CASE ~(at[b] = "kb" /\ kb["data"] = "orig")
        <3>1. ~(at[b] = "kb" /\ holds'[b] = "orig")
            BY <1>7, <2>1, <2>4 DEF Open
        <3>2. Users' = Users
            BY <2>2, <3>1, UsersStay DEF Users
        <3> QED BY <1>7, <2>1, <3>2 DEF Open, Idles
    <2> QED BY <2>3, <2>4
<1>8. ASSUME NEW b \in Boots, Connect(b) PROVE Idles
    <2>1. kb'["data"] = "orig" <=> kb["data"] = "orig"
        BY <1>8 DEF Connect, Filled
    <2>2. /\ pc[b] = "connect" /\ at' = at
          /\ pc'[b] = IF at[b] = "dir" /\ due[b] THEN "cleanup" ELSE "agent"
          /\ \A c \in Boots \ {b} : holds'[c] = holds[c] /\ pc'[c] = pc[c]
          /\ holds'[b] = "orig" <=> holds[b] = "orig"
        BY <1>8 DEF Connect, Goto
    <2>3. Users' = Users
        BY <2>2, UsersStay DEF Users
    <2> QED BY <1>8, <2>1, <2>3 DEF Connect, Idles
<1>9. ASSUME NEW b \in Boots, OpenAgent(b) \/ CleanUp(b) PROVE Idles
    <2>1. kb'["data"] = kb["data"]
        BY <1>9 DEF OpenAgent, Made, CleanUp
    <2>2. /\ UNCHANGED <<at, holds>>
          /\ pc' = pc \/ (pc[b] = "agent" /\ pc' = [pc EXCEPT ![b] = "serving"])
        BY <1>9 DEF OpenAgent, CleanUp, Goto, own
    <2>3. Users' = Users
        BY <2>2, UsersStay DEF Users
    <2> QED BY <1>9, <2>1, <2>3 DEF OpenAgent, CleanUp, Idles
<1>10. ASSUME NEW b \in Boots, CleanedUp(b) PROVE Idles
    <2>1. at[b] = "dir"
        BY <1>10 DEF CleanedUp, Copied
    <2>2. UNCHANGED <<kb, ver, snap, late, notice, at, holds>> /\ pc' = [pc EXCEPT ![b] = "agent"]
        BY <1>10 DEF CleanedUp, Goto, own
    <2>3. Users' = Users
        BY <2>1, <2>2, UsersStay DEF Users
    <2> QED BY <2>2, <2>3 DEF Idles
<1>11. ASSUME NEW b \in Boots, Stop(b) \/ Crash(b) \/ BusyTimeout(b) PROVE Idles
    <2>1. /\ pc' = [pc EXCEPT ![b] = "gone"] /\ UNCHANGED <<at, holds>>
          /\ UNCHANGED <<kb, ver, snap, late, notice>>
        BY <1>11 DEF Stop, Crash, BusyTimeout, Goto, files, own
    <2>2. Users' = Users \ {b}
        BY <2>1, UsersLeave
    <2>3. CASE b \in Users
        BY <2>1, <2>2, <2>3 DEF Idles
    <2>4. CASE b \notin Users
        BY <2>1, <2>2, <2>4 DEF Idles
    <2> QED BY <2>3, <2>4
<1>12. ASSUME NEW b \in Boots,
             \/ \E l \in {"dir", "kb"} : Start(b, l)
             \/ Locking(b) \/ LockTimeout(b) \/ GiveUp(b) \/ StepFails(b) \/ GraceFails(b)
             \/ Skip(b) \/ Decide(b) \/ Wipe(b) \/ LockLegacy(b) \/ StageRefused(b) \/ Commit(b)
             \/ Verify(b) \/ Undo(b) \/ Undone(b) \/ Complete(b) \/ Finish(b) \/ Refused(b)
      PROVE  Idles
    <2>1. Users' = Users
        BY <1>12, EarlyStep DEF Moving
    <2>2. UNCHANGED <<kb, ver, snap, late, notice>>
        BY <1>12 DEF Start, Locking, Mkdir, WriteOwner, TakeOver, RemoveLock,
               LockTimeout, GiveUp, StepFails, GraceFails,
               Skip, Decide, Wipe, LockLegacy, StageRefused, Commit, Verify, Undo, Undone,
               Complete, Finish, Refused, files
    <2> QED BY <2>1, <2>2 DEF Idles
<1>13. CASE UNCHANGED vars
    BY <1>13 DEF vars, files, own, Idles, Users
<1> QED BY <1>1, <1>2, <1>3, <1>4, <1>5, <1>6, <1>7, <1>8, <1>9, <1>10, <1>11, <1>12, <1>13
        DEF Next, Moving, Booting, Failing

(* Only a completed grace step leads to the notice.                        *)
LEMMA OnlyComplete ==
    ASSUME Typed, [Next]_vars, NEW b \in Boots, pc'[b] = "tell", pc[b] # "tell"
    PROVE  pc[b] = "grace" /\ i[b] = 4
<1> USE DEF Typed, TypeOK, Goto
<1>1. ASSUME NEW c \in Boots,
             \/ \E l \in {"dir", "kb"} : Start(c, l)
             \/ Locking(c) \/ Failing(c) \/ Stop(c) \/ Write(c) \/ WriteAside(c) \/ Booting(c)
      PROVE  FALSE
    BY <1>1 DEF Locking, Mkdir, WriteOwner, TakeOver, RemoveLock, FallBack,
           Failing, LockTimeout, GiveUp, StepFails, GraceFails, BusyTimeout, Crash, Stop, Write,
           WriteAside, Start, Booting, Config, Refused, Open, Connect, CleanUp, CleanedUp,
           OpenAgent, own
<1>2. ASSUME NEW c \in Boots, Moving(c), ~Complete(c) PROVE FALSE
    BY <1>2 DEF Moving, Skip, Decide, Wipe, LockLegacy, Stage, StageRefused, Commit,
           Verify, Undo, Undone, FallBack, Grace, Tell, Finish, own
<1>3. ASSUME NEW c \in Boots, Complete(c) PROVE pc[b] = "grace" /\ i[b] = 4
    BY <1>3 DEF Complete
<1>4. CASE UNCHANGED vars
    BY <1>4 DEF vars
<1> QED BY <1>1, <1>2, <1>3, <1>4 DEF Next

LEMMA NextTold ==
    ASSUME Typed, Copied, Keyed, Told, [Next]_vars
    PROVE  Told'
<1>1. kb["data"] # "orig" => kb'["data"] # "orig"
    BY EveryStepIs DEF Idles, Writes, Strays, Opens, Snaps, Renames, Tells
<1>2. notice' => notice \/ \E b \in Boots : pc[b] = "tell"
    BY EveryStepIs DEF Idles, Writes, Strays, Opens, Snaps, Renames, Tells
<1>3. \A b \in Boots : pc'[b] = "tell" => pc[b] = "tell" \/ kb["data"] # "orig"
    BY OnlyComplete DEF Keyed
<1> QED BY <1>1, <1>2, <1>3 DEF Told

(* The move keeps what it promises the old location: the database in kb/   *)
(* is given up once, for a copy that lacks no write made until then;       *)
(* nobody opens it after that; and only then may the notice be put up.     *)
THEOREM ImplementsHandover ==
    ASSUME "race" \notin Faults
    PROVE  Spec => KeepsHandover
<1> DEFINE Holds == IF kb["data"] = "orig" THEN ver ELSE IF dir["data"] = "orig" THEN snap ELSE -1
           Step == [OldLocation!Next]_<<kb["data"] = "orig", Holds, notice, Users, late>>
<1>1. Init => OldLocation!Init
    BY DEF Init, OldLocation!Init, Files, Users
<1>2. Typed /\ Copied /\ Safe /\ Told /\ Safe' /\ [Next]_vars => Step
    <2> SUFFICES ASSUME Typed, Copied, Safe, Told, Safe', [Next]_vars PROVE Step
        OBVIOUS
    <2> USE DEF OldLocation!Next
    <2>1. kb["data"] # "orig" => dir["data"] = "orig" /\ \A b \in Boots : pc[b] # "stage"
        BY UserFileFacts DEF Safe, Kept, Settled
    <2>2. kb'["data"] # "orig" => dir'["data"] = "orig"
        <3>1. "data" \in UserFiles'
            BY DEF UserFiles, Files
        <3> QED BY <3>1 DEF Safe, Kept, Settled
    <2>3. CASE Idles
        <3>1. (kb["data"] = "orig")' = (kb["data"] = "orig") /\ Holds' = Holds
            BY <2>1, <2>2, <2>3 DEF Idles
        <3>2. CASE Users' = Users
            BY <2>3, <3>1, <3>2 DEF Idles
        <3>3. CASE \E b \in Users : Users' = Users \ {b}
            BY <2>3, <3>1, <3>3 DEF Idles, OldLocation!Close
        <3> QED BY <2>3, <3>2, <3>3 DEF Idles
    <2>4. CASE Writes
        BY <2>4 DEF Writes, OldLocation!Write
    <2>5. CASE Strays
        BY <2>5 DEF Strays, OldLocation!Stray
    <2>6. ASSUME NEW b \in Boots, Opens(b) PROVE Step
        BY <2>6 DEF Opens, OldLocation!Open
    <2>7. ASSUME NEW b \in Boots, Snaps(b) PROVE Step
        BY <2>1, <2>7 DEF Snaps
    <2>8. ASSUME NEW b \in Boots, Renames(b) PROVE Step
        <3>1. kb["data"] = "orig" => snap = ver
            BY <2>8 DEF Renames, Copied
        <3>2. CASE kb["data"] = "orig" /\ kb'["data"] # "orig"
            BY <2>2, <2>8, <3>1, <3>2 DEF Renames, OldLocation!GiveUp
        <3>3. CASE ~(kb["data"] = "orig" /\ kb'["data"] # "orig")
            BY <2>8, <3>3 DEF Renames
        <3> QED BY <3>2, <3>3
    <2>9. ASSUME NEW b \in Boots, Tells(b) PROVE Step
        BY <2>9 DEF Tells, Told, OldLocation!Tell
    <2> QED BY <2>3, <2>4, <2>5, <2>6, <2>7, <2>8, <2>9, EveryStepIs
<1>3. Init => Told
    BY DEF Init, Told
<1>4. Typed /\ Copied /\ Keyed /\ Told /\ [Next]_vars => Told'
    BY NextTold
<1> QED BY <1>1, <1>2, <1>3, <1>4, TypedHolds, SafeHolds, CopiedHolds, KeyedHolds, PTL
        DEF Spec, KeepsHandover, OldLocation!Spec

-----------------------------------------------------------------------------
(* A commit has no database in its way.                                    *)

LEMMA NextBeside ==
    ASSUME Typed, Mutex, AllPlaced, CommitsBesideNoDatabase, [Next]_vars
    PROVE  CommitsBesideNoDatabase'
<1> USE DEF Typed, TypeOK, Goto, Files
<1> DEFINE Busy(b) == pc[b] \in {"wipe", "lockdb", "stage"} \/ (pc[b] = "commit" /\ i[b] <= 4)
<1>1. ASSUME NEW b \in Boots, dir'["data"] = dir["data"],
             \A c \in Boots \ {b} : pc'[c] = pc[c] /\ i'[c] = i[c],
             Busy(b)' => Busy(b)
      PROVE  CommitsBesideNoDatabase'
    BY <1>1 DEF CommitsBesideNoDatabase
<1>2. ASSUME NEW b \in Boots, NEW l \in {"dir", "kb"}, Start(b, l) PROVE CommitsBesideNoDatabase'
    BY <1>1, <1>2 DEF Start, files
<1>3. ASSUME NEW b \in Boots,
             Locking(b) \/ Failing(b) \/ Stop(b) \/ Write(b) \/ WriteAside(b)
      PROVE  CommitsBesideNoDatabase'
    BY <1>1, <1>3 DEF Locking, Mkdir, WriteOwner, TakeOver, RemoveLock, FallBack,
           Failing, LockTimeout, GiveUp, StepFails, GraceFails, BusyTimeout, Crash, Stop, Write,
           WriteAside, files, own
<1>4. ASSUME NEW b \in Boots, Skip(b) \/ Decide(b) \/ Undo(b) \/ Undone(b)
      PROVE  CommitsBesideNoDatabase'
    <2>1. \A c \in Boots \ {b} : pc[c] \notin Held /\ pc'[c] = pc[c] /\ i'[c] = i[c]
        BY <1>4 DEF Skip, Decide, Undo, Undone, FallBack, Mutex, Held
    <2>2. Busy(b)' => dir'["data"] = "none"
        BY <1>4, ItemKinds DEF Skip, Decide, Undo, Undone, FallBack
    <2> QED BY <2>1, <2>2 DEF CommitsBesideNoDatabase, Held
<1>5. ASSUME NEW b \in Boots, Wipe(b) \/ LockLegacy(b) \/ Stage(b) \/ StageRefused(b)
      PROVE  CommitsBesideNoDatabase'
    <2>1. dir'["data"] = dir["data"]
        BY <1>5, ItemKinds DEF Wipe, Wiped, LockLegacy, Stage, StageRefused, files
    <2> QED BY <1>1, <1>5, <2>1 DEF Wipe, LockLegacy, Stage, StageRefused, own
<1>6. ASSUME NEW b \in Boots, Commit(b) PROVE CommitsBesideNoDatabase'
    <2>1. CASE i[b] <= 3
        <3>1. CommitOrder[i[b]] # "data"
            BY <1>6, <2>1 DEF CommitOrder
        <3>2. dir'["data"] = dir["data"]
            BY <1>6, <3>1, ItemKinds DEF Commit
        <3> QED BY <1>1, <1>6, <3>2 DEF Commit
    <2>2. CASE i[b] = 4
        <3>1. \A c \in Boots \ {b} : pc[c] \notin Held /\ pc'[c] = pc[c] /\ i'[c] = i[c]
            BY <1>6 DEF Commit, Mutex, Held
        <3>2. ~Busy(b)'
            BY <1>6, <2>2 DEF Commit
        <3> QED BY <3>1, <3>2 DEF CommitsBesideNoDatabase, Held
    <2> QED BY <1>6, <2>1, <2>2 DEF Commit
<1>7. ASSUME NEW b \in Boots, Verify(b) PROVE CommitsBesideNoDatabase'
    BY <1>1, <1>7 DEF Verify, files
<1>8. ASSUME NEW b \in Boots, Grace(b) \/ Complete(b) \/ Tell(b) \/ Finish(b)
      PROVE  CommitsBesideNoDatabase'
    <2>1. dir'["data"] = dir["data"]
        BY <1>8, ItemKinds DEF Grace, Complete, Tell, Finish
    <2> QED BY <1>1, <1>8, <2>1 DEF Grace, Complete, Tell, Finish, own
<1>9. ASSUME NEW b \in Boots,
             Config(b) \/ Refused(b) \/ OpenAgent(b) \/ CleanUp(b) \/ CleanedUp(b)
      PROVE  CommitsBesideNoDatabase'
    <2>1. dir'["data"] = dir["data"]
        BY <1>9, ItemKinds DEF Config, Refused, OpenAgent, Made, CleanUp, CleanedUp, files
    <2> QED BY <1>1, <1>9, <2>1 DEF Config, Refused, OpenAgent, CleanUp, CleanedUp, own
<1>10. ASSUME NEW b \in Boots, Open(b) \/ Connect(b) PROVE CommitsBesideNoDatabase'
    <2>1. at[b] = "dir" => Landed
        BY <1>10 DEF Open, Connect, AllPlaced, Placed, Ready
    <2>2. dir'["data"] = dir["data"]
        BY <1>10, <2>1, ItemKinds DEF Open, Connect, Made, Filled, Landed
    <2> QED BY <1>1, <1>10, <2>2 DEF Open, Connect
<1>11. CASE UNCHANGED vars
    BY <1>11 DEF vars, files, own, CommitsBesideNoDatabase
<1> QED BY <1>2, <1>3, <1>4, <1>5, <1>6, <1>7, <1>8, <1>9, <1>10, <1>11 DEF Next, Moving, Booting

(* From its check to its last rename a mover is the only one that can put  *)
(* a database in the data directory: the rename overwrites none.           *)
THEOREM CommitOverwritesNothing ==
    ASSUME "race" \notin Faults
    PROVE  Spec => []CommitsBesideNoDatabase
<1>1. Init => CommitsBesideNoDatabase
    BY DEF Init, CommitsBesideNoDatabase
<1>2. Typed /\ Mutex /\ AllPlaced /\ CommitsBesideNoDatabase /\ [Next]_vars
          => CommitsBesideNoDatabase'
    BY NextBeside
<1> QED BY <1>1, <1>2, TypedHolds, MutexHolds, PlacedHolds, PTL DEF Spec

(* The wipe need not look again for data.db, as its comment says it does:  *)
(* while the lock excludes, there is none.                                 *)
THEOREM WipeNeedsNoRecheck ==
    ASSUME "race" \notin Faults
    PROVE  Spec => WipesBesideNoDatabase
<1>1. CommitsBesideNoDatabase /\ [Next]_vars
          => [\A b \in Boots : pc[b] = "wipe" /\ pc'[b] = "lockdb" /\ dir["data"] # "none"
                  => dir' = dir]_vars
    BY DEF CommitsBesideNoDatabase
<1> QED BY <1>1, CommitOverwritesNothing, PTL DEF Spec, WipesBesideNoDatabase

-----------------------------------------------------------------------------
(* Who waits, and for whom.                                                *)

(* A lock with an owner's name is held by a boot under way, or by a dead   *)
(* one.                                                                    *)
LockLives == \A b \in Boots : lock = b => pc[b] \in Held \cup {"gone"}

LEMMA NextLockLives ==
    ASSUME Typed, LockLives, [Next]_vars
    PROVE  LockLives'
<1> USE BootAssumption DEF Typed, TypeOK, Goto, Held
<1>1. ASSUME NEW b \in Boots,
             \/ \E l \in {"dir", "kb"} : Start(b, l)
             \/ Locking(b) \/ LockTimeout(b) \/ BusyTimeout(b) \/ Stop(b) \/ Write(b)
             \/ WriteAside(b) \/ Crash(b)
      PROVE  LockLives'
    BY <1>1 DEF Start, Locking, Mkdir, WriteOwner, TakeOver, RemoveLock, LockTimeout, FallBack,
           BusyTimeout, Stop, Write, WriteAside, Crash, LockLives, files, own
<1>2. ASSUME NEW b \in Boots, Skip(b) \/ GiveUp(b) \/ Undone(b) \/ Finish(b) PROVE LockLives'
    BY <1>2 DEF Skip, GiveUp, Undone, Finish, Released, FallBack, LockLives
<1>3. ASSUME NEW b \in Boots,
             \/ Decide(b) \/ Wipe(b) \/ LockLegacy(b) \/ Stage(b) \/ StageRefused(b) \/ Commit(b)
             \/ Verify(b) \/ Undo(b) \/ StepFails(b)
             \/ Grace(b) \/ Complete(b) \/ Tell(b) \/ GraceFails(b)
      PROVE  LockLives'
    BY <1>3 DEF Decide, Wipe, LockLegacy, Stage, StageRefused, Commit, Verify, Undo, StepFails,
           Grace, Complete, Tell, GraceFails, LockLives, own
<1>4. ASSUME NEW b \in Boots, Booting(b) PROVE LockLives'
    BY <1>4 DEF Booting, Config, Refused, Open, Connect, CleanUp, CleanedUp, OpenAgent, LockLives,
           own
<1>5. CASE UNCHANGED vars
    BY <1>5 DEF vars, LockLives
<1> QED BY <1>1, <1>2, <1>3, <1>4, <1>5 DEF Next, Moving, Failing

(* A boot at the lock can go on, or another one that is alive holds it:    *)
(* the wait ends with that boot's way, its death or the timeout.           *)
THEOREM NobodyWaitsForNothing == Spec => []WaitsForSomeone
<1>1. Init => LockLives
    BY BootAssumption DEF Init, LockLives
<1>2. Typed /\ LockLives /\ [Next]_vars => LockLives'
    BY NextLockLives
<1>3. Typed /\ LockLives => WaitsForSomeone
    <2> SUFFICES ASSUME Typed, LockLives, NEW b \in Boots, pc[b] = "acquire",
                        lock # "free", ~Stale
                 PROVE  \E c \in Boots \ {b} : pc[c] \in Held \cup {"owner"} /\ lock \in {c, "bare"}
        BY DEF WaitsForSomeone
    <2>1. CASE lock = "bare"
        <3>1. PICK c \in Boots : pc[c] = "owner"
            BY <2>1 DEF Stale
        <3> QED BY <2>1, <3>1
    <2>2. CASE lock \in Boots
        <3>1. pc[lock] \in Held
            BY <2>2 DEF LockLives, Stale
        <3> QED BY <2>2, <3>1 DEF Held
    <2> QED BY <2>1, <2>2 DEF Typed, TypeOK
<1> QED BY <1>1, <1>2, <1>3, TypedHolds, PTL DEF Spec

-----------------------------------------------------------------------------
(* A boot goes forward.                                                    *)

(* The ends of the loops of the grace step and of the clean-up.            *)
Looped == \A b \in Boots : pc[b] \in {"grace", "cleanup"} => i[b] <= 4

Others(b) == \A c \in Boots \ {b} : pc'[c] = pc[c] /\ i'[c] = i[c] /\ put'[c] = put[c]

(* A step of boot b that counts, or none.                                  *)
Ahead(b) ==
    /\ Others(b)
    /\ pc'[b] \in {"grace", "cleanup"} => i'[b] <= 4
    /\ \/ pc'[b] \in {"acquire", "remove"}
       \/ Rank(b)' > Rank(b)
       \/ pc'[b] = pc[b] /\ i'[b] = i[b] /\ put'[b] = put[b]

(* What is rolled back last is one of the files put.                       *)
LEMMA LastIsPut ==
    ASSUME NEW s \in SUBSET Items, s # {}
    PROVE  LastPut(s) \in s
<1> DEFINE IsLast(x) == x \in s /\ \A y \in s : \E m, n \in 1..4 :
                            m >= n /\ CommitOrder[m] = x /\ CommitOrder[n] = y
<1>1. /\ CommitOrder[1] = "agent" /\ CommitOrder[2] = "secrets"
      /\ CommitOrder[3] = "marker" /\ CommitOrder[4] = "data"
    BY DEF CommitOrder
<1>2. s \subseteq {"agent", "secrets", "marker", "data"}
    BY DEF Items, Files
<1>3. \E x : IsLast(x)
    <2>1. CASE "data" \in s
        <3>1. IsLast("data")
            BY <1>1, <1>2, <2>1
        <3> QED BY <3>1
    <2>2. CASE "data" \notin s /\ "marker" \in s
        <3>1. IsLast("marker")
            BY <1>1, <1>2, <2>2
        <3> QED BY <3>1
    <2>3. CASE "data" \notin s /\ "marker" \notin s /\ "secrets" \in s
        <3>1. IsLast("secrets")
            BY <1>1, <1>2, <2>3
        <3> QED BY <3>1
    <2>4. CASE s = {"agent"}
        <3>1. IsLast("agent")
            BY <1>1, <2>4
        <3> QED BY <3>1
    <2> QED BY <1>2, <2>1, <2>2, <2>3, <2>4
<1> QED BY <1>3 DEF LastPut

LEMMA LeftFacts ==
    ASSUME NEW b \in Boots
    PROVE  Left(b) \in 0..4 /\ Left(b)' \in 0..4
BY DEF Left

LEMMA UndoAhead ==
    ASSUME Typed, NEW b \in Boots, Undo(b)
    PROVE  Ahead(b)
<1> USE DEF Typed, TypeOK
<1>1. LastPut(put[b]) \in put[b]
    BY LastIsPut DEF Undo
<1>2. /\ pc' = pc /\ i' = i /\ pc[b] = "undo"
      /\ put' = [put EXCEPT ![b] = put[b] \ {LastPut(put[b])}]
    BY DEF Undo
<1>3. put'[b] = put[b] \ {LastPut(put[b])} /\ put[b] \subseteq {"agent", "secrets", "marker", "data"}
    BY <1>2 DEF Items, Files
<1>4. Left(b)' < Left(b)
    BY <1>1, <1>3 DEF Left
<1>5. Rank(b)' > Rank(b)
    BY <1>2, <1>4, LeftFacts DEF Rank
<1> QED BY <1>2, <1>5 DEF Ahead, Others

LEMMA StepAhead ==
    ASSUME Typed, Looped, NEW b \in Boots,
           \/ \E l \in {"dir", "kb"} : Start(b, l)
           \/ Locking(b) \/ Moving(b) \/ Booting(b) \/ Failing(b)
           \/ Write(b) \/ WriteAside(b) \/ Stop(b)
    PROVE  Ahead(b)
<1> USE DEF Typed, TypeOK, Goto, Ahead, Others
<1>a. Left(b) \in 0..4 /\ Left(b)' \in 0..4 /\ i[b] \in 1..5
    BY LeftFacts
<1>1. CASE \/ \E l \in {"dir", "kb"} : Start(b, l)
           \/ Locking(b) \/ LockTimeout(b) \/ GiveUp(b) \/ Write(b) \/ WriteAside(b) \/ Stop(b)
    <2>1. CASE \E l \in {"dir", "kb"} : Start(b, l)
        BY <2>1 DEF Start, Rank
    <2>2. CASE Locking(b) \/ LockTimeout(b)
        <3>1. CASE Mkdir(b)
            BY <3>1 DEF Mkdir, own, Rank
        <3>2. CASE WriteOwner(b)
            BY <3>2 DEF WriteOwner, FallBack, Rank
        <3>3. CASE TakeOver(b)
            BY <3>3 DEF TakeOver, own, Rank
        <3>4. CASE RemoveLock(b)
            BY <3>4 DEF RemoveLock, own, Rank
        <3>5. CASE LockTimeout(b)
            BY <3>5 DEF LockTimeout, FallBack, Rank
        <3> QED BY <2>2, <3>1, <3>2, <3>3, <3>4, <3>5 DEF Locking
    <2>3. CASE GiveUp(b)
        BY <2>3 DEF GiveUp, FallBack, Rank
    <2>4. CASE Write(b) \/ WriteAside(b)
        BY <2>4 DEF Write, WriteAside, Looped, own
    <2>5. CASE Stop(b)
        BY <2>5 DEF Stop, Rank, own
    <2> QED BY <1>1, <2>1, <2>2, <2>3, <2>4, <2>5
<1>2. CASE StepFails(b) \/ GraceFails(b) \/ BusyTimeout(b) \/ Crash(b)
    <2>1. CASE StepFails(b)
        BY <1>a, <2>1 DEF StepFails, Rank, own
    <2>2. CASE GraceFails(b)
        BY <1>a, <2>2 DEF GraceFails, GraceMayFail, Looped, Rank, own
    <2>3. CASE Crash(b)
        <3>1. Rank(b) < 32
            BY <1>a, <2>3 DEF Crash, Looped, Rank, Held, Places
        <3> QED BY <2>3, <3>1 DEF Crash, Rank, own
    <2>4. CASE BusyTimeout(b)
        BY <2>4 DEF BusyTimeout, Rank, own
    <2> QED BY <1>2, <2>1, <2>2, <2>3, <2>4
<1>3. CASE Skip(b) \/ Decide(b) \/ Wipe(b) \/ LockLegacy(b) \/ Stage(b) \/ StageRefused(b)
    BY <1>a, <1>3 DEF Skip, Decide, Wipe, LockLegacy, Stage, StageRefused, Rank, own
<1>4. CASE Commit(b) \/ Verify(b)
    BY <1>a, <1>4 DEF Commit, Verify, Rank
<1>5. CASE Undone(b)
    <2>1. Left(b) = 0
        BY <1>5 DEF Undone, Left
    <2> QED BY <1>5, <2>1 DEF Undone, FallBack, Rank
<1>6. CASE Grace(b) \/ Complete(b) \/ Tell(b) \/ Finish(b)
    BY <1>a, <1>6 DEF Grace, Complete, Tell, Finish, Rank, own
<1>7. CASE Booting(b)
    BY <1>a, <1>7 DEF Booting, Config, Refused, Open, Connect, CleanUp, CleanedUp, OpenAgent, Looped,
           Rank, own
<1> QED BY <1>1, <1>2, <1>3, <1>4, <1>5, <1>6, <1>7, UndoAhead DEF Moving, Failing

(* A boot never goes back but to the lock it did not get, whatever fails   *)
(* and whoever dies: from there it is up or gone after thirty-two steps.   *)
THEOREM BootsGoForward == Spec => BootsMoveOn
<1> DEFINE On == \A b \in Boots :
              <<pc[b], i[b], put[b]>> # <<pc[b], i[b], put[b]>>' /\ pc'[b] # "acquire" /\ pc'[b] # "remove"
                  => Rank(b)' > Rank(b)
<1>1. Init => Looped
    BY DEF Init, Looped
<1>2. ASSUME Typed, Looped, Next PROVE Looped' /\ On
    <2>1. PICK b \in Boots : Ahead(b)
        BY <1>2, StepAhead DEF Next
    <2> QED BY <1>2, <2>1 DEF Ahead, Others, Looped
<1>3. Typed /\ Looped /\ [Next]_vars => Looped' /\ [On]_vars
    <2>1. ASSUME Looped, UNCHANGED vars PROVE Looped'
        BY <2>1 DEF vars, own, Looped
    <2> QED BY <1>2, <2>1
<1> QED BY <1>1, <1>3, TypedHolds, PTL DEF Spec, BootsMoveOn
=============================================================================
