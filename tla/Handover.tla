------------------------------- MODULE Handover -------------------------------
(***************************************************************************)
(* What the move of the data directory promises whoever keeps using the    *)
(* old location, kb/ (extension/kb/data-dir-migration.mjs): its database   *)
(* is given up at most once, for a copy that holds every write made to it  *)
(* until then; nobody opens it after that; and only then may the notice be *)
(* put up that turns old servers away.  Who had it open when it was given  *)
(* up may go on with it, and what he writes is lost.                       *)
(***************************************************************************)
EXTENDS Naturals

CONSTANT Programs   \* who may open the database

VARIABLES
    kept,   \* the user's database is still in kb/
    holds,  \* how many writes the database that the user is left with holds
    told,   \* the notice is there
    users,  \* the programs that have the old database open
    lost    \* writes to the old database after it was given up

Init == kept = TRUE /\ holds = 0 /\ told = FALSE /\ users = {} /\ lost = 0

Open ==
    kept /\ (\E p \in Programs : users' = users \cup {p}) /\ UNCHANGED <<kept, holds, told, lost>>
Close == (\E p \in users : users' = users \ {p}) /\ UNCHANGED <<kept, holds, told, lost>>
Write == kept /\ users # {} /\ holds' = holds + 1 /\ UNCHANGED <<kept, told, users, lost>>
GiveUp == kept /\ kept' = FALSE /\ UNCHANGED <<holds, told, users, lost>>
Tell == ~kept /\ told' = TRUE /\ UNCHANGED <<kept, holds, users, lost>>
Stray == ~kept /\ users # {} /\ lost' = lost + 1 /\ UNCHANGED <<kept, holds, told, users>>

Next == Open \/ Close \/ Write \/ GiveUp \/ Tell \/ Stray

Spec == Init /\ [][Next]_<<kept, holds, told, users, lost>>
=============================================================================
