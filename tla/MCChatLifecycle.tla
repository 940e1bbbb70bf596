-------------------------- MODULE MCChatLifecycle ---------------------------
EXTENDS ChatLifecycle, TLC

Symmetry == Permutations(Turns)

\* No turn will run any more.
TurnsOver == \A t \in Turns : turn[t] = "over"

\* No row is left, nor will be: nothing there for an archive run or a receipt.
RowIsGone == TurnsOver /\ map = None

\* Every row that is or comes is newer than the receipt.
ReceiptIsDead == (map = None \/ Stale) /\ Sec(clock + 1) > Sec(receipt.at)

\* Of an archive run: whether it read the row as it is.
SeenBy(r) ==
  LET n == run[r] IN <<n.step, map # None /\ map.used <= n.saw, Sec(n.used), Sec(n.hash)>>

\* The state without what no later step reads and no property looks at.  Of
\* the file, the receipt and the delete only the second tells.
MCView ==
  <<clock, turns, map, script, tomb, app, Sec(local), del, posts, deleted, later,
    ~TurnsOver /\ updating,
    IF ReceiptIsDead THEN <<>>
    ELSE <<Sec(receipt.at), Sec(receipt.of), map # None /\ map.used <= receipt.saw>>,
    IF RowIsGone THEN <<run["sweep"].step = "tombs">> ELSE <<SeenBy("sweep"), SeenBy("quit"), asks>>,
    IF file = 0 THEN <<>> ELSE IF RowIsGone THEN <<0>> ELSE <<Sec(file)>>,
    stray \cap {s \in Turns : script[s] # 0},
    deleted = "quiet" /\ spared>>
=============================================================================
