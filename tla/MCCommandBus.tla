---------------------------- MODULE MCCommandBus ----------------------------
(* Instances of CommandBus for TLC.                                        *)
EXTENDS CommandBus, TLC

(* Two writes and a review, the writes on one lane, for the faults.        *)
MCCmds == {"r", "w", "x"}
MCTwo == {"w", "x"}
MCKindOf == [c \in MCCmds |-> IF c = "r" THEN "review" ELSE "sources.update"]
MCClientOf == [c \in MCCmds |-> IF c = "x" THEN "desktop-ui" ELSE "ios-native"]
MCProjectOf == [c \in MCCmds |-> IF c = "r" THEN "p" ELSE None]
MCSlotOf == [c \in MCCmds |-> None]
MCTtl == [c \in MCCmds |-> 1]
(* The two writes alone.                                                   *)
MCTwoKindOf == [c \in MCTwo |-> "sources.update"]
MCTwoClientOf == [c \in MCTwo |-> MCClientOf[c]]
MCTwoProjectOf == [c \in MCTwo |-> None]
MCTwoSlotOf == [c \in MCTwo |-> None]
MCTwoTtl == [c \in MCTwo |-> 1]
MCNoSchedules == [s \in {} |-> 0]

(* Runs of one schedule, which nothing tells apart.                        *)
MCRunKindOf == [c \in Cmds |-> "sources.update"]
MCRunClientOf == [c \in Cmds |-> "desktop-ui"]
MCRunProjectOf == [c \in Cmds |-> None]
MCRunSlotOf == [c \in Cmds |-> "s"]
MCRunTtl == [c \in Cmds |-> 2]
MCRunSymmetry == Permutations(Cmds)
MCStandingFor == [s \in {"s"} |-> 4]

(* The lane of a write is its kind's, of a review its project's.           *)
MCLaneOf == [c \in Cmds |-> <<KindOf[c], ProjectOf[c]>>]
=============================================================================
