------------------------------ MODULE MCCliGate ------------------------------
(* Instances of CliGate for TLC.                                           *)
EXTENDS CliGate

(* Two classifier calls of one key, and one of another user.               *)
MCCalls == {"a", "b", "x"}
MCKeyOf == [c \in MCCalls |-> IF c = "x" THEN "v" ELSE "u"]
=============================================================================
