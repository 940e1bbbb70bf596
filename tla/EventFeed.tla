------------------------------ MODULE EventFeed ------------------------------
(***************************************************************************)
(* What the event log of a command promises its readers (section 2 of      *)
(* docs/spec/command-bus.md): it only grows, its one terminal event is its *)
(* last, at most one marker says that output was cut, and every reader is  *)
(* given each event once and in order.                                     *)
(***************************************************************************)
EXTENDS Naturals, Sequences

CONSTANT Readers

VARIABLES
    log,  \* the events ever written, "event", "mark" (events_truncated) or "terminal"
    got   \* got[r]: how many of them reader r was given

Has(l, k) == \E i \in DOMAIN l : l[i] = k

Init == log = <<"event">> /\ got = [r \in Readers |-> 0]

Write(k) ==
    /\ ~Has(log, "terminal")
    /\ k = "mark" => ~Has(log, "mark")
    /\ log' = Append(log, k)
    /\ UNCHANGED got

Give(r) ==
    /\ got[r] < Len(log)
    /\ got' = [got EXCEPT ![r] = @ + 1]
    /\ UNCHANGED log

Next == (\E k \in {"event", "mark", "terminal"} : Write(k)) \/ (\E r \in Readers : Give(r))

Spec == Init /\ [][Next]_<<log, got>>
=============================================================================
