---------------------------- MODULE OrderedFeed -----------------------------
(***************************************************************************)
(* What a WAL queue owes its reader: the points it accepted are fed in the *)
(* order they were accepted, each run of the process without a gap.  A new *)
(* process may start again from an earlier point, so that points are fed   *)
(* twice, but never from a later one.                                      *)
(***************************************************************************)
EXTENDS Integers, Sequences

CONSTANT Point, NoPoint

VARIABLES
    log,     \* points accepted, in order
    cursor,  \* how many of them are behind the feed
    last     \* the point fed last by this run, or NoPoint

vars == <<log, cursor, last>>

Init == log = <<>> /\ cursor = 0 /\ last = NoPoint

Accept(p) ==
    /\ log' = Append(log, p)
    /\ UNCHANGED <<cursor, last>>

Feed ==
    /\ cursor < Len(log)
    /\ cursor' = cursor + 1
    /\ last' = log[cursor + 1]
    /\ UNCHANGED log

\* The process ends; the next one resumes at or before the feed's position.
Rewind ==
    /\ cursor' \in 0..cursor
    /\ last' = NoPoint
    /\ UNCHANGED log

Next == (\E p \in Point : Accept(p)) \/ Feed \/ Rewind

Spec == Init /\ [][Next]_vars
=============================================================================
