----------------------------- MODULE MCTicketing -----------------------------
(***************************************************************************)
(* Instances of Ticketing for TLC: one agent, two rules, two engineers.    *)
(***************************************************************************)
EXTENDS Ticketing, TLC

CONSTANTS host

\* A critical alert, whose weight of 50 makes a notable with the second one,
\* and a medium one that opens no case.
Brute == [rule |-> 1, agent |-> host, level |-> 12]
Odd   == [rule |-> 2, agent |-> host, level |-> 7]
OneKind  == {Brute}
TwoKinds == {Brute, Odd}
MCGroups == {Group(Brute), Group(Odd)}

\* Critical cases have a deadline of one unit, the others none.
MCSla == [p \in Priorities |-> IF p = "critical" THEN 1 ELSE 0]

\* Engineer 1 takes any case but one at a time, engineer 2 is on call.
MCTier    == (1 :> 3) @@ (2 :> 3)
MCMaxLoad == (1 :> 1) @@ (2 :> 1)
OnDuty    == (1 :> "shift") @@ (2 :> "oncall")
OffDuty   == (1 :> "off") @@ (2 :> "off")
MCRosters == {OnDuty}

\* An update that raises the priority, closes the case or gives it to
\* engineer 2.
Leave == [status |-> Keep, prio |-> Keep, who |-> Nobody]
MCPatches == {[Leave EXCEPT !.status = "closed"], [Leave EXCEPT !.prio = "low"]}
=============================================================================
