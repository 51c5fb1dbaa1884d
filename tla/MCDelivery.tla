------------------------------ MODULE MCDelivery ------------------------------
(***************************************************************************)
(* Instances of Delivery for TLC: what is forwarded, and the small         *)
(* capacities that let every channel, buffer and queue fill up.            *)
(***************************************************************************)
EXTENDS Delivery, TLC

Two(e, a) == [k \in {"event", "alert"} |-> IF k = "event" THEN e ELSE a]

\* An event and two alerts of one agent; both alerts have no row.
MCKindOf  == <<"alert", "event", "alert">>
MCAgentOf == <<"agent", "agent", "agent">>
MCDocId   == <<0, 1, 0>>

\* Nothing is wrong with them, each is stopped at another place, or one alert
\* of a batch is left out of it.
MCFlaws == {<<{}, {}, {}>>, <<{"invalid"}, {"encode"}, {"decode"}>>,
            <<{"encode"}, {}, {}>>}

MCChanCap  == Two(1, 1)
MCBufCap   == Two(1, 2)
MCMaxTaken == Two(1, 1)
=============================================================================
