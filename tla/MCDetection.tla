----------------------------- MODULE MCDetection -----------------------------
(***************************************************************************)
(* Instances of Detection for TLC: a few rules, and the events that match  *)
(* them.                                                                   *)
(***************************************************************************)
EXTENDS Detection, TLC

CONSTANTS k1, k2, k3, plain, f1, f2

\* k1, k2 and k3 are keys of threshold rules, `plain' of a rule without one.
\* Two maps hold one key less than there are.
MCKeys  == {k1, k2, k3, plain}
MCCount == [k \in MCKeys |-> CASE k = plain -> 0 [] k = k2 -> 3 [] OTHER -> 2]

SamePeriod   == [k \in MCKeys |-> 2]
ShortAndLong == [k \in MCKeys |-> IF k = k1 THEN 1 ELSE 2]

MCPrints == {f1, f2}
MCFpOf   == [k \in MCKeys |-> IF k = plain THEN f2 ELSE f1]

\* A package event matches the rule without a threshold; of its
\* vulnerability an event is made, which matches a threshold rule.
MCKinds   == {"package", "login", "flaw"}
MCMatched == [package |-> <<plain>>, login |-> <<k1, k2>>, flaw |-> <<k3>>]
MCYields  == [package |-> <<"flaw">>, login |-> <<>>, flaw |-> <<>>]
=============================================================================
