----------------------------- MODULE RiskAlerting -----------------------------
(***************************************************************************)
(* Risk-based alerting (rba.Engine): each stored alert adds a risk event   *)
(* to its agent; when the unexpired events reach the agent's threshold and *)
(* the last notable is a cooldown old, a notable is recorded and a case    *)
(* opened. The agent's row is read, changed in memory and written back     *)
(* whole, by the workers and by the API's threshold request.               *)
(***************************************************************************)
EXTENDS Cases

CONSTANTS
    Agents,
    Configured,  \* weights the API has set for a rule: SUBSET Nat
    Thresholds,  \* thresholds the API may set
    DefaultThreshold, Decay, Cooldown, MaxNotables

ASSUME RiskAssumption ==
    /\ Configured \subseteq Nat \ {0} /\ Thresholds \subseteq Nat
    /\ DefaultThreshold \in Nat /\ Decay \in Nat \ {0}
    /\ Cooldown \in Nat \ {0} /\ MaxNotables \in Nat

VARIABLES
    riskEvents,  \* rba_risk_events
    entity,      \* rba_entity_risk: [Agents -> rows]
    notables,    \* rba_notables
    nextNotable,
    score, ent,  \* [Workers -> ...]: the worker's sum and its copy of the row
    thr,         \* the threshold request: idle or the copy it will write
    raced        \* history: agents whose row was not read and written alone

risk == <<riskEvents, entity, notables, nextNotable, score, ent, thr, raced>>
caseState == <<cases, nextCase, found, sweeper, edit, handled, touched, told,
               overlap>>

NeverFired == -Cooldown     \* the epoch: longer ago than any cooldown
DefaultEntity == [threshold |-> DefaultThreshold, fired |-> 0,
                  last |-> NeverFired]
Idle == [step |-> "idle"]

LevelToWeight(level) ==
    CASE level >= 13 -> 100 [] level >= 10 -> 50 [] level >= 6 -> 25
      [] OTHER -> 10

RiskToPriority(s) ==
    CASE s >= 200 -> "critical" [] s >= 150 -> "high" [] s >= 100 -> "medium"
      [] OTHER -> "low"

\* ComputeEntityRiskScore
Score(a) == MapThenSumSet(LAMBDA r : r.weight,
                {r \in riskEvents : r.agent = a /\ r.expires > now})

\* A process holds a copy of the agent's row that it is going to write.
Holding(w) == pc[w] \in {"notable", "rroute", "rcreate", "upsert"}
Held(a) == \/ \E w \in Workers : Holding(w) /\ alert[w].agent = a
           \/ thr # Idle /\ thr.agent = a

-----------------------------------------------------------------------------
(* OnAlert                                                                 *)

\* The risk event of an alert that has an id, weighed by the rule's weight or,
\* without one or when it cannot be read, by the level.
RbaEvent(w) ==
    /\ pc[w] = "rba"
    /\ \/ alert[w].id = 0 /\ Goto(w, "cases") /\ UNCHANGED <<riskEvents, faults>>
       \/ /\ alert[w].id # 0
          /\ \E weight \in Configured \cup {LevelToWeight(alert[w].level)} :
               riskEvents' = riskEvents \cup
                   {[id |-> alert[w].id, agent |-> alert[w].agent,
                     weight |-> weight, expires |-> now + Decay]}
          /\ Goto(w, "score")
          /\ UNCHANGED faults
       \/ alert[w].id # 0 /\ Fault /\ Goto(w, "cases") /\ UNCHANGED riskEvents
    /\ UNCHANGED <<alert, chosen, now, edits, caseState, entity, notables,
                   nextNotable, score, ent, thr, raced>>

RbaScore(w) ==
    /\ pc[w] = "score"
    /\ \/ /\ score' = [score EXCEPT ![w] = Score(alert[w].agent)]
          /\ Goto(w, "load") /\ UNCHANGED faults
       \/ Fault /\ Goto(w, "cases") /\ UNCHANGED score
    /\ UNCHANGED <<alert, chosen, now, edits, caseState, riskEvents, entity,
                   notables, nextNotable, ent, thr, raced>>

\* The agent's row, the default one if it cannot be read; then the threshold
\* and the cooldown.
RbaLoad(w) ==
    LET a == alert[w].agent
    IN  /\ pc[w] = "load"
        /\ \/ /\ ent' = [ent EXCEPT ![w] = entity[a]]
              /\ raced' = IF Held(a) THEN raced \cup {a} ELSE raced
              /\ UNCHANGED faults
           \/ /\ Fault
              /\ ent' = [ent EXCEPT ![w] = DefaultEntity]
              /\ raced' = raced \cup {a}
        /\ Goto(w, IF /\ score[w] >= ent'[w].threshold
                      /\ now - ent'[w].last >= Cooldown
                     THEN "notable" ELSE "upsert")
        /\ UNCHANGED <<alert, chosen, now, edits, caseState, riskEvents, entity,
                       notables, nextNotable, score, thr>>

\* The cooldown does not start.
FiredNoCooldown(row) == [row EXCEPT !.fired = @ + 1]

Fired(row) == [row EXCEPT !.fired = @ + 1, !.last = now]

\* fireNotable. The cooldown starts even when the notable cannot be stored.
RbaNotable(w) ==
    /\ pc[w] = "notable"
    /\ ent' = [ent EXCEPT ![w] = Fired(@)]
    /\ \/ /\ nextNotable <= MaxNotables
          /\ notables' = notables \cup {[id |-> nextNotable, at |-> now,
                                         agent |-> alert[w].agent]}
          /\ nextNotable' = nextNotable + 1
          /\ Goto(w, "rroute") /\ UNCHANGED <<faults, raced>>
       \/ /\ Fault /\ Goto(w, "upsert")
          /\ raced' = raced \cup {alert[w].agent}
          /\ UNCHANGED <<notables, nextNotable>>
    /\ UNCHANGED <<alert, chosen, now, edits, caseState, riskEvents, entity,
                   score, thr>>

RbaRoute(w) ==
    /\ pc[w] = "rroute" /\ Goto(w, "rcreate")
    /\ \E duty \in Rosters :
         chosen' = [chosen EXCEPT ![w] = Route(RiskToPriority(score[w]),
                                               NoGroup, duty)]
    /\ UNCHANGED <<alert, now, edits, faults, caseState, risk>>

RbaCreate(w) ==
    /\ pc[w] = "rcreate" /\ Goto(w, "upsert")
    /\ chosen' = [chosen EXCEPT ![w] = Nobody]
    /\ \/ /\ CreateCase(NewRow(RiskToPriority(score[w]), chosen[w], NoGroup, {}))
          /\ UNCHANGED faults
       \/ Fault /\ UNCHANGED table
    /\ UNCHANGED <<alert, found, now, sweeper, edit, handled, touched, told,
                   overlap, edits, risk>>

\* The whole row goes back.
RbaUpsert(w) ==
    LET a == alert[w].agent
    IN  /\ pc[w] = "upsert" /\ Goto(w, "cases")
        /\ \/ entity' = [entity EXCEPT ![a] = ent[w]] /\ UNCHANGED <<faults, raced>>
           \/ Fault /\ raced' = raced \cup {a} /\ UNCHANGED entity
        /\ ent' = [ent EXCEPT ![w] = DefaultEntity]
        /\ score' = [score EXCEPT ![w] = 0]
        /\ UNCHANGED <<alert, chosen, now, edits, caseState, riskEvents,
                       notables, nextNotable, thr>>

RiskHook(w) == RbaEvent(w) \/ RbaScore(w) \/ RbaLoad(w) \/ RbaNotable(w)
                 \/ RbaRoute(w) \/ RbaCreate(w) \/ RbaUpsert(w)

-----------------------------------------------------------------------------
(* The API                                                                 *)

\* SetThreshold reads the row ...
ThresholdRead ==
    /\ thr = Idle /\ edits < MaxEdits /\ edits' = edits + 1
    /\ \E a \in Agents, t \in Thresholds :
         \/ /\ thr' = [step |-> "write", agent |-> a,
                       row |-> [entity[a] EXCEPT !.threshold = t]]
            /\ raced' = IF Held(a) THEN raced \cup {a} ELSE raced
            /\ UNCHANGED faults
         \/ /\ Fault
            /\ thr' = [step |-> "write", agent |-> a,
                       row |-> [DefaultEntity EXCEPT !.threshold = t]]
            /\ raced' = raced \cup {a}
    /\ UNCHANGED <<workers, now, caseState, riskEvents, entity, notables,
                   nextNotable, score, ent>>

\* ... and writes all of it.
ThresholdWrite ==
    /\ thr # Idle /\ thr' = Idle
    /\ \/ entity' = [entity EXCEPT ![thr.agent] = thr.row] /\ UNCHANGED faults
       \/ Fault /\ UNCHANGED entity
    /\ UNCHANGED <<workers, now, edits, caseState, riskEvents, notables,
                   nextNotable, score, ent, raced>>

\* PurgeEntities, one transaction.
Purge ==
    /\ edits < MaxEdits /\ edits' = edits + 1
    /\ \E a \in Agents :
         /\ riskEvents' = {r \in riskEvents : r.agent # a}
         /\ notables' = {n \in notables : n.agent # a}
         /\ entity' = [entity EXCEPT ![a] = DefaultEntity]
         /\ raced' = IF Held(a) THEN raced \cup {a} ELSE raced
    /\ UNCHANGED <<workers, now, faults, caseState, nextNotable, score, ent, thr>>

RiskApi == ThresholdRead \/ ThresholdWrite \/ Purge

-----------------------------------------------------------------------------

RiskInit ==
    /\ riskEvents = {} /\ notables = {} /\ nextNotable = 1
    /\ entity = [a \in Agents |-> DefaultEntity]
    /\ score = [w \in Workers |-> 0]
    /\ ent = [w \in Workers |-> DefaultEntity]
    /\ thr = Idle /\ raced = {}

EntityRow == [threshold : Nat, fired : Nat, last : Int]

RiskTypeOK ==
    /\ \A r \in riskEvents : r.agent \in Agents /\ r.weight \in Nat \ {0}
    /\ entity \in [Agents -> EntityRow]
    /\ \A n \in notables : n.agent \in Agents /\ n.at \in 1..now
    /\ nextNotable \in 1..(MaxNotables + 1)
    /\ score \in [Workers -> Nat] /\ ent \in [Workers -> EntityRow]
    /\ thr # Idle => thr.agent \in Agents /\ thr.row \in EntityRow
    /\ raced \subseteq Agents
=============================================================================
