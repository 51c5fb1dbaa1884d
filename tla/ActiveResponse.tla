-------------------------- MODULE ActiveResponse --------------------------
(***************************************************************************)
(* The agent's active response: what the commands of the manager do to the *)
(* host's firewall, and the goroutines that undo it when the configured    *)
(* time has passed.  iptables is modelled as the agent uses it.  Its rules *)
(* outlive the agent; the record of them and the goroutines do not.        *)
(*                                                                         *)
(* A command runs in the goroutine that received it.  When the stream is   *)
(* replaced while a command runs, the new stream's goroutine takes the     *)
(* next one beside it.                                                     *)
(***************************************************************************)
EXTENDS Integers, FiniteSets

CONSTANTS
    Targets,        \* addresses that commands name
    Safelists,      \* what a config_update may set safelist_ips to
    InitialSafelist,\* safelist_ips of the configuration file
    MaxCommands,    \* bound: commands received
    MaxFails,       \* bound: iptables calls and look-ups that fail
    MaxRestarts     \* bound: restarts of the agent

ASSUME ActiveResponseAssumption ==
    /\ {MaxCommands, MaxFails, MaxRestarts} \subseteq Nat
    /\ InitialSafelist \subseteq Targets /\ Safelists \subseteq SUBSET Targets

(* A goroutine is a number: a command's is its own, and that of its timer  *)
(* comes MaxCommands later.                                                *)
Orders     == 1 .. MaxCommands
Goroutines == 1 .. 2 * MaxCommands
Timer(g)   == g + MaxCommands
NoOne      == 0

OnTarget == {"firewall-drop", "firewall-unblock"}
OnHost   == {"isolate-host", "unisolate-host"}

VARIABLES
    drops,          \* iptables: how many DROP rules an address has
    policy,         \* iptables: the policies of INPUT and OUTPUT
    allowed,        \* iptables: how often the manager's address is let through
    safelist,       \* Config.ActiveResponse.SafelistIPs
    activeBlocks,   \* the addresses recorded as blocked
    isolationActive,
    isolationIPs,   \* whether the manager's addresses are recorded
    isolationMu,    \* the goroutine that holds the lock
    run,            \* the goroutines: what they do, to what, and where they are
    received,       \* history: commands received
    fails, restarts,\* history: bounds
    mishaps         \* history: what happened that the code does not undo

hostVars == <<drops, policy, allowed>>
responseVars == <<hostVars, safelist, activeBlocks, isolationActive,
                  isolationIPs, isolationMu, run, received, fails, restarts,
                  mishaps>>

Idle == [op |-> "none", on |-> {}, at |-> "done"]

ResponseInit ==
    /\ drops = [t \in Targets |-> 0]
    /\ policy = [INPUT |-> "ACCEPT", OUTPUT |-> "ACCEPT"] /\ allowed = 0
    /\ safelist = InitialSafelist /\ activeBlocks = {}
    /\ isolationActive = FALSE /\ isolationIPs = FALSE /\ isolationMu = NoOne
    /\ run = [g \in Goroutines |-> Idle]
    /\ received = 0 /\ fails = 0 /\ restarts = 0 /\ mishaps = {}

At(g, op, place) == run[g].op = op /\ run[g].at = place
GoTo(g, place) == run' = [run EXCEPT ![g].at = place]

(* go a.scheduleUnblock, go a.scheduleUnisolate: the command is done, and  *)
(* its timer sleeps.                                                       *)
DoneWithTimer(g, op) ==
    run' = [run EXCEPT ![g].at = "done",
                       ![Timer(g)] = [op |-> op, on |-> run[g].on, at |-> "asleep"]]

(* A call of iptables, which may fail or run out of time; some errors are  *)
(* ignored.                                                                *)
Fails ==
    /\ fails < MaxFails /\ fails' = fails + 1
    /\ UNCHANGED hostVars
Works == UNCHANGED fails
Ignores == Fails /\ mishaps' = mishaps \cup {"ignored"}

(* handleManagerCommand: a command arrives; the other goroutine may still  *)
(* be in one.                                                              *)
Receive ==
    /\ received < MaxCommands /\ received' = received + 1
    /\ Cardinality({g \in Orders : run[g].at # "done"}) < 2
    /\ \E r \in [op : OnTarget, on : {{t} : t \in Targets}, at : {"start"}]
                \cup [op : OnHost, on : {{}}, at : {"start"}]
                \cup [op : {"config_update"}, on : Safelists, at : {"start"}] :
          run' = [run EXCEPT ![received + 1] = r]
    /\ UNCHANGED <<hostVars, safelist, activeBlocks, isolationActive,
                   isolationIPs, isolationMu, fails, restarts, mishaps>>

(* handleConfigUpdate: in memory only. *)
ConfigUpdate(g) ==
    /\ At(g, "config_update", "start")
    /\ safelist' = run[g].on
    /\ GoTo(g, "done")
    /\ UNCHANGED <<hostVars, activeBlocks, isolationActive, isolationIPs,
                   isolationMu, received, fails, restarts, mishaps>>

----------------------------------------------------------------------------
(* ipSafelisted: entries are addresses, or networks that stand for theirs. *)
IpSafelisted(target) == target \subseteq safelist

(* firewall-drop.  Refused for an address of the safelist; *)
CheckSafelist(g) ==
    /\ At(g, "firewall-drop", "start")
    /\ GoTo(g, IF IpSafelisted(run[g].on) THEN "done" ELSE "check")
    /\ UNCHANGED <<hostVars, safelist, activeBlocks, isolationActive,
                   isolationIPs, isolationMu, received, fails, restarts, mishaps>>

(* nothing to do for one that is recorded as blocked, but reported as      *)
(* executed;                                                               *)
AlreadyBlocked(g) ==
    /\ At(g, "firewall-drop", "check")
    /\ GoTo(g, IF run[g].on \subseteq activeBlocks THEN "done" ELSE "append")
    /\ UNCHANGED <<hostVars, safelist, activeBlocks, isolationActive,
                   isolationIPs, isolationMu, received, fails, restarts, mishaps>>

(* iptables -A; *)
FirewallDrop(g) ==
    /\ At(g, "firewall-drop", "append")
    /\ \/ /\ drops' = [t \in Targets |-> IF t \in run[g].on THEN drops[t] + 1
                                                            ELSE drops[t]]
          /\ Works /\ GoTo(g, "record") /\ UNCHANGED <<policy, allowed>>
       \/ Fails /\ GoTo(g, "done")
    /\ UNCHANGED <<safelist, activeBlocks, isolationActive, isolationIPs,
                   isolationMu, received, restarts, mishaps>>

(* Mutant of RecordBlock: the timer is only for the first block. *)
RecordFirst(g) ==
    /\ At(g, "firewall-drop", "record")
    /\ activeBlocks' = activeBlocks \cup run[g].on
    /\ IF run[g].on \subseteq activeBlocks THEN GoTo(g, "done")
                                           ELSE DoneWithTimer(g, "firewall-unblock")
    /\ UNCHANGED <<hostVars, safelist, isolationActive, isolationIPs,
                   isolationMu, received, fails, restarts, mishaps>>

(* the record, and the timer. *)
RecordBlock(g) ==
    /\ At(g, "firewall-drop", "record")
    /\ activeBlocks' = activeBlocks \cup run[g].on
    /\ DoneWithTimer(g, "firewall-unblock")
    /\ UNCHANGED <<hostVars, safelist, isolationActive, isolationIPs,
                   isolationMu, received, fails, restarts, mishaps>>

(* firewall-unblock, or block_ttl_secs have passed (scheduleUnblock):      *)
(* iptables -D takes one rule, if there is one; an error is ignored;       *)
FirewallUnblock(g) ==
    /\ run[g].op = "firewall-unblock" /\ run[g].at \in {"start", "asleep"}
    /\ GoTo(g, "forget")
    /\ \/ /\ drops' = [t \in Targets |-> IF t \in run[g].on /\ drops[t] > 0
                                         THEN drops[t] - 1 ELSE drops[t]]
          /\ Works /\ UNCHANGED <<policy, allowed, mishaps>>
       \/ Ignores
    /\ UNCHANGED <<safelist, activeBlocks, isolationActive, isolationIPs,
                   isolationMu, received, restarts>>

(* forgetBlock. *)
ForgetBlock(g) ==
    /\ At(g, "firewall-unblock", "forget")
    /\ activeBlocks' = activeBlocks \ run[g].on
    /\ GoTo(g, "done")
    /\ UNCHANGED <<hostVars, safelist, isolationActive, isolationIPs,
                   isolationMu, received, fails, restarts, mishaps>>

----------------------------------------------------------------------------
(* isolate-host, under its lock.  Mutant: without the manager's address it *)
(* goes on.                                                                *)
IsolateBlind(g) ==
    /\ At(g, "isolate-host", "start") /\ isolationMu = NoOne
    /\ \/ isolationActive /\ GoTo(g, "done") /\ Works /\ UNCHANGED <<hostVars, isolationMu>>
       \/ ~isolationActive /\ GoTo(g, "allow") /\ isolationMu' = g /\ Works /\ UNCHANGED hostVars
       \/ ~isolationActive /\ GoTo(g, "input") /\ isolationMu' = g /\ Fails
    /\ UNCHANGED <<safelist, activeBlocks, isolationActive, isolationIPs,
                   received, restarts, mishaps>>

(* Refused when the manager's address is not found; *)
Isolate(g) ==
    /\ At(g, "isolate-host", "start") /\ isolationMu = NoOne
    /\ \/ isolationActive /\ GoTo(g, "done") /\ Works /\ UNCHANGED <<hostVars, isolationMu>>
       \/ ~isolationActive /\ GoTo(g, "allow") /\ isolationMu' = g /\ Works /\ UNCHANGED hostVars
       \/ ~isolationActive /\ GoTo(g, "done") /\ UNCHANGED isolationMu /\ Fails
    /\ UNCHANGED <<safelist, activeBlocks, isolationActive, isolationIPs,
                   received, restarts, mishaps>>

(* the rules that let the manager through, errors ignored; *)
AllowManager(g) ==
    /\ At(g, "isolate-host", "allow")
    /\ GoTo(g, "input")
    /\ \/ allowed' = allowed + 1 /\ Works /\ UNCHANGED <<drops, policy, mishaps>>
       \/ Ignores
    /\ UNCHANGED <<safelist, activeBlocks, isolationActive, isolationIPs,
                   isolationMu, received, restarts>>

(* then the policies, INPUT first. *)
DropInput(g) ==
    /\ At(g, "isolate-host", "input")
    /\ \/ /\ policy' = [policy EXCEPT !.INPUT = "DROP"]
          /\ Works /\ GoTo(g, "output") /\ UNCHANGED <<drops, allowed, isolationMu>>
       \/ Fails /\ GoTo(g, "done") /\ isolationMu' = NoOne
    /\ UNCHANGED <<safelist, activeBlocks, isolationActive, isolationIPs,
                   received, restarts, mishaps>>

(* When the last call fails, nothing takes the others back. *)
DropOutput(g) ==
    /\ At(g, "isolate-host", "output")
    /\ isolationMu' = NoOne
    /\ \/ /\ policy' = [policy EXCEPT !.OUTPUT = "DROP"]
          /\ isolationActive' = TRUE /\ isolationIPs' = TRUE
          /\ DoneWithTimer(g, "unisolate-host")
          /\ Works /\ UNCHANGED <<drops, allowed, mishaps>>
       \/ /\ Fails /\ GoTo(g, "done") /\ mishaps' = mishaps \cup {"half"}
          /\ UNCHANGED <<isolationActive, isolationIPs>>
    /\ UNCHANGED <<safelist, activeBlocks, received, restarts>>

(* scheduleUnisolate wakes: nothing to do for a host that was released.    *)
(* The lock is free between this look and the release.                     *)
WakeUnisolate(g) ==
    /\ At(g, "unisolate-host", "asleep") /\ isolationMu = NoOne
    /\ GoTo(g, IF isolationActive THEN "start" ELSE "done")
    /\ UNCHANGED <<hostVars, safelist, activeBlocks, isolationActive,
                   isolationIPs, isolationMu, received, fails, restarts, mishaps>>

(* unisolate-host, under the lock: *)
Unisolate(g) ==
    /\ At(g, "unisolate-host", "start") /\ isolationMu = NoOne
    /\ isolationMu' = g
    /\ GoTo(g, "input")
    /\ UNCHANGED <<hostVars, safelist, activeBlocks, isolationActive,
                   isolationIPs, received, fails, restarts, mishaps>>

(* the policies, errors ignored; *)
Accept(g) ==
    /\ run[g].op = "unisolate-host" /\ run[g].at \in {"input", "output"}
    /\ LET chain == IF run[g].at = "input" THEN "INPUT" ELSE "OUTPUT" IN
       \/ /\ policy' = [policy EXCEPT ![chain] = "ACCEPT"]
          /\ Works /\ UNCHANGED <<drops, allowed, mishaps>>
       \/ Ignores
    /\ GoTo(g, IF run[g].at = "input" THEN "output" ELSE "delete")
    /\ UNCHANGED <<safelist, activeBlocks, isolationActive, isolationIPs,
                   isolationMu, received, restarts>>

(* one of each rule for the manager, if its address is known or found; the *)
(* host counts as released whatever failed.                                *)
DeleteAllowRules(g) ==
    /\ At(g, "unisolate-host", "delete")
    /\ \/ /\ allowed' = IF allowed > 0 THEN allowed - 1 ELSE 0
          /\ Works /\ UNCHANGED <<drops, policy, mishaps>>
       \/ Ignores
    /\ isolationActive' = FALSE /\ isolationIPs' = FALSE
    /\ isolationMu' = NoOne
    /\ GoTo(g, "done")
    /\ UNCHANGED <<safelist, activeBlocks, received, restarts>>

----------------------------------------------------------------------------
(* The agent is restarted: a crash, a stop and start, or an update.        *)
ResponseRestart ==
    /\ restarts < MaxRestarts /\ restarts' = restarts + 1
    /\ run' = [g \in Goroutines |-> Idle]
    /\ safelist' = InitialSafelist /\ activeBlocks' = {}
    /\ isolationActive' = FALSE /\ isolationIPs' = FALSE /\ isolationMu' = NoOne
    /\ mishaps' = IF "DROP" \in {policy.INPUT, policy.OUTPUT} \/ \E t \in Targets : drops[t] > 0
                  THEN mishaps \cup {"restart"} ELSE mishaps
    /\ UNCHANGED <<hostVars, received, fails>>

Proceed(g) ==
    \/ ConfigUpdate(g) \/ CheckSafelist(g) \/ AlreadyBlocked(g) \/ FirewallDrop(g)
    \/ RecordBlock(g) \/ FirewallUnblock(g) \/ ForgetBlock(g)
    \/ Isolate(g) \/ AllowManager(g) \/ DropInput(g) \/ DropOutput(g)
    \/ WakeUnisolate(g) \/ Unisolate(g) \/ Accept(g) \/ DeleteAllowRules(g)

ResponseNext ==
    \/ Receive \/ ResponseRestart
    \/ \E g \in Goroutines : Proceed(g)

----------------------------------------------------------------------------
(* A host that may not send has a rule that lets the manager through,      *)
(* wherever the agent is killed in the middle of an isolation or release   *)
(* and whatever is tried again, unless an iptables call failed whose error *)
(* is ignored (isolateNetwork, unisolateNetwork).                          *)
Lifeline == policy.OUTPUT = "DROP" => allowed > 0 \/ "ignored" \in mishaps

(* With a configured time every block and every isolation ends, however    *)
(* often blocks are repeated, lifted by hand and imposed again while older *)
(* timers still sleep; unless an error was ignored, an isolation failed    *)
(* half way, or the agent was restarted and its timers with it.            *)
Released ==
    /\ \A t \in Targets : (drops[t] > 0) ~> (drops[t] = 0 \/ mishaps # {})
    /\ ("DROP" \in {policy.INPUT, policy.OUTPUT})
          ~> ("DROP" \notin {policy.INPUT, policy.OUTPUT} \/ mishaps # {})

(* What a skipped firewall-drop reports (executeCommand: "the policy was   *)
(* satisfied"): the address is blocked.  The code does not keep this: an   *)
(* older timer removes the rule of a block that is just being recorded.    *)
SkippedIsBlocked ==
    [][\A g \in Orders :
          At(g, "firewall-drop", "check") /\ run'[g].at = "done" /\ restarts' = restarts
             => \A t \in run[g].on : drops[t] > 0]_responseVars
============================================================================
