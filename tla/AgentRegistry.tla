--------------------------- MODULE AgentRegistry ---------------------------
(***************************************************************************)
(* The manager's agent registry and the gRPC handler that serves agents    *)
(* (WatchTower/internal/registry/registry.go, server/grpc/handler.go, the  *)
(* agents table of store/store.go).                                        *)
(*                                                                         *)
(* API handlers, playbooks and active responses send commands; each agent  *)
(* registers, opens data streams and sends heartbeats; one goroutine per   *)
(* stream takes commands off the agent's channel.  A channel is an object: *)
(* `heap' holds every channel ever made, because a stream or a flush that  *)
(* has taken a channel from the map keeps it after DeleteAgent closed it.  *)
(* Time is abstracted: an agent is in `silent' when its last heartbeat is  *)
(* older than the timeout.                                                 *)
(***************************************************************************)
EXTENDS Integers, Sequences, FiniteSets

CONSTANTS
    Agents, Streams,
    MaxCmds,      \* bound: commands sent
    ChanCap,      \* 64 in the code
    MaxPending,   \* maxPendingPerAgent, 100 in the code
    MaxDeletes,   \* bound: agents deleted
    MaxRestarts   \* bound: manager exits

ASSUME BoundsAssumption ==
    /\ MaxCmds \in Nat /\ MaxDeletes \in Nat /\ MaxRestarts \in Nat
    /\ ChanCap \in Nat \ {0} /\ MaxPending \in Nat \ {0}

Cmds == 1..MaxCmds

VARIABLES
    \* the agents table
    status,     \* the row's status, or "absent"
    silent,     \* agents whose last_heartbeat is before the cutoff
    \* Registry
    heap,       \* every command channel made by this manager process
    cmdChan,    \* r.cmdChans: the agent's channel, as an index of heap, or 0
    pending,    \* r.pendingCmds
    \* a Register call of the agent
    regPc, regCmds, regChan,
    \* StreamData calls: the handler and its sender goroutine
    strPc, strAgent, strChan, sndPc, sndCmd,
    deleting,   \* DeleteAgent has left its critical section
    \* history
    nextCmd,    \* the next command to be sent
    delivered,  \* commands handed to an open stream
    discarded,  \* commands dropped by a flush or sent on a broken stream
    evicted,    \* commands the full pending queue pushed out
    forgotten,  \* commands in memory when the manager exited
    reported,   \* agent.disconnected events since the row was last updated
    deletes, restarts

table    == <<status, silent>>
registry == <<heap, cmdChan, pending>>
regs     == <<regPc, regCmds, regChan>>
strs     == <<strPc, strAgent, strChan, sndPc, sndCmd>>
fate     == <<delivered, discarded, evicted, forgotten>>
bounds   == <<deletes, restarts>>
vars     == <<table, registry, regs, strs, deleting, nextCmd, fate, reported,
              bounds>>

SetOf(s) == {s[i] : i \in 1..Len(s)}

Init ==
    /\ status = [a \in Agents |-> "absent"] /\ silent = {}
    /\ heap = <<>> /\ cmdChan = [a \in Agents |-> 0]
    /\ pending = [a \in Agents |-> <<>>]
    /\ regPc = [a \in Agents |-> "idle"]
    /\ regCmds = [a \in Agents |-> <<>>] /\ regChan = [a \in Agents |-> 0]
    /\ strPc = [s \in Streams |-> "none"] /\ strAgent \in [Streams -> Agents]
    /\ strChan = [s \in Streams |-> 0]
    /\ sndPc = [s \in Streams |-> "none"] /\ sndCmd = [s \in Streams |-> 0]
    /\ deleting = {}
    /\ nextCmd = 1
    /\ delivered = {} /\ discarded = {} /\ evicted = {} /\ forgotten = {}
    /\ reported = [a \in Agents |-> 0]
    /\ deletes = 0 /\ restarts = 0

-----------------------------------------------------------------------------
(* The agents table                                                        *)

\* UpdateAgentHeartbeat: an UPDATE of the row, which may not exist.
Touch(a, st) ==
    IF status[a] = "absent" THEN UNCHANGED <<table, reported>>
    ELSE /\ status' = [status EXCEPT ![a] = st]
         /\ silent' = silent \ {a}
         /\ reported' = [reported EXCEPT ![a] = 0]

\* More than the timeout has passed since the agent's last heartbeat.
FallSilent(a) ==
    /\ status[a] # "absent" /\ a \notin silent
    /\ silent' = silent \cup {a}
    /\ UNCHANGED <<status, registry, regs, strs, deleting, nextCmd, fate,
                   reported, bounds>>

\* MarkDisconnectedBefore's WHERE clause.
Swept == {a \in Agents : status[a] \in {"active", "streaming"} /\ a \in silent}

\* checkDisconnected: one UPDATE, then an event and the hook for every row it
\* returned.
Sweep ==
    /\ status' = [a \in Agents |-> IF a \in Swept THEN "disconnected"
                                   ELSE status[a]]
    /\ reported' = [a \in Agents |-> reported[a] + IF a \in Swept THEN 1 ELSE 0]
    /\ UNCHANGED <<silent, registry, regs, strs, deleting, nextCmd, fate, bounds>>

\* Handler.Heartbeat: the agent reports "running", never "connected".
Heartbeat(a) ==
    /\ Touch(a, "running")
    /\ UNCHANGED <<registry, regs, strs, deleting, nextCmd, fate, bounds>>

-----------------------------------------------------------------------------
(* Handler.Register, Registry.Register and flushPending                    *)

\* Registry.Register up to flushPending: UpsertAgent writes the row (when it
\* cannot, nothing happens); the lifecycle event changes nothing here.
Upsert(a) ==
    /\ status' = [status EXCEPT ![a] = "active"]
    /\ silent' = silent \ {a}
    /\ reported' = [reported EXCEPT ![a] = 0]

\* Handler.Register. A request without an id, with a field that is not valid or
\* without the enrollment token is refused, and changes nothing; nor do the audit
\* records.
RegisterStore(a) ==
    /\ regPc[a] = "idle"
    /\ Upsert(a)
    /\ regPc' = [regPc EXCEPT ![a] = "flush"]
    /\ UNCHANGED <<registry, regCmds, regChan, strs, deleting, nextCmd, fate,
                   bounds>>

\* Mutant: a flush that does not delete the queue it takes.
TakenKept(a) == pending

\* delete(r.pendingCmds, agentID)
Taken(a) == [pending EXCEPT ![a] = <<>>]

\* The critical section of flushPending and the early return after it: the
\* queue is already deleted when there is no channel to put it on.
FlushTake(a) ==
    /\ regPc[a] = "flush"
    /\ pending' = Taken(a)
    /\ IF pending[a] = <<>> \/ cmdChan[a] = 0
       THEN /\ regPc' = [regPc EXCEPT ![a] = "idle"]
            /\ discarded' = discarded \cup SetOf(pending[a])
            /\ UNCHANGED <<regCmds, regChan>>
       ELSE /\ regPc' = [regPc EXCEPT ![a] = "send"]
            /\ regCmds' = [regCmds EXCEPT ![a] = pending[a]]
            /\ regChan' = [regChan EXCEPT ![a] = cmdChan[a]]
            /\ UNCHANGED discarded
    /\ UNCHANGED <<table, heap, cmdChan, strs, deleting, nextCmd, delivered,
                   evicted, forgotten, reported, bounds>>

HasRoom(ch) == Len(heap[ch].buf) < ChanCap
Put(ch, c)  == [heap EXCEPT ![ch].buf = Append(@, c)]

FlushIdle(a) ==
    /\ regPc' = [regPc EXCEPT ![a] = "idle"]
    /\ regCmds' = [regCmds EXCEPT ![a] = <<>>]
    /\ regChan' = [regChan EXCEPT ![a] = 0]

\* One turn of the loop, outside the lock: ch <- cmd.
FlushSend(a) ==
    /\ regPc[a] = "send" /\ ~heap[regChan[a]].closed /\ HasRoom(regChan[a])
    /\ heap' = Put(regChan[a], Head(regCmds[a]))
    /\ IF Len(regCmds[a]) = 1 THEN FlushIdle(a)
       ELSE /\ regCmds' = [regCmds EXCEPT ![a] = Tail(@)]
            /\ UNCHANGED <<regPc, regChan>>
    /\ UNCHANGED <<table, cmdChan, pending, strs, deleting, nextCmd, fate,
                   reported, bounds>>

\* The channel is full: return, and what is left is gone.
FlushFull(a) ==
    /\ regPc[a] = "send" /\ ~heap[regChan[a]].closed /\ ~HasRoom(regChan[a])
    /\ discarded' = discarded \cup SetOf(regCmds[a])
    /\ FlushIdle(a)
    /\ UNCHANGED <<table, registry, strs, deleting, nextCmd, delivered, evicted,
                   forgotten, reported, bounds>>

-----------------------------------------------------------------------------
(* Handler.StreamData                                                      *)

\* The first batch: UpdateHeartbeat(agentID, "streaming").
StreamFirst(s) ==
    /\ strPc[s] = "none"
    /\ strPc' = [strPc EXCEPT ![s] = "first"]
    /\ Touch(strAgent[s], "streaming")
    /\ UNCHANGED <<registry, regs, strAgent, strChan, sndPc, sndCmd, deleting,
                   nextCmd, fate, bounds>>

GetCommandChannel(a) ==
    IF cmdChan[a] # 0 THEN UNCHANGED <<heap, cmdChan>>
    ELSE /\ heap' = Append(heap, [buf |-> <<>>, closed |-> FALSE])
         /\ cmdChan' = [cmdChan EXCEPT ![a] = Len(heap) + 1]

\* GetCommandChannel, and the goroutine that empties the channel.
StreamServe(s) ==
    LET a == strAgent[s] IN
    /\ strPc[s] = "first"
    /\ GetCommandChannel(a)
    /\ strChan' = [strChan EXCEPT ![s] = cmdChan'[a]]
    /\ strPc' = [strPc EXCEPT ![s] = "open"]
    /\ sndPc' = [sndPc EXCEPT ![s] = "recv"]
    /\ UNCHANGED <<table, pending, regs, strAgent, sndCmd, deleting, nextCmd,
                   fate, reported, bounds>>

\* Every batch, the first included, marks the agent as streaming.
StreamBatch(s) ==
    /\ strPc[s] = "open"
    /\ Touch(strAgent[s], "streaming")
    /\ UNCHANGED <<registry, regs, strs, deleting, nextCmd, fate, bounds>>

\* Recv fails, the agent went away or a batch was refused: StreamData returns.
\* Nothing takes the agent's channel out of the map.
StreamEnd(s) ==
    /\ strPc[s] \in {"first", "open"}
    /\ strPc' = [strPc EXCEPT ![s] = "ended"]
    /\ UNCHANGED <<table, registry, regs, strAgent, strChan, sndPc, sndCmd,
                   deleting, nextCmd, fate, reported, bounds>>

\* cmd, ok := <-cmdCh.  The select may choose it although ctx is done.
SenderRecv(s) ==
    /\ sndPc[s] = "recv" /\ heap[strChan[s]].buf # <<>>
    /\ sndCmd' = [sndCmd EXCEPT ![s] = Head(heap[strChan[s]].buf)]
    /\ heap' = [heap EXCEPT ![strChan[s]].buf = Tail(@)]
    /\ sndPc' = [sndPc EXCEPT ![s] = "send"]
    /\ UNCHANGED <<table, cmdChan, pending, regs, strPc, strAgent, strChan,
                   deleting, nextCmd, fate, reported, bounds>>

\* _ = stream.Send(cmd): an error is ignored and the command is gone.
SenderSend(s) ==
    /\ sndPc[s] = "send"
    /\ IF strPc[s] = "open"
       THEN /\ delivered' = delivered \cup {sndCmd[s]}
            /\ UNCHANGED discarded
       ELSE /\ discarded' = discarded \cup {sndCmd[s]}
            /\ UNCHANGED delivered
    /\ sndCmd' = [sndCmd EXCEPT ![s] = 0]
    /\ sndPc' = [sndPc EXCEPT ![s] = "recv"]
    /\ UNCHANGED <<table, registry, regs, strPc, strAgent, strChan, deleting,
                   nextCmd, evicted, forgotten, reported, bounds>>

\* Mutant: the goroutine gives up on an empty channel, as on a closed one.
NothingToDo(s) == strPc[s] = "ended" \/ heap[strChan[s]].buf = <<>>

\* The context is done, or the channel is closed and empty.
MayExit(s) == \/ strPc[s] = "ended"
              \/ heap[strChan[s]].closed /\ heap[strChan[s]].buf = <<>>

SenderExit(s) ==
    /\ sndPc[s] = "recv" /\ MayExit(s)
    /\ sndPc' = [sndPc EXCEPT ![s] = "done"]
    /\ UNCHANGED <<table, registry, regs, strPc, strAgent, strChan, sndCmd,
                   deleting, nextCmd, fate, reported, bounds>>

-----------------------------------------------------------------------------
(* SendCommand, SendCommandStatus and DeleteAgent                          *)

PendingFull(a) == Len(pending[a]) >= MaxPending

\* Both variants: the channel if there is one with room, else the pending
\* queue, whose oldest command makes room.
SendCommand(a) ==
    /\ nextCmd <= MaxCmds
    /\ nextCmd' = nextCmd + 1
    /\ IF cmdChan[a] # 0 /\ HasRoom(cmdChan[a])
       THEN /\ heap' = Put(cmdChan[a], nextCmd)
            /\ UNCHANGED <<pending, evicted>>
       ELSE /\ IF PendingFull(a)
               THEN /\ pending' = [pending EXCEPT ![a] =
                                     Append(Tail(@), nextCmd)]
                    /\ evicted' = evicted \cup {Head(pending[a])}
               ELSE /\ pending' = [pending EXCEPT ![a] = Append(@, nextCmd)]
                    /\ UNCHANGED evicted
            /\ UNCHANGED heap
    /\ UNCHANGED <<table, cmdChan, regs, strs, deleting, delivered,
                   discarded, forgotten, reported, bounds>>

\* delete(r.cmdChans, id)
Unmapped(a) == [cmdChan EXCEPT ![a] = 0]

\* DeleteAgent: the critical section, then the row.
DeleteChannel(a) ==
    /\ deletes < MaxDeletes /\ a \notin deleting
    /\ deletes' = deletes + 1
    /\ deleting' = deleting \cup {a}
    /\ IF cmdChan[a] = 0 THEN UNCHANGED <<heap, cmdChan>>
       ELSE /\ heap' = [heap EXCEPT ![cmdChan[a]].closed = TRUE]
            /\ cmdChan' = Unmapped(a)
    /\ UNCHANGED <<table, pending, regs, strs, nextCmd, fate, reported, restarts>>

DeleteRow(a) ==
    /\ a \in deleting
    /\ deleting' = deleting \ {a}
    /\ status' = [status EXCEPT ![a] = "absent"]
    /\ silent' = silent \ {a}
    /\ reported' = [reported EXCEPT ![a] = 0]
    /\ UNCHANGED <<registry, regs, strs, nextCmd, fate, bounds>>

-----------------------------------------------------------------------------
(* The manager process                                                     *)

InMemory ==
    UNION ({SetOf(heap[k].buf) : k \in 1..Len(heap)}
           \cup {SetOf(pending[a]) : a \in Agents}
           \cup {SetOf(regCmds[a]) : a \in Agents}
           \cup {{sndCmd[s]} \ {0} : s \in Streams})

\* The process ends and is started again: the maps are empty, every stream is
\* broken, and only the table is left.  Agents do not register again.
Exit ==
    /\ restarts < MaxRestarts /\ restarts' = restarts + 1
    /\ forgotten' = forgotten \cup InMemory
    /\ heap' = <<>> /\ cmdChan' = [a \in Agents |-> 0]
    /\ pending' = [a \in Agents |-> <<>>]
    /\ regPc' = [a \in Agents |-> "idle"]
    /\ regCmds' = [a \in Agents |-> <<>>] /\ regChan' = [a \in Agents |-> 0]
    /\ strPc' = [s \in Streams |-> IF strPc[s] = "none" THEN "none"
                                   ELSE "ended"]
    /\ strChan' = [s \in Streams |-> 0]
    /\ sndPc' = [s \in Streams |-> "none"] /\ sndCmd' = [s \in Streams |-> 0]
    /\ deleting' = {}
    /\ UNCHANGED <<table, strAgent, nextCmd, delivered, discarded, evicted,
                   reported, deletes>>

ManagerExit == Exit

\* A flush sends on the channel DeleteAgent closed meanwhile: a panic that no
\* interceptor recovers.
FlushPanics(a) ==
    /\ regPc[a] = "send" /\ heap[regChan[a]].closed
    /\ Exit

-----------------------------------------------------------------------------
Table == \E a \in Agents : FallSilent(a) \/ Heartbeat(a) \/ DeleteRow(a)

Register == \E a \in Agents : \/ RegisterStore(a) \/ FlushTake(a)
                              \/ FlushSend(a) \/ FlushFull(a)
                              \/ FlushPanics(a)

Stream == \E s \in Streams : StreamFirst(s) \/ StreamServe(s) \/ StreamBatch(s)
                             \/ StreamEnd(s)

Sender == \E s \in Streams : SenderRecv(s) \/ SenderSend(s) \/ SenderExit(s)

Api == \E a \in Agents : SendCommand(a) \/ DeleteChannel(a)

Next == Table \/ Sweep \/ Register \/ Stream \/ Sender \/ Api \/ ManagerExit

Spec == Init /\ [][Next]_vars

\* Each stream's sender goroutine is scheduled, and a handler past its first
\* batch gets to GetCommandChannel.
Serving(s) == StreamServe(s) \/ SenderRecv(s) \/ SenderSend(s) \/ SenderExit(s)

LiveSpec == Spec /\ \A s \in Streams : WF_vars(Serving(s))

\* The heartbeat monitor's ticker keeps firing.
MonitorSpec == Spec /\ WF_vars(Sweep)

-----------------------------------------------------------------------------
(* Properties                                                              *)


\* Every place where command c is: queued, in somebody's hands, or done with.
At(place, owner, s, c) ==
    {<<place, owner, i>> : i \in {i \in 1..Len(s) : s[i] = c}}

Places(c) ==
    (UNION ({At("chan", k, heap[k].buf, c) : k \in 1..Len(heap)}
            \cup {At("pending", a, pending[a], c) : a \in Agents}
            \cup {At("flush", a, regCmds[a], c) : a \in Agents}))
    \cup {<<"sender", s>> : s \in {s \in Streams : sndCmd[s] = c}}
    \cup {x \in {<<"delivered">>} : c \in delivered}
    \cup {x \in {<<"discarded">>} : c \in discarded}
    \cup {x \in {<<"evicted">>} : c \in evicted}
    \cup {x \in {<<"forgotten">>} : c \in forgotten}

\* A command the API sent is in one place: it is neither handled twice by two
\* streams or by a flush racing SendCommand, nor does it disappear except by
\* the named losses (a flush, a broken stream, a full queue, an exit).
OnePlace ==
    \A c \in Cmds : IF c < nextCmd THEN Cardinality(Places(c)) = 1
                    ELSE Places(c) = {}

\* A command in a channel that an open stream serves is in the end taken out
\* of memory: delivered, unless the stream ends or the manager exits.
ChannelServed ==
    \A s \in Streams, c \in Cmds :
        (strPc[s] = "open" /\ c \in SetOf(heap[strChan[s]].buf))
            ~> \/ c \in delivered
               \/ strPc[s] = "ended"
               \/ c \in discarded

-----------------------------------------------------------------------------
(* What the comments promise, and the code does not keep                   *)

\* registry.go:147, "If the agent is offline the command is queued and
\* delivered automatically on reconnect": a flush puts the queue it takes on
\* the agent's channel, or leaves it.
QueueFlushedOrKept ==
    [][ \A a \in Agents : regPc[a] = "flush" => discarded' = discarded ]_vars

\* main.go:231, "Fire a notification whenever an agent goes disconnected": an
\* agent that stays silent is in the end reported as disconnected.
SilentIsReported ==
    \A a \in Agents :
        a \in silent ~> status[a] \in {"disconnected", "absent"} \/ a \notin silent
=============================================================================
