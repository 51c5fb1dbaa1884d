---------------------------- MODULE RegistryProofs ----------------------------
(***************************************************************************)
(* What the manager's registry, tables and buckets keep, for any number of *)
(* agents, streams, commands, callers, records and restarts: a command is  *)
(* in one place, the tables hold, and the buckets limit and do no more.    *)
(*                                                                         *)
(* Commands: Places tells the positions in a queue apart.  The invariant   *)
(* says the same in two parts that are easier to keep: a command has one   *)
(* holder - a queue, a sender or one of the ends a command may come to -   *)
(* and it is in no queue twice.  What a goroutine holds between two steps  *)
(* goes with where it is.  The tables and the buckets follow, each with an *)
(* invariant of its own, as the three share no state.                      *)
(***************************************************************************)
EXTENDS AgentRegistry, Records, Notices, SequenceTheorems, FiniteSetTheorems,
        WellFoundedInduction, TLAPS

-----------------------------------------------------------------------------
(* Queues                                                                  *)

\* No element of s occurs twice.
Distinct(s) == \A i, j \in 1..Len(s) : s[i] = s[j] => i = j

LEMMA QueueEmpty == SetOf(<<>>) = {} /\ Distinct(<<>>)
  BY DEF SetOf, Distinct

LEMMA QueueAppend ==
    ASSUME NEW S, NEW s \in Seq(S), NEW x \in S
    PROVE  /\ Append(s, x) \in Seq(S)
           /\ SetOf(Append(s, x)) = SetOf(s) \cup {x}
           /\ Distinct(s) /\ x \notin SetOf(s) => Distinct(Append(s, x))
<1>1. /\ Append(s, x) \in Seq(S) /\ Len(s) \in Nat
      /\ Len(Append(s, x)) = Len(s) + 1
      /\ \A i \in 1..Len(s) : Append(s, x)[i] = s[i]
      /\ Append(s, x)[Len(s) + 1] = x
  BY AppendProperties, LenProperties
<1>2. SetOf(Append(s, x)) = SetOf(s) \cup {x}
  BY <1>1 DEF SetOf
<1>3. ASSUME Distinct(s), x \notin SetOf(s) PROVE Distinct(Append(s, x))
  BY <1>1, <1>3 DEF Distinct, SetOf
<1> QED BY <1>1, <1>2, <1>3

LEMMA QueueTail ==
    ASSUME NEW S, NEW s \in Seq(S), s # <<>>
    PROVE  /\ Tail(s) \in Seq(S) /\ Head(s) \in S /\ Head(s) \in SetOf(s)
           /\ SetOf(s) = SetOf(Tail(s)) \cup {Head(s)}
           /\ Len(s) = 1 => Tail(s) = <<>>
           /\ Distinct(s) => Distinct(Tail(s)) /\ Head(s) \notin SetOf(Tail(s))
<1>1. /\ Len(s) \in Nat \ {0}
      /\ Tail(s) \in Seq(S) /\ Head(s) \in S /\ Head(s) = s[1]
      /\ Len(Tail(s)) = Len(s) - 1
      /\ \A i \in 1..Len(Tail(s)) : Tail(s)[i] = s[i + 1]
  BY HeadTailProperties, LenProperties, EmptySeq
<1> DEFINE t == Tail(s)
<1> HIDE DEF t
<1>2. /\ Len(t) = Len(s) - 1
      /\ \A i \in 1..Len(t) : t[i] = s[i + 1]
  BY <1>1 DEF t
<1>3. SetOf(s) = SetOf(t) \cup {s[1]} /\ s[1] \in SetOf(s)
  <2>1. \A i \in 1..Len(s) : i = 1 \/ (i - 1 \in 1..Len(t) /\ s[i] = t[i - 1])
    BY <1>1, <1>2
  <2>2. \A i \in 1..Len(t) : i + 1 \in 1..Len(s)
    BY <1>1, <1>2
  <2> QED BY <1>1, <1>2, <2>1, <2>2 DEF SetOf
<1>4. ASSUME Distinct(s) PROVE Distinct(t) /\ s[1] \notin SetOf(t)
  BY <1>1, <1>2, <1>4 DEF Distinct, SetOf
<1>5. Len(s) = 1 => t = <<>>
  <2>1. t \in Seq(S)
    BY <1>1 DEF t
  <2> QED BY <2>1, <1>1, <1>2, EmptySeq
<1> QED BY <1>1, <1>3, <1>4, <1>5 DEF t

-----------------------------------------------------------------------------
(* The invariant                                                           *)

Channel == [buf : Seq(Cmds), closed : BOOLEAN]

RegistryType ==
    /\ heap \in Seq(Channel)
    /\ cmdChan \in [Agents -> 0..Len(heap)] /\ regChan \in [Agents -> 0..Len(heap)]
    /\ strChan \in [Streams -> 0..Len(heap)] /\ strAgent \in [Streams -> Agents]
    /\ pending \in [Agents -> Seq(Cmds)] /\ regCmds \in [Agents -> Seq(Cmds)]
    /\ regPc \in [Agents -> {"idle", "flush", "send"}]
    /\ strPc \in [Streams -> {"none", "first", "open", "ended"}]
    /\ sndPc \in [Streams -> {"none", "recv", "send", "done"}]
    /\ sndCmd \in [Streams -> Nat]
    /\ nextCmd \in Nat \ {0}

\* What a flush and a sender have in their hands.
HandsInv ==
    /\ \A a \in Agents : IF regPc[a] = "send"
                         THEN regChan[a] # 0 /\ regCmds[a] # <<>>
                         ELSE regCmds[a] = <<>>
    /\ \A s \in Streams : /\ sndPc[s] \in {"recv", "send"} => strChan[s] # 0
                          /\ sndPc[s] # "send" => sndCmd[s] = 0
                          /\ strPc[s] \in {"none", "first"} => sndPc[s] = "none"

DistinctInv ==
    /\ \A k \in 1..Len(heap) : Distinct(heap[k].buf)
    /\ \A a \in Agents : Distinct(pending[a]) /\ Distinct(regCmds[a])

\* The holders of command c, by kind.
Chans(c)   == {k \in 1..Len(heap) : c \in SetOf(heap[k].buf)}
Queued(c)  == {a \in Agents : c \in SetOf(pending[a])}
Flushed(c) == {a \in Agents : c \in SetOf(regCmds[a])}
Senders(c) == {s \in Streams : sndCmd[s] = c}
Ends(c)    == {x \in {"delivered"} : c \in delivered}
              \cup {x \in {"discarded"} : c \in discarded}
              \cup {x \in {"evicted"} : c \in evicted}
              \cup {x \in {"forgotten"} : c \in forgotten}

\* Nobody, or exactly one, among C, P, F, S and E together.
None(C, P, F, S, E) == C = {} /\ P = {} /\ F = {} /\ S = {} /\ E = {}

One(C, P, F, S, E) ==
    \E x : \/ None({}, P, F, S, E) /\ C = {x}
           \/ None(C, {}, F, S, E) /\ P = {x}
           \/ None(C, P, {}, S, E) /\ F = {x}
           \/ None(C, P, F, {}, E) /\ S = {x}
           \/ None(C, P, F, S, {}) /\ E = {x}

NoHolder(c)  == None(Chans(c), Queued(c), Flushed(c), Senders(c), Ends(c))
OneHolder(c) == One(Chans(c), Queued(c), Flushed(c), Senders(c), Ends(c))

HolderInv == \A c \in Cmds : IF c < nextCmd THEN OneHolder(c) ELSE NoHolder(c)

RegistryInv == RegistryType /\ HandsInv /\ DistinctInv /\ HolderInv

LEMMA RegistryInit == Init => RegistryInv
<1> SUFFICES ASSUME Init PROVE RegistryInv
  OBVIOUS
<1>1. RegistryType /\ HandsInv /\ DistinctInv
  BY QueueEmpty DEF Init, RegistryType, HandsInv, DistinctInv
<1>2. ASSUME NEW c \in Cmds PROVE NoHolder(c) /\ ~(c < nextCmd)
  <2>1. Chans(c) = {} /\ Queued(c) = {} /\ Flushed(c) = {} /\ Senders(c) = {}
    BY <1>2, QueueEmpty, BoundsAssumption
       DEF Init, Chans, Queued, Flushed, Senders, Cmds
  <2>2. Ends(c) = {}
    BY DEF Init, Ends
  <2> QED BY <2>1, <2>2, <1>2, BoundsAssumption DEF Init, NoHolder, None, Cmds
<1> QED BY <1>1, <1>2 DEF RegistryInv, HolderInv

-----------------------------------------------------------------------------
(* Steps that move no command                                              *)

ends     == <<delivered, discarded, evicted, forgotten>>
commands == <<pending, regCmds, sndCmd, nextCmd, ends>>

\* The holders depend on the channels through Chans alone.
LEMMA NothingMoves ==
    ASSUME HolderInv, UNCHANGED commands, \A c \in Cmds : Chans(c)' = Chans(c)
    PROVE  HolderInv'
<1>1. \A c \in Cmds : /\ Queued(c)' = Queued(c) /\ Flushed(c)' = Flushed(c)
                      /\ Senders(c)' = Senders(c) /\ Ends(c)' = Ends(c)
  BY DEF commands, ends, Queued, Flushed, Senders, Ends, SetOf
<1>2. \A c \in Cmds : NoHolder(c)' = NoHolder(c) /\ OneHolder(c)' = OneHolder(c)
  BY <1>1 DEF NoHolder, OneHolder
<1> QED BY <1>2 DEF HolderInv, commands

\* Steps on the table and on a stream, and the start of a Register call.
QuietStep(a, s) == \/ FallSilent(a) \/ Heartbeat(a) \/ DeleteRow(a) \/ Sweep
                   \/ RegisterStore(a)
                   \/ StreamFirst(s) \/ StreamBatch(s) \/ StreamEnd(s) \/ SenderExit(s)

LEMMA QuietSteps ==
    ASSUME RegistryInv, NEW a, NEW s, QuietStep(a, s) PROVE RegistryInv'
<1> USE DEF QuietStep
<1>1. UNCHANGED <<heap, cmdChan, regChan, strAgent, strChan, commands>>
  BY DEF FallSilent, Heartbeat, DeleteRow, Sweep, RegisterStore, Upsert, StreamFirst,
         StreamBatch, StreamEnd, SenderExit, registry, regs, strs, fate, commands, ends
<1>2. /\ regPc' \in [Agents -> {"idle", "flush", "send"}]
      /\ \A b \in Agents : regPc'[b] = "send" <=> regPc[b] = "send"
  <2>1. CASE RegisterStore(a)
    BY <2>1 DEF RegisterStore, Upsert, RegistryInv, RegistryType
  <2>2. CASE ~RegisterStore(a)
    <3>1. regPc' = regPc
      BY <2>2 DEF FallSilent, Heartbeat, DeleteRow, Sweep, StreamFirst,
                  StreamBatch, StreamEnd, SenderExit, regs
    <3> QED BY <3>1 DEF RegistryInv, RegistryType
  <2> QED BY <2>1, <2>2
<1>3. /\ sndPc' \in [Streams -> {"none", "recv", "send", "done"}]
      /\ \A r \in Streams : \/ sndPc'[r] = sndPc[r]
                            \/ sndPc'[r] = "done" /\ sndPc[r] = "recv"
  <2>1. \/ sndPc' = sndPc
        \/ sndPc[s] = "recv" /\ sndPc' = [sndPc EXCEPT ![s] = "done"]
    BY DEF FallSilent, Heartbeat, DeleteRow, Sweep, RegisterStore, Upsert, StreamFirst,
           StreamBatch, StreamEnd, SenderExit, strs
  <2> QED BY <2>1 DEF RegistryInv, RegistryType
<1>4. /\ strPc' \in [Streams -> {"none", "first", "open", "ended"}]
      /\ \A r \in Streams : strPc'[r] \in {"none", "first"} =>
                               strPc[r] \in {"none", "first"}
  <2>1. \/ strPc' = strPc
        \/ strPc[s] = "none" /\ strPc' = [strPc EXCEPT ![s] = "first"]
        \/ strPc' = [strPc EXCEPT ![s] = "ended"]
    BY DEF FallSilent, Heartbeat, DeleteRow, Sweep, RegisterStore, Upsert, StreamFirst,
           StreamBatch, StreamEnd, SenderExit, strs
  <2> QED BY <2>1 DEF RegistryInv, RegistryType
<1>5. RegistryType'
  BY <1>1, <1>2, <1>3, <1>4 DEF RegistryInv, RegistryType, commands
<1>6. HandsInv'
  BY <1>1, <1>2, <1>3, <1>4 DEF RegistryInv, RegistryType, HandsInv, commands
<1>7. DistinctInv'
  BY <1>1 DEF RegistryInv, DistinctInv, Distinct, commands
<1>8. HolderInv'
  <2>1. \A c \in Cmds : Chans(c)' = Chans(c)
    BY <1>1 DEF Chans, SetOf
  <2> QED BY <1>1, <2>1, NothingMoves DEF RegistryInv
<1> QED BY <1>5, <1>6, <1>7, <1>8 DEF RegistryInv

\* A stream is served, with the agent's channel or a new one.
LEMMA ServeStep ==
    ASSUME RegistryInv, NEW s \in Streams, StreamServe(s) PROVE RegistryInv'
<1> DEFINE new == [buf |-> <<>>, closed |-> FALSE]
<1>1. UNCHANGED <<commands, strAgent, regPc, regChan>>
  BY DEF StreamServe, commands, ends, regs, fate
<1>2. /\ strPc[s] = "first" /\ strPc' = [strPc EXCEPT ![s] = "open"]
      /\ sndPc' = [sndPc EXCEPT ![s] = "recv"]
      /\ strChan' = [strChan EXCEPT ![s] = cmdChan'[strAgent[s]]]
      /\ \/ heap' = heap /\ cmdChan' = cmdChan /\ cmdChan[strAgent[s]] # 0
         \/ /\ heap' = Append(heap, new)
            /\ cmdChan' = [cmdChan EXCEPT ![strAgent[s]] = Len(heap) + 1]
  BY DEF StreamServe, GetCommandChannel
<1>3. new \in Channel /\ new.buf = <<>>
  BY EmptySeq DEF Channel
<1> HIDE DEF new
<1> DEFINE a == strAgent[s]
<1>4. a \in Agents
  BY DEF RegistryInv, RegistryType
<1> HIDE DEF a
<1>5. /\ heap' \in Seq(Channel) /\ Len(heap) \in Nat /\ Len(heap') \in Nat
      /\ Len(heap) <= Len(heap')
      /\ \A k \in 1..Len(heap) : heap'[k] = heap[k]
      /\ \A k \in 1..Len(heap') : k \in 1..Len(heap) \/ heap'[k] = new
      /\ cmdChan' \in [Agents -> 0..Len(heap')] /\ cmdChan'[a] # 0
  <2>1. heap \in Seq(Channel) /\ Len(heap) \in Nat /\ cmdChan \in [Agents -> 0..Len(heap)]
    BY LenProperties DEF RegistryInv, RegistryType
  <2>2. CASE heap' = heap /\ cmdChan' = cmdChan /\ cmdChan[a] # 0
    BY <2>1, <2>2, <1>4
  <2>3. CASE /\ heap' = Append(heap, new)
             /\ cmdChan' = [cmdChan EXCEPT ![a] = Len(heap) + 1]
    <3>1. /\ heap' \in Seq(Channel) /\ Len(heap') = Len(heap) + 1
          /\ \A k \in 1..Len(heap) : heap'[k] = heap[k]
          /\ heap'[Len(heap) + 1] = new
      BY <2>1, <2>3, <1>3, AppendProperties
    <3> QED BY <3>1, <2>1, <2>3, <1>4
  <2> QED BY <1>2, <2>2, <2>3 DEF a
<1>6. strChan' = [strChan EXCEPT ![s] = cmdChan'[a]]
  BY <1>2 DEF a
<1>t. RegistryType /\ HandsInv
  BY DEF RegistryInv
<1>7. RegistryType'
  <2>1. cmdChan'[a] \in 0..Len(heap')
    BY <1>4, <1>5
  <2>2. strChan' \in [Streams -> 0..Len(heap')]
    <3>1. \A i \in 0..Len(heap) : i \in 0..Len(heap')
      BY <1>5
    <3>2. strChan \in [Streams -> 0..Len(heap)]
      BY <1>t DEF RegistryType
    <3> QED BY <1>6, <2>1, <3>1, <3>2
  <2>3. regChan' \in [Agents -> 0..Len(heap')]
    <3>1. \A i \in 0..Len(heap) : i \in 0..Len(heap')
      BY <1>5
    <3> QED BY <1>1, <1>t, <3>1 DEF RegistryType
  <2>4. /\ strPc' \in [Streams -> {"none", "first", "open", "ended"}]
        /\ sndPc' \in [Streams -> {"none", "recv", "send", "done"}]
    BY <1>2, <1>t DEF RegistryType
  <2> QED BY <1>1, <1>5, <1>t, <2>2, <2>3, <2>4 DEF RegistryType, commands
<1>8. HandsInv'
  <2>1. UNCHANGED <<regPc, regChan, regCmds, sndCmd>>
    BY <1>1 DEF commands
  <2>2. ASSUME NEW v \in Streams
        PROVE  /\ sndPc'[v] \in {"recv", "send"} => strChan'[v] # 0
               /\ sndPc'[v] # "send" => sndCmd'[v] = 0
               /\ strPc'[v] \in {"none", "first"} => sndPc'[v] = "none"
    <3>1. CASE v = s
      <4>1. sndPc'[v] = "recv" /\ strPc'[v] = "open" /\ strChan'[v] = cmdChan'[a]
        BY <1>2, <1>6, <1>t, <3>1 DEF RegistryType
      <4>2. sndPc[v] = "none" /\ sndCmd[v] = 0
        BY <1>2, <1>t, <3>1 DEF HandsInv
      <4> QED BY <1>5, <2>1, <4>1, <4>2
    <3>2. CASE v # s
      <4>1. sndPc'[v] = sndPc[v] /\ strPc'[v] = strPc[v] /\ strChan'[v] = strChan[v]
        BY <1>2, <1>6, <1>t, <3>2 DEF RegistryType
      <4> QED BY <1>t, <2>1, <4>1 DEF HandsInv
    <3> QED BY <3>1, <3>2
  <2> QED BY <1>t, <2>1, <2>2 DEF HandsInv
<1>9. DistinctInv'
  BY <1>1, <1>3, <1>5, QueueEmpty DEF RegistryInv, DistinctInv, Distinct, commands
<1>10. HolderInv'
  <2>1. \A c \in Cmds : Chans(c)' = Chans(c)
    BY <1>3, <1>5, QueueEmpty DEF Chans, SetOf
  <2> QED BY <1>1, <2>1, NothingMoves DEF RegistryInv
<1> QED BY <1>7, <1>8, <1>9, <1>10 DEF RegistryInv

LEMMA DeleteStep ==
    ASSUME RegistryInv, NEW a \in Agents, DeleteChannel(a) PROVE RegistryInv'
<1>1. UNCHANGED <<commands, regPc, regChan, strPc, strAgent, strChan, sndPc>>
  BY DEF DeleteChannel, commands, ends, regs, strs, fate
<1>2. /\ cmdChan' \in [Agents -> 0..Len(heap)]
      /\ heap' \in Seq(Channel) /\ Len(heap') = Len(heap)
      /\ \A k \in 1..Len(heap) : heap'[k].buf = heap[k].buf
  <2> DEFINE n == cmdChan[a]
  <2>1. heap \in Seq(Channel) /\ cmdChan \in [Agents -> 0..Len(heap)] /\ Len(heap) \in Nat
    BY LenProperties DEF RegistryInv, RegistryType
  <2>2. CASE n = 0
    BY <2>1, <2>2 DEF DeleteChannel
  <2>3. CASE n # 0
    <3>1. /\ heap' = [heap EXCEPT ![n].closed = TRUE]
          /\ cmdChan' = [cmdChan EXCEPT ![a] = 0]
      BY <2>3 DEF DeleteChannel, Unmapped
    <3>2. n \in 1..Len(heap)
      BY <2>1, <2>3
    <3> HIDE DEF n
    <3> DEFINE e == [heap[n] EXCEPT !.closed = TRUE]
    <3>3. heap[n] \in Channel
      BY <2>1, <3>2, ElementOfSeq
    <3>4. e \in Channel /\ e.buf = heap[n].buf
      BY <3>3 DEF Channel
    <3>5. heap' = [heap EXCEPT ![n] = e]
      BY <3>1
    <3> HIDE DEF e
    <3>6. /\ heap' \in Seq(Channel) /\ Len(heap') = Len(heap)
          /\ \A k \in 1..Len(heap) : heap'[k] = IF k = n THEN e ELSE heap[k]
      BY <2>1, <3>2, <3>4, <3>5, ExceptSeq
    <3> QED BY <2>1, <3>1, <3>4, <3>6
  <2> QED BY <2>2, <2>3
<1>3. RegistryType'
  BY <1>1, <1>2 DEF RegistryInv, RegistryType, commands
<1>4. HandsInv'
  BY <1>1, <1>2 DEF RegistryInv, HandsInv, commands
<1>5. DistinctInv'
  BY <1>1, <1>2 DEF RegistryInv, DistinctInv, Distinct, commands
<1>6. HolderInv'
  <2>1. \A c \in Cmds : Chans(c)' = Chans(c)
    BY <1>2 DEF Chans
  <2> QED BY <1>1, <2>1, NothingMoves DEF RegistryInv
<1> QED BY <1>3, <1>4, <1>5, <1>6 DEF RegistryInv

-----------------------------------------------------------------------------
(* Steps that move commands                                                *)

\* An element of a queue of commands is a command.
LEMMA InQueue ==
    ASSUME NEW s \in Seq(Cmds), NEW c \in SetOf(s) PROVE c \in Cmds
  BY ElementOfSeq DEF SetOf

\* Whoever is seen to hold a command is its only holder.
LEMMA OnlyHolder ==
    ASSUME HolderInv, NEW c \in Cmds
    PROVE  /\ \A k \in Chans(c) : /\ c < nextCmd /\ Chans(c) = {k}
                                  /\ None({}, Queued(c), Flushed(c), Senders(c), Ends(c))
           /\ \A a \in Queued(c) : /\ c < nextCmd /\ Queued(c) = {a}
                                   /\ None(Chans(c), {}, Flushed(c), Senders(c), Ends(c))
           /\ \A a \in Flushed(c) : /\ c < nextCmd /\ Flushed(c) = {a}
                                    /\ None(Chans(c), Queued(c), {}, Senders(c), Ends(c))
           /\ \A s \in Senders(c) : /\ c < nextCmd /\ Senders(c) = {s}
                                    /\ None(Chans(c), Queued(c), Flushed(c), {}, Ends(c))
  BY DEF HolderInv, NoHolder, OneHolder, None, One

\* A step that moves the commands in M.
LEMMA SomeMove ==
    ASSUME HolderInv, NEW M,
           \A c \in Cmds \ M : /\ Chans(c)' = Chans(c) /\ Queued(c)' = Queued(c)
                               /\ Flushed(c)' = Flushed(c) /\ Senders(c)' = Senders(c)
                               /\ Ends(c)' = Ends(c) /\ (c < nextCmd' <=> c < nextCmd),
           \A c \in Cmds \cap M : c < nextCmd' /\ OneHolder(c)'
    PROVE  HolderInv'
<1>1. \A c \in Cmds \ M : NoHolder(c)' = NoHolder(c) /\ OneHolder(c)' = OneHolder(c)
  BY DEF NoHolder, OneHolder
<1> QED BY <1>1 DEF HolderInv

LEMMA TakeStep ==
    ASSUME RegistryInv, NEW a \in Agents, FlushTake(a) PROVE RegistryInv'
<1> DEFINE q == pending[a]
<1>1. /\ q \in Seq(Cmds) /\ regCmds[a] = <<>> /\ pending' = [pending EXCEPT ![a] = <<>>]
      /\ pending \in [Agents -> Seq(Cmds)] /\ regCmds \in [Agents -> Seq(Cmds)]
      /\ UNCHANGED <<heap, cmdChan, strs, nextCmd, delivered, evicted, forgotten>>
  BY DEF FlushTake, Taken, RegistryInv, RegistryType, HandsInv
<1>2. \/ /\ discarded' = discarded \cup SetOf(q) /\ UNCHANGED <<regCmds, regChan>>
         /\ regPc' = [regPc EXCEPT ![a] = "idle"]
      \/ /\ q # <<>> /\ cmdChan[a] # 0 /\ UNCHANGED discarded
         /\ regPc' = [regPc EXCEPT ![a] = "send"]
         /\ regCmds' = [regCmds EXCEPT ![a] = q]
         /\ regChan' = [regChan EXCEPT ![a] = cmdChan[a]]
  BY DEF FlushTake
<1> HIDE DEF q
<1>3. RegistryType'
  <2>1. pending' \in [Agents -> Seq(Cmds)] /\ regCmds' \in [Agents -> Seq(Cmds)]
    BY <1>1, <1>2, EmptySeq
  <2>2. /\ regPc' \in [Agents -> {"idle", "flush", "send"}]
        /\ regChan' \in [Agents -> 0..Len(heap)]
    <3>1. /\ regPc \in [Agents -> {"idle", "flush", "send"}]
          /\ regChan \in [Agents -> 0..Len(heap)] /\ cmdChan \in [Agents -> 0..Len(heap)]
      BY DEF RegistryInv, RegistryType
    <3> QED BY <3>1, <1>2
  <2> QED BY <1>1, <2>1, <2>2 DEF RegistryInv, RegistryType, strs
<1>4. HandsInv'
  BY <1>1, <1>2 DEF RegistryInv, RegistryType, HandsInv, strs
<1>5. DistinctInv'
  BY <1>1, <1>2, QueueEmpty DEF RegistryInv, DistinctInv, Distinct, q
<1>6. HolderInv'
  <2>1. \A c \in Cmds : /\ Chans(c)' = Chans(c) /\ Senders(c)' = Senders(c)
    BY <1>1 DEF Chans, Senders, strs, SetOf
  <2>2. \A c \in Cmds : Queued(c)' = Queued(c) \ {a} /\ (c \in SetOf(q) <=> a \in Queued(c))
    BY <1>1, QueueEmpty DEF Queued, q
  <2>3. CASE discarded' = discarded \cup SetOf(q) /\ UNCHANGED <<regCmds, regChan>>
    <3>1. \A c \in Cmds : /\ Flushed(c)' = Flushed(c)
                          /\ Ends(c)' = Ends(c) \cup (IF c \in SetOf(q) THEN {"discarded"}
                                                      ELSE {})
      BY <1>1, <2>3 DEF Flushed, Ends, SetOf
    <3>2. ASSUME NEW c \in Cmds \cap SetOf(q) PROVE c < nextCmd' /\ OneHolder(c)'
      <4>1. /\ c < nextCmd /\ Queued(c) = {a}
            /\ None(Chans(c), {}, Flushed(c), Senders(c), Ends(c))
        BY <2>2, OnlyHolder DEF RegistryInv
      <4>2. None(Chans(c)', Queued(c)', Flushed(c)', Senders(c)', {}) /\ Ends(c)' = {"discarded"}
        BY <2>1, <2>2, <3>1, <4>1 DEF None
      <4> QED BY <1>1, <4>1, <4>2 DEF OneHolder, One, None
    <3>3. \A c \in Cmds \ SetOf(q) :
             /\ Chans(c)' = Chans(c) /\ Queued(c)' = Queued(c)
             /\ Flushed(c)' = Flushed(c) /\ Senders(c)' = Senders(c)
             /\ Ends(c)' = Ends(c) /\ (c < nextCmd' <=> c < nextCmd)
      BY <1>1, <2>1, <2>2, <3>1
    <3>4. HolderInv
      BY DEF RegistryInv
    <3> QED BY <3>2, <3>3, <3>4, SomeMove
  <2>4. CASE discarded' = discarded /\ regCmds' = [regCmds EXCEPT ![a] = q]
    <3>1. \A c \in Cmds : /\ Ends(c)' = Ends(c)
                          /\ Flushed(c)' = Flushed(c) \cup (IF c \in SetOf(q) THEN {a}
                                                            ELSE {})
      BY <1>1, <2>4, QueueEmpty DEF Flushed, Ends
    <3>2. ASSUME NEW c \in Cmds \cap SetOf(q) PROVE c < nextCmd' /\ OneHolder(c)'
      <4>1. /\ c < nextCmd /\ Queued(c) = {a}
            /\ None(Chans(c), {}, Flushed(c), Senders(c), Ends(c))
        BY <2>2, OnlyHolder DEF RegistryInv
      <4>2. None(Chans(c)', Queued(c)', {}, Senders(c)', Ends(c)') /\ Flushed(c)' = {a}
        BY <2>1, <2>2, <3>1, <4>1 DEF None
      <4> QED BY <1>1, <4>1, <4>2 DEF OneHolder, One, None
    <3>3. \A c \in Cmds \ SetOf(q) :
             /\ Chans(c)' = Chans(c) /\ Queued(c)' = Queued(c)
             /\ Flushed(c)' = Flushed(c) /\ Senders(c)' = Senders(c)
             /\ Ends(c)' = Ends(c) /\ (c < nextCmd' <=> c < nextCmd)
      BY <1>1, <2>1, <2>2, <3>1
    <3>4. HolderInv
      BY DEF RegistryInv
    <3> QED BY <3>2, <3>3, <3>4, SomeMove
  <2> QED BY <1>2, <2>3, <2>4
<1> QED BY <1>3, <1>4, <1>5, <1>6 DEF RegistryInv

LEMMA FullStep ==
    ASSUME RegistryInv, NEW a \in Agents, FlushFull(a) PROVE RegistryInv'
<1> DEFINE q == regCmds[a]
<1>1. /\ q \in Seq(Cmds) /\ regCmds \in [Agents -> Seq(Cmds)]
      /\ regCmds' = [regCmds EXCEPT ![a] = <<>>] /\ regChan' = [regChan EXCEPT ![a] = 0]
      /\ regPc' = [regPc EXCEPT ![a] = "idle"] /\ discarded' = discarded \cup SetOf(q)
      /\ UNCHANGED <<registry, strs, nextCmd, delivered, evicted, forgotten>>
  BY DEF FlushFull, FlushIdle, RegistryInv, RegistryType
<1> HIDE DEF q
<1>2. RegistryType'
  BY <1>1, EmptySeq DEF RegistryInv, RegistryType, strs, registry
<1>3. HandsInv'
  BY <1>1 DEF RegistryInv, RegistryType, HandsInv, strs
<1>4. DistinctInv'
  BY <1>1, QueueEmpty DEF RegistryInv, DistinctInv, Distinct, registry
<1>5. HolderInv'
  <2>1. \A c \in Cmds : /\ Chans(c)' = Chans(c) /\ Senders(c)' = Senders(c)
                        /\ Queued(c)' = Queued(c)
    BY <1>1 DEF Chans, Senders, Queued, strs, registry, SetOf
  <2>2. \A c \in Cmds : Flushed(c)' = Flushed(c) \ {a}
                        /\ (c \in SetOf(q) <=> a \in Flushed(c))
    BY <1>1, QueueEmpty DEF Flushed, q
  <2>3. \A c \in Cmds : Ends(c)' = Ends(c) \cup (IF c \in SetOf(q) THEN {"discarded"}
                                                 ELSE {})
    BY <1>1 DEF Ends
  <2>4. ASSUME NEW c \in Cmds \cap SetOf(q) PROVE c < nextCmd' /\ OneHolder(c)'
    <3>1. /\ c < nextCmd /\ Flushed(c) = {a}
          /\ None(Chans(c), Queued(c), {}, Senders(c), Ends(c))
      BY <2>2, OnlyHolder DEF RegistryInv
    <3>2. /\ None(Chans(c)', Queued(c)', Flushed(c)', Senders(c)', {})
          /\ Ends(c)' = {"discarded"}
      BY <2>1, <2>2, <2>3, <3>1 DEF None
    <3> QED BY <1>1, <3>1, <3>2 DEF OneHolder, One, None
  <2>5. \A c \in Cmds \ SetOf(q) :
           /\ Chans(c)' = Chans(c) /\ Queued(c)' = Queued(c)
           /\ Flushed(c)' = Flushed(c) /\ Senders(c)' = Senders(c)
           /\ Ends(c)' = Ends(c) /\ (c < nextCmd' <=> c < nextCmd)
    BY <1>1, <2>1, <2>2, <2>3
  <2>6. HolderInv
    BY DEF RegistryInv
  <2> QED BY <2>4, <2>5, <2>6, SomeMove
<1> QED BY <1>2, <1>3, <1>4, <1>5 DEF RegistryInv

\* One command of the flush goes on the channel.
LEMMA SendStep ==
    ASSUME RegistryInv, NEW a \in Agents, FlushSend(a) PROVE RegistryInv'
<1> DEFINE q == regCmds[a]
           n == regChan[a]
           h == Head(q)
           b == heap[n].buf
<1>1. /\ regCmds \in [Agents -> Seq(Cmds)] /\ heap \in Seq(Channel)
      /\ regChan \in [Agents -> 0..Len(heap)] /\ Len(heap) \in Nat
  BY LenProperties DEF RegistryInv, RegistryType
<1>2. q \in Seq(Cmds) /\ q # <<>> /\ n \in 1..Len(heap)
  BY <1>1 DEF FlushSend, RegistryInv, RegistryType, HandsInv
<1>3. /\ h \in Cmds /\ h \in SetOf(q) /\ Tail(q) \in Seq(Cmds)
      /\ SetOf(q) = SetOf(Tail(q)) \cup {h} /\ h \notin SetOf(Tail(q))
      /\ Distinct(Tail(q))
  BY <1>2, QueueTail DEF RegistryInv, DistinctInv
<1>4. heap[n] \in Channel /\ b \in Seq(Cmds)
  <2>1. heap[n] \in Channel
    BY <1>1, <1>2, ElementOfSeq
  <2> QED BY <2>1 DEF Channel
<1>5. /\ heap' = [heap EXCEPT ![n].buf = Append(b, h)]
      /\ regCmds' = [regCmds EXCEPT ![a] = Tail(q)]
      /\ \/ /\ Tail(q) = <<>> /\ regPc' = [regPc EXCEPT ![a] = "idle"]
            /\ regChan' = [regChan EXCEPT ![a] = 0]
         \/ Tail(q) # <<>> /\ regPc' = regPc /\ regChan' = regChan
      /\ UNCHANGED <<cmdChan, pending, strs, nextCmd, fate>>
  <2>1. /\ heap' = [heap EXCEPT ![n].buf = Append(b, h)]
        /\ UNCHANGED <<cmdChan, pending, strs, nextCmd, fate>>
    BY DEF FlushSend, Put
  <2>2. Len(q) = 1 <=> Tail(q) = <<>>
    <3>1. /\ Tail(q) \in Seq(Cmds) /\ Len(q) \in Nat
          /\ Len(Tail(q)) = Len(q) - 1
      BY <1>2, HeadTailProperties, LenProperties
    <3>2. Len(Tail(q)) = 0 <=> Tail(q) = <<>>
      BY <3>1, EmptySeq
    <3> QED BY <3>1, <3>2
  <2> QED BY <2>1, <2>2 DEF FlushSend, FlushIdle
<1>6. /\ n \in Chans(h) => FALSE
      /\ a \in Flushed(h)
      /\ h < nextCmd /\ Flushed(h) = {a}
      /\ None(Chans(h), Queued(h), {}, Senders(h), Ends(h))
  <2>1. a \in Flushed(h)
    BY <1>3 DEF Flushed
  <2> QED BY <2>1, <1>3, OnlyHolder DEF RegistryInv, None
<1>7. h \notin SetOf(b)
  BY <1>2, <1>6 DEF Chans
<1>8. /\ Append(b, h) \in Seq(Cmds) /\ SetOf(Append(b, h)) = SetOf(b) \cup {h}
      /\ Distinct(Append(b, h))
  BY <1>2, <1>3, <1>4, <1>7, QueueAppend DEF RegistryInv, DistinctInv
<1>9. /\ heap' \in Seq(Channel) /\ Len(heap') = Len(heap)
      /\ \A j \in 1..Len(heap) :
            heap'[j].buf = IF j = n THEN Append(b, h) ELSE heap[j].buf
  <2> HIDE DEF q, n, h, b
  <2> DEFINE d == Append(b, h)
  <2>1. d \in Seq(Cmds) /\ heap' = [heap EXCEPT ![n].buf = d]
    BY <1>5, <1>8
  <2> DEFINE e == [heap[n] EXCEPT !.buf = d]
  <2>2. heap' = [heap EXCEPT ![n] = e]
    BY <2>1
  <2>3. heap[n] \in Channel
    BY <1>1, <1>2, ElementOfSeq
  <2> HIDE DEF d
  <2>4. e \in Channel /\ e.buf = d
    BY <2>1, <2>3 DEF Channel
  <2> HIDE DEF e
  <2>5. /\ heap' \in Seq(Channel) /\ Len(heap') = Len(heap)
        /\ \A j \in 1..Len(heap) : heap'[j] = IF j = n THEN e ELSE heap[j]
    BY <1>1, <1>2, <2>2, <2>4, ExceptSeq
  <2> QED BY <2>4, <2>5 DEF d
<1> HIDE DEF q, n, h, b
<1>10. RegistryType'
  <2>1. regCmds' \in [Agents -> Seq(Cmds)]
    BY <1>1, <1>3, <1>5
  <2>2. /\ regPc' \in [Agents -> {"idle", "flush", "send"}]
        /\ regChan' \in [Agents -> 0..Len(heap)]
    <3>1. regPc \in [Agents -> {"idle", "flush", "send"}] /\ 0 \in 0..Len(heap)
      BY <1>1 DEF RegistryInv, RegistryType
    <3>2. CASE regPc' = [regPc EXCEPT ![a] = "idle"] /\ regChan' = [regChan EXCEPT ![a] = 0]
      BY <3>1, <3>2, <1>1
    <3>3. CASE regPc' = regPc /\ regChan' = regChan
      BY <3>1, <3>3, <1>1
    <3> QED BY <3>2, <3>3, <1>5
  <2> QED BY <1>5, <1>9, <2>1, <2>2 DEF RegistryInv, RegistryType, strs
<1>11. HandsInv'
  <2>1. \A s \in Streams :
           /\ sndPc'[s] \in {"recv", "send"} => strChan'[s] # 0
           /\ sndPc'[s] # "send" => sndCmd'[s] = 0
           /\ strPc'[s] \in {"none", "first"} => sndPc'[s] = "none"
    BY <1>5 DEF RegistryInv, HandsInv, strs
  <2>2. regPc[a] = "send" /\ regChan[a] # 0
    BY DEF FlushSend, RegistryInv, HandsInv
  <2>3. /\ regPc \in [Agents -> {"idle", "flush", "send"}]
        /\ \A o \in Agents : IF regPc[o] = "send"
                              THEN regChan[o] # 0 /\ regCmds[o] # <<>>
                              ELSE regCmds[o] = <<>>
    BY DEF RegistryInv, RegistryType, HandsInv
  <2>4. ASSUME NEW o \in Agents
        PROVE  IF regPc'[o] = "send" THEN regChan'[o] # 0 /\ regCmds'[o] # <<>>
                                     ELSE regCmds'[o] = <<>>
    <3>1. CASE o = a
      <4>1. regCmds'[a] = Tail(q)
        BY <1>1, <1>5
      <4>2. CASE Tail(q) = <<>> /\ regPc' = [regPc EXCEPT ![a] = "idle"]
        BY <2>3, <3>1, <4>1, <4>2
      <4>3. CASE Tail(q) # <<>> /\ regPc' = regPc /\ regChan' = regChan
        BY <2>2, <3>1, <4>1, <4>3
      <4> QED BY <1>5, <4>2, <4>3
    <3>2. CASE o # a
      <4>1. regCmds'[o] = regCmds[o] /\ regPc'[o] = regPc[o] /\ regChan'[o] = regChan[o]
        <5>1. regCmds'[o] = regCmds[o]
          BY <1>1, <1>5, <3>2
        <5>2. regPc'[o] = regPc[o] /\ regChan'[o] = regChan[o]
          BY <1>1, <1>5, <2>3, <3>2
        <5> QED BY <5>1, <5>2
      <4> QED BY <2>3, <4>1
    <3> QED BY <3>1, <3>2
  <2> QED BY <2>1, <2>4 DEF HandsInv
<1>12. DistinctInv'
  BY <1>1, <1>3, <1>5, <1>8, <1>9 DEF RegistryInv, DistinctInv
<1>13. HolderInv'
  <2>1. \A c \in Cmds : /\ Queued(c)' = Queued(c) /\ Senders(c)' = Senders(c)
                        /\ Ends(c)' = Ends(c)
    BY <1>5 DEF Queued, Senders, Ends, strs, fate, SetOf
  <2>2. \A c \in Cmds : Flushed(c)' = Flushed(c) \ (IF c = h THEN {a} ELSE {})
    BY <1>1, <1>3, <1>5 DEF Flushed, q
  <2>3. \A c \in Cmds : Chans(c)' = Chans(c) \cup (IF c = h THEN {n} ELSE {})
    BY <1>2, <1>8, <1>9 DEF Chans, b
  <2>4. ASSUME NEW c \in Cmds \cap {h} PROVE c < nextCmd' /\ OneHolder(c)'
    <3>1. /\ None({}, Queued(c)', Flushed(c)', Senders(c)', Ends(c)')
          /\ Chans(c)' = {n} /\ c < nextCmd'
      BY <1>3, <1>5, <1>6, <2>1, <2>2, <2>3 DEF None
    <3> QED BY <3>1 DEF OneHolder, One
  <2>5. \A c \in Cmds \ {h} :
           /\ Chans(c)' = Chans(c) /\ Queued(c)' = Queued(c)
           /\ Flushed(c)' = Flushed(c) /\ Senders(c)' = Senders(c)
           /\ Ends(c)' = Ends(c) /\ (c < nextCmd' <=> c < nextCmd)
    BY <1>5, <2>1, <2>2, <2>3
  <2>6. HolderInv
    BY DEF RegistryInv
  <2> QED BY <2>4, <2>5, <2>6, SomeMove
<1> QED BY <1>10, <1>11, <1>12, <1>13 DEF RegistryInv

\* A sender takes the first command of its channel.
LEMMA RecvStep ==
    ASSUME RegistryInv, NEW s \in Streams, SenderRecv(s) PROVE RegistryInv'
<1> DEFINE n == strChan[s]
           b == heap[n].buf
           h == Head(b)
<1>1. /\ heap \in Seq(Channel) /\ strChan \in [Streams -> 0..Len(heap)]
      /\ Len(heap) \in Nat /\ sndCmd \in [Streams -> Nat]
  BY LenProperties DEF RegistryInv, RegistryType
<1>2. n \in 1..Len(heap) /\ b # <<>> /\ sndCmd[s] = 0
  BY <1>1 DEF SenderRecv, RegistryInv, RegistryType, HandsInv
<1>3. heap[n] \in Channel /\ b \in Seq(Cmds)
  <2>1. heap[n] \in Channel
    BY <1>1, <1>2, ElementOfSeq
  <2> QED BY <2>1 DEF Channel
<1>4. /\ h \in Cmds /\ h \in SetOf(b) /\ Tail(b) \in Seq(Cmds)
      /\ SetOf(b) = SetOf(Tail(b)) \cup {h} /\ h \notin SetOf(Tail(b))
      /\ Distinct(Tail(b))
  BY <1>2, <1>3, QueueTail DEF RegistryInv, DistinctInv
<1>5. /\ heap' = [heap EXCEPT ![n].buf = Tail(b)]
      /\ sndCmd' = [sndCmd EXCEPT ![s] = h] /\ sndPc' = [sndPc EXCEPT ![s] = "send"]
      /\ UNCHANGED <<cmdChan, pending, regs, strPc, strAgent, strChan, nextCmd, fate>>
  BY DEF SenderRecv
<1>6. /\ h < nextCmd /\ Chans(h) = {n}
      /\ None({}, Queued(h), Flushed(h), Senders(h), Ends(h))
  <2>1. n \in Chans(h)
    BY <1>2, <1>4 DEF Chans
  <2> QED BY <2>1, <1>4, OnlyHolder DEF RegistryInv
<1>7. /\ heap' \in Seq(Channel) /\ Len(heap') = Len(heap)
      /\ \A j \in 1..Len(heap) : heap'[j].buf = IF j = n THEN Tail(b) ELSE heap[j].buf
  <2> DEFINE d == Tail(b)
  <2> HIDE DEF n, b, h
  <2>1. d \in Seq(Cmds) /\ heap' = [heap EXCEPT ![n].buf = d]
    BY <1>4, <1>5
  <2> DEFINE e == [heap[n] EXCEPT !.buf = d]
  <2>2. heap' = [heap EXCEPT ![n] = e]
    BY <2>1
  <2>3. heap[n] \in Channel
    BY <1>1, <1>2, ElementOfSeq
  <2> HIDE DEF d
  <2>4. e \in Channel /\ e.buf = d
    BY <2>1, <2>3 DEF Channel
  <2> HIDE DEF e
  <2>5. /\ heap' \in Seq(Channel) /\ Len(heap') = Len(heap)
        /\ \A j \in 1..Len(heap) : heap'[j] = IF j = n THEN e ELSE heap[j]
    BY <1>1, <1>2, <2>2, <2>4, ExceptSeq
  <2> QED BY <2>4, <2>5 DEF d
<1>8. h \in Nat \ {0}
  BY <1>4, BoundsAssumption DEF Cmds
<1> HIDE DEF n, b, h
<1>9. RegistryType'
  <2>1. /\ sndCmd' \in [Streams -> Nat]
        /\ sndPc' \in [Streams -> {"none", "recv", "send", "done"}]
    BY <1>1, <1>5, <1>8 DEF RegistryInv, RegistryType
  <2> QED BY <1>5, <1>7, <2>1 DEF RegistryInv, RegistryType, regs
<1>10. HandsInv'
  BY <1>1, <1>5 DEF RegistryInv, RegistryType, HandsInv, regs, SenderRecv
<1>11. DistinctInv'
  BY <1>4, <1>5, <1>7 DEF RegistryInv, DistinctInv, Distinct, regs
<1>12. HolderInv'
  <2>1. \A c \in Cmds : /\ Queued(c)' = Queued(c) /\ Flushed(c)' = Flushed(c)
                        /\ Ends(c)' = Ends(c)
    BY <1>5 DEF Queued, Flushed, Ends, regs, fate, SetOf
  <2>2. \A c \in Cmds : Senders(c)' = Senders(c) \cup (IF c = h THEN {s} ELSE {})
    <3>1. \A c \in Cmds : c # 0
      BY BoundsAssumption DEF Cmds
    <3> QED BY <3>1, <1>1, <1>2, <1>5 DEF Senders
  <2>3. \A c \in Cmds : Chans(c)' = Chans(c) \ (IF c = h THEN {n} ELSE {})
    BY <1>2, <1>4, <1>7 DEF Chans, b
  <2>4. ASSUME NEW c \in Cmds \cap {h} PROVE c < nextCmd' /\ OneHolder(c)'
    <3>1. /\ None(Chans(c)', Queued(c)', Flushed(c)', {}, Ends(c)')
          /\ Senders(c)' = {s} /\ c < nextCmd'
      BY <1>4, <1>5, <1>6, <2>1, <2>2, <2>3 DEF None
    <3> QED BY <3>1 DEF OneHolder, One
  <2>5. \A c \in Cmds \ {h} :
           /\ Chans(c)' = Chans(c) /\ Queued(c)' = Queued(c)
           /\ Flushed(c)' = Flushed(c) /\ Senders(c)' = Senders(c)
           /\ Ends(c)' = Ends(c) /\ (c < nextCmd' <=> c < nextCmd)
    BY <1>5, <2>1, <2>2, <2>3
  <2>6. HolderInv
    BY DEF RegistryInv
  <2> QED BY <2>4, <2>5, <2>6, SomeMove
<1> QED BY <1>9, <1>10, <1>11, <1>12 DEF RegistryInv

\* A sender hands its command to the stream, or loses it.
LEMMA HandStep ==
    ASSUME RegistryInv, NEW s \in Streams, SenderSend(s) PROVE RegistryInv'
<1> DEFINE h == sndCmd[s]
<1>1. /\ sndPc[s] = "send" /\ sndCmd' = [sndCmd EXCEPT ![s] = 0]
      /\ sndPc' = [sndPc EXCEPT ![s] = "recv"]
      /\ \/ delivered' = delivered \cup {h} /\ discarded' = discarded
         \/ discarded' = discarded \cup {h} /\ delivered' = delivered
      /\ UNCHANGED <<registry, regs, strPc, strAgent, strChan, nextCmd, evicted,
                     forgotten>>
  BY DEF SenderSend
<1>2. sndCmd \in [Streams -> Nat] /\ \A c \in Cmds : c # 0
  BY BoundsAssumption DEF RegistryInv, RegistryType, Cmds
<1> HIDE DEF h
<1>3. RegistryType'
  <2>1. /\ sndCmd' \in [Streams -> Nat]
        /\ sndPc' \in [Streams -> {"none", "recv", "send", "done"}]
    BY <1>1, <1>2 DEF RegistryInv, RegistryType
  <2> QED BY <1>1, <2>1 DEF RegistryInv, RegistryType, regs, registry
<1>4. HandsInv'
  BY <1>1 DEF RegistryInv, RegistryType, HandsInv, regs
<1>5. DistinctInv'
  BY <1>1 DEF RegistryInv, DistinctInv, Distinct, regs, registry
<1>6. HolderInv'
  <2>1. \A c \in Cmds : /\ Queued(c)' = Queued(c) /\ Flushed(c)' = Flushed(c)
                        /\ Chans(c)' = Chans(c)
    BY <1>1 DEF Queued, Flushed, Chans, regs, registry, SetOf
  <2>2. \A c \in Cmds : /\ Senders(c)' = Senders(c) \ {s}
                        /\ c = h <=> s \in Senders(c)
    BY <1>1, <1>2 DEF Senders, h
  <2>3. \E e : \A c \in Cmds : Ends(c)' = Ends(c) \cup (IF c = h THEN {e} ELSE {})
    <3>1. CASE delivered' = delivered \cup {h} /\ discarded' = discarded
      <4>1. \A c \in Cmds : Ends(c)' = Ends(c) \cup (IF c = h THEN {"delivered"} ELSE {})
        BY <1>1, <3>1 DEF Ends
      <4> QED BY <4>1
    <3>2. CASE discarded' = discarded \cup {h} /\ delivered' = delivered
      <4>1. \A c \in Cmds : Ends(c)' = Ends(c) \cup (IF c = h THEN {"discarded"} ELSE {})
        BY <1>1, <3>2 DEF Ends
      <4> QED BY <4>1
    <3> QED BY <1>1, <3>1, <3>2
  <2>4. PICK e : \A c \in Cmds : Ends(c)' = Ends(c) \cup (IF c = h THEN {e} ELSE {})
    BY <2>3
  <2>5. ASSUME NEW c \in Cmds \cap {h} PROVE c < nextCmd' /\ OneHolder(c)'
    <3>1. /\ c < nextCmd /\ Senders(c) = {s}
          /\ None(Chans(c), Queued(c), Flushed(c), {}, Ends(c))
      BY <2>2, OnlyHolder DEF RegistryInv
    <3>2. /\ None(Chans(c)', Queued(c)', Flushed(c)', Senders(c)', {})
          /\ Ends(c)' = {e} /\ c < nextCmd'
      BY <1>1, <2>1, <2>2, <2>4, <3>1 DEF None
    <3> QED BY <3>2 DEF OneHolder, One
  <2>6. \A c \in Cmds \ {h} :
           /\ Chans(c)' = Chans(c) /\ Queued(c)' = Queued(c)
           /\ Flushed(c)' = Flushed(c) /\ Senders(c)' = Senders(c)
           /\ Ends(c)' = Ends(c) /\ (c < nextCmd' <=> c < nextCmd)
    BY <1>1, <2>1, <2>2, <2>4
  <2>7. HolderInv
    BY DEF RegistryInv
  <2> QED BY <2>5, <2>6, <2>7, SomeMove
<1> QED BY <1>3, <1>4, <1>5, <1>6 DEF RegistryInv

\* A command nobody had enters, and may push the oldest one out.
LEMMA CommandStep ==
    ASSUME RegistryInv, NEW a \in Agents, SendCommand(a) PROVE RegistryInv'
<1> DEFINE m == nextCmd
           q == pending[a]
           n == cmdChan[a]
           b == heap[n].buf
<1>1. /\ heap \in Seq(Channel) /\ pending \in [Agents -> Seq(Cmds)] /\ q \in Seq(Cmds)
      /\ cmdChan \in [Agents -> 0..Len(heap)] /\ Len(heap) \in Nat /\ m \in Nat
      /\ Distinct(q)
  BY LenProperties DEF RegistryInv, RegistryType, DistinctInv
<1>2. /\ m \in Cmds /\ nextCmd' = m + 1
      /\ UNCHANGED <<cmdChan, regs, strs, delivered, discarded, forgotten>>
  BY BoundsAssumption DEF SendCommand, Cmds, RegistryInv, RegistryType
<1>3. NoHolder(m)
  BY <1>1, <1>2 DEF RegistryInv, HolderInv
<1>4. HolderInv
  BY DEF RegistryInv
<1>5. \A c \in Cmds : Flushed(c)' = Flushed(c) /\ Senders(c)' = Senders(c)
  BY <1>2 DEF Flushed, Senders, regs, strs, SetOf
<1>10. \A c \in Cmds \ {m} : c < nextCmd' <=> c < nextCmd
  BY <1>1, <1>2, BoundsAssumption DEF Cmds
<1>6. m \notin SetOf(q) /\ Append(q, m) \in Seq(Cmds)
      /\ SetOf(Append(q, m)) = SetOf(q) \cup {m} /\ Distinct(Append(q, m))
  <2>1. m \notin SetOf(q)
    BY <1>3 DEF NoHolder, None, Queued
  <2> QED BY <2>1, <1>1, <1>2, QueueAppend
<1>7. CASE n # 0 /\ HasRoom(n)
  <2>1. /\ heap' = [heap EXCEPT ![n].buf = Append(b, m)]
        /\ UNCHANGED <<pending, evicted>>
    BY <1>7 DEF SendCommand, Put
  <2>2. n \in 1..Len(heap) /\ heap[n] \in Channel
    BY <1>1, <1>7, ElementOfSeq
  <2>3. b \in Seq(Cmds) /\ Distinct(b) /\ m \notin SetOf(b)
    BY <2>2, <1>3 DEF Channel, NoHolder, None, Chans, RegistryInv, DistinctInv
  <2>4. /\ Append(b, m) \in Seq(Cmds) /\ SetOf(Append(b, m)) = SetOf(b) \cup {m}
        /\ Distinct(Append(b, m))
    BY <2>3, <1>2, QueueAppend
  <2> HIDE DEF q, m, n, b
  <2> DEFINE d == Append(b, m)
             e == [heap[n] EXCEPT !.buf = d]
  <2>5. heap' = [heap EXCEPT ![n] = e]
    BY <2>1
  <2>6. d \in Seq(Cmds) /\ SetOf(d) = SetOf(b) \cup {m} /\ Distinct(d)
    BY <2>4
  <2> HIDE DEF d
  <2>7. e \in Channel /\ e.buf = d
    BY <2>2, <2>6 DEF Channel
  <2> HIDE DEF e
  <2>8. /\ heap' \in Seq(Channel) /\ Len(heap') = Len(heap)
        /\ \A j \in 1..Len(heap) : heap'[j] = IF j = n THEN e ELSE heap[j]
    BY <1>1, <2>2, <2>5, <2>7, ExceptSeq
  <2>9. RegistryType'
    <3>1. RegistryType /\ UNCHANGED <<regs, strs, cmdChan, pending>>
      BY <1>2, <2>1 DEF RegistryInv
    <3>2. nextCmd' \in Nat \ {0}
      <4>1. m + 1 \in Nat \ {0}
        BY <1>1
      <4> QED BY <1>2, <4>1
    <3> QED BY <2>8, <3>1, <3>2 DEF RegistryType, regs, strs
  <2>10. HandsInv' /\ DistinctInv'
    <3>1. HandsInv'
      BY <1>2 DEF RegistryInv, HandsInv, regs, strs
    <3>2. DistinctInv'
      BY <1>2, <2>1, <2>6, <2>7, <2>8 DEF RegistryInv, DistinctInv, regs
    <3> QED BY <3>1, <3>2
  <2>11. \A c \in Cmds : /\ Queued(c)' = Queued(c) /\ Ends(c)' = Ends(c)
    BY <1>2, <2>1 DEF Queued, Ends, SetOf
  <2>12. \A c \in Cmds : Chans(c)' = Chans(c) \cup (IF c = m THEN {n} ELSE {})
    BY <2>2, <2>6, <2>7, <2>8 DEF Chans, b
  <2>13. ASSUME NEW c \in Cmds \cap {m} PROVE c < nextCmd' /\ OneHolder(c)'
    <3>1. /\ None({}, Queued(c)', Flushed(c)', Senders(c)', Ends(c)')
          /\ Chans(c)' = {n} /\ c < nextCmd'
      BY <1>1, <1>2, <1>3, <1>5, <2>11, <2>12 DEF NoHolder, None
    <3> QED BY <3>1 DEF OneHolder, One
  <2>14. \A c \in Cmds \ {m} :
           /\ Chans(c)' = Chans(c) /\ Queued(c)' = Queued(c)
           /\ Flushed(c)' = Flushed(c) /\ Senders(c)' = Senders(c)
           /\ Ends(c)' = Ends(c) /\ (c < nextCmd' <=> c < nextCmd)
    BY <1>5, <1>10, <2>11, <2>12
  <2>15. HolderInv'
    BY <1>4, <2>13, <2>14, SomeMove
  <2> QED BY <2>9, <2>10, <2>15 DEF RegistryInv
<1>8. CASE ~(n # 0 /\ HasRoom(n)) /\ ~PendingFull(a)
  <2>1. /\ pending' = [pending EXCEPT ![a] = Append(q, m)]
        /\ UNCHANGED <<heap, evicted>>
    BY <1>8 DEF SendCommand
  <2> HIDE DEF q, m, n, b
  <2>2. pending' \in [Agents -> Seq(Cmds)]
    BY <1>1, <1>6, <2>1
  <2>3. RegistryType'
    BY <1>1, <1>2, <2>1, <2>2 DEF RegistryInv, RegistryType, regs, strs
  <2>4. HandsInv'
    BY <1>2, <2>1 DEF RegistryInv, HandsInv, regs, strs
  <2>5. DistinctInv'
    BY <1>1, <1>2, <1>6, <2>1 DEF RegistryInv, DistinctInv, regs
  <2>6. \A c \in Cmds : Chans(c)' = Chans(c) /\ Ends(c)' = Ends(c)
    BY <1>2, <2>1 DEF Chans, Ends, SetOf
  <2>7. \A c \in Cmds : Queued(c)' = Queued(c) \cup (IF c = m THEN {a} ELSE {})
    BY <1>1, <1>6, <2>1 DEF Queued, q
  <2>8. ASSUME NEW c \in Cmds \cap {m} PROVE c < nextCmd' /\ OneHolder(c)'
    <3>1. /\ None(Chans(c)', {}, Flushed(c)', Senders(c)', Ends(c)')
          /\ Queued(c)' = {a} /\ c < nextCmd'
      BY <1>1, <1>2, <1>3, <1>5, <2>6, <2>7 DEF NoHolder, None
    <3> QED BY <3>1 DEF OneHolder, One
  <2>9. \A c \in Cmds \ {m} :
           /\ Chans(c)' = Chans(c) /\ Queued(c)' = Queued(c)
           /\ Flushed(c)' = Flushed(c) /\ Senders(c)' = Senders(c)
           /\ Ends(c)' = Ends(c) /\ (c < nextCmd' <=> c < nextCmd)
    BY <1>5, <1>10, <2>6, <2>7
  <2>10. HolderInv'
    BY <1>4, <2>8, <2>9, SomeMove
  <2> QED BY <2>3, <2>4, <2>5, <2>10 DEF RegistryInv
<1>9. CASE ~(n # 0 /\ HasRoom(n)) /\ PendingFull(a)
  <2> DEFINE o == Head(q)
             t == Tail(q)
  <2>1. /\ pending' = [pending EXCEPT ![a] = Append(t, m)]
        /\ evicted' = evicted \cup {o} /\ heap' = heap
    BY <1>9 DEF SendCommand
  <2>2. q # <<>>
    BY <1>1, <1>9, EmptySeq, BoundsAssumption DEF PendingFull
  <2>3. /\ o \in Cmds /\ o \in SetOf(q) /\ t \in Seq(Cmds)
        /\ SetOf(q) = SetOf(t) \cup {o} /\ o \notin SetOf(t) /\ Distinct(t)
    BY <1>1, <2>2, QueueTail
  <2>4. /\ Append(t, m) \in Seq(Cmds) /\ SetOf(Append(t, m)) = SetOf(t) \cup {m}
        /\ Distinct(Append(t, m)) /\ o # m
    <3> HIDE DEF t, o, m, q
    <3>1. m \notin SetOf(t) /\ o # m
      BY <1>6, <2>3
    <3> QED BY <3>1, <1>2, <2>3, QueueAppend
  <2>5. a \in Queued(o)
    BY <2>3 DEF Queued
  <2>6. /\ o < nextCmd /\ Queued(o) = {a}
        /\ None(Chans(o), {}, Flushed(o), Senders(o), Ends(o))
    BY <1>4, <2>3, <2>5, OnlyHolder
  <2> HIDE DEF q, m, n, b, o, t
  <2>7. pending' \in [Agents -> Seq(Cmds)]
    BY <1>1, <2>1, <2>4
  <2>8. RegistryType'
    BY <1>1, <1>2, <2>1, <2>7 DEF RegistryInv, RegistryType, regs, strs
  <2>9. HandsInv'
    BY <1>2, <2>1 DEF RegistryInv, HandsInv, regs, strs
  <2>10. DistinctInv'
    BY <1>1, <1>2, <2>1, <2>4 DEF RegistryInv, DistinctInv, regs
  <2>11. \A c \in Cmds : Chans(c)' = Chans(c)
    BY <2>1 DEF Chans, SetOf
  <2>12. \A c \in Cmds : Ends(c)' = Ends(c) \cup (IF c = o THEN {"evicted"} ELSE {})
    BY <1>2, <2>1 DEF Ends
  <2>13. \A c \in Cmds : Queued(c)' = IF c = m THEN Queued(c) \cup {a}
                                      ELSE IF c = o THEN Queued(c) \ {a} ELSE Queued(c)
    BY <1>1, <2>1, <2>3, <2>4 DEF Queued, q
  <2>14. ASSUME NEW c \in Cmds \cap {m, o} PROVE c < nextCmd' /\ OneHolder(c)'
    <3>1. CASE c = m
      <4>1. /\ None(Chans(c)', {}, Flushed(c)', Senders(c)', Ends(c)')
            /\ Queued(c)' = {a} /\ c < nextCmd'
        BY <1>1, <1>2, <1>3, <1>5, <2>4, <2>11, <2>12, <2>13, <3>1 DEF NoHolder, None
      <4> QED BY <4>1 DEF OneHolder, One
    <3>2. CASE c = o
      <4>1. /\ None(Chans(c)', Queued(c)', Flushed(c)', Senders(c)', {})
            /\ Ends(c)' = {"evicted"} /\ c < nextCmd'
        BY <1>1, <1>2, <1>5, <2>4, <2>6, <2>11, <2>12, <2>13, <3>2, BoundsAssumption
           DEF None, Cmds, m
      <4> QED BY <4>1 DEF OneHolder, One
    <3> QED BY <3>1, <3>2
  <2>15. \A c \in Cmds \ {m, o} :
           /\ Chans(c)' = Chans(c) /\ Queued(c)' = Queued(c)
           /\ Flushed(c)' = Flushed(c) /\ Senders(c)' = Senders(c)
           /\ Ends(c)' = Ends(c) /\ (c < nextCmd' <=> c < nextCmd)
    BY <1>5, <1>10, <2>11, <2>12, <2>13
  <2>16. HolderInv'
    BY <1>4, <2>14, <2>15, SomeMove
  <2> QED BY <2>8, <2>9, <2>10, <2>16 DEF RegistryInv
<1> QED BY <1>7, <1>8, <1>9

\* The exit: whoever held a command in memory has forgotten it.
LEMMA ExitStep ==
    ASSUME RegistryInv, Exit PROVE RegistryInv'
<1>1. /\ heap' = <<>> /\ cmdChan' = [a \in Agents |-> 0]
      /\ pending' = [a \in Agents |-> <<>>] /\ regPc' = [a \in Agents |-> "idle"]
      /\ regCmds' = [a \in Agents |-> <<>>] /\ regChan' = [a \in Agents |-> 0]
      /\ strPc' = [s \in Streams |-> IF strPc[s] = "none" THEN "none" ELSE "ended"]
      /\ strChan' = [s \in Streams |-> 0] /\ sndPc' = [s \in Streams |-> "none"]
      /\ sndCmd' = [s \in Streams |-> 0] /\ forgotten' = forgotten \cup InMemory
      /\ UNCHANGED <<strAgent, nextCmd, delivered, discarded, evicted>>
  BY DEF Exit
<1>2. RegistryType'
  BY <1>1, EmptySeq DEF RegistryInv, RegistryType
<1>3. HandsInv' /\ DistinctInv'
  BY <1>1, QueueEmpty DEF HandsInv, DistinctInv
<1>4. \A c \in Cmds : c # 0
  BY BoundsAssumption DEF Cmds
<1>5. \A c \in Cmds : /\ Chans(c)' = {} /\ Queued(c)' = {} /\ Flushed(c)' = {}
                      /\ Senders(c)' = {}
  BY <1>1, <1>4, QueueEmpty DEF Chans, Queued, Flushed, Senders
<1>6. \A c \in Cmds : c \in InMemory <=> \/ Chans(c) # {} \/ Queued(c) # {}
                                         \/ Flushed(c) # {} \/ Senders(c) # {}
  <2> DEFINE A == {SetOf(heap[k].buf) : k \in 1..Len(heap)}
             B == {SetOf(pending[a]) : a \in Agents}
             C == {SetOf(regCmds[a]) : a \in Agents}
             D == {{sndCmd[s]} \ {0} : s \in Streams}
  <2>1. InMemory = UNION (A \cup B \cup C \cup D)
    BY DEF InMemory
  <2>2. \A c \in Cmds : c \in UNION A <=> Chans(c) # {}
    BY DEF Chans
  <2>3. \A c \in Cmds : c \in UNION B <=> Queued(c) # {}
    BY DEF Queued
  <2>4. \A c \in Cmds : c \in UNION C <=> Flushed(c) # {}
    BY DEF Flushed
  <2>5. \A c \in Cmds : c \in UNION D <=> Senders(c) # {}
    BY <1>4 DEF Senders
  <2> HIDE DEF A, B, C, D
  <2> QED BY <2>1, <2>2, <2>3, <2>4, <2>5
<1>7. \A c \in Cmds : Ends(c)' = Ends(c) \cup (IF c \in InMemory THEN {"forgotten"}
                                               ELSE {})
  BY <1>1 DEF Ends
<1>8. ASSUME NEW c \in Cmds \cap InMemory PROVE c < nextCmd' /\ OneHolder(c)'
  <2>1. c < nextCmd /\ Ends(c) = {}
    BY <1>6, OnlyHolder DEF RegistryInv, None
  <2>2. /\ None(Chans(c)', Queued(c)', Flushed(c)', Senders(c)', {})
        /\ Ends(c)' = {"forgotten"} /\ c < nextCmd'
    BY <1>1, <1>5, <1>7, <2>1 DEF None
  <2> QED BY <2>2 DEF OneHolder, One
<1>9. \A c \in Cmds \ InMemory :
         /\ Chans(c)' = Chans(c) /\ Queued(c)' = Queued(c)
         /\ Flushed(c)' = Flushed(c) /\ Senders(c)' = Senders(c)
         /\ Ends(c)' = Ends(c) /\ (c < nextCmd' <=> c < nextCmd)
  BY <1>1, <1>5, <1>6, <1>7
<1>10. HolderInv'
  <2>1. HolderInv
    BY DEF RegistryInv
  <2> QED BY <2>1, <1>8, <1>9, SomeMove
<1> QED BY <1>2, <1>3, <1>10 DEF RegistryInv

-----------------------------------------------------------------------------
(* The theorem                                                             *)

LEMMA RegistryNext == RegistryInv /\ [Next]_vars => RegistryInv'
<1> SUFFICES ASSUME RegistryInv, [Next]_vars PROVE RegistryInv'
  OBVIOUS
<1>1. ASSUME NEW a \in Agents, FallSilent(a) \/ Heartbeat(a) \/ DeleteRow(a)
      PROVE RegistryInv'
  BY <1>1, QuietSteps DEF QuietStep
<1>2. CASE Sweep
  BY <1>2, QuietSteps DEF QuietStep
<1>3. ASSUME NEW a \in Agents, RegisterStore(a) PROVE RegistryInv'
  BY <1>3, QuietSteps DEF QuietStep
<1>4. ASSUME NEW s \in Streams,
             StreamFirst(s) \/ StreamBatch(s) \/ StreamEnd(s) \/ SenderExit(s)
      PROVE RegistryInv'
  BY <1>4, QuietSteps DEF QuietStep
<1>5. CASE Register
  BY <1>3, <1>5, TakeStep, SendStep, FullStep, ExitStep DEF Register, FlushPanics
<1>6. CASE Stream
  BY <1>4, <1>6, ServeStep DEF Stream
<1>7. CASE Sender
  BY <1>4, <1>7, RecvStep, HandStep DEF Sender
<1>8. CASE Api
  BY <1>8, CommandStep, DeleteStep DEF Api
<1>9. CASE ManagerExit
  BY <1>9, ExitStep DEF ManagerExit
<1>10. CASE UNCHANGED vars
  <2>1. UNCHANGED <<heap, cmdChan, regPc, regChan, strPc, strAgent, strChan, sndPc,
                    commands>>
    BY <1>10 DEF vars, registry, regs, strs, fate, commands, ends
  <2>2. RegistryType'
    BY <2>1 DEF RegistryInv, RegistryType, commands
  <2>3. HandsInv' /\ DistinctInv'
    BY <2>1 DEF RegistryInv, HandsInv, DistinctInv, Distinct, commands
  <2>4. \A c \in Cmds : Chans(c)' = Chans(c)
    BY <2>1 DEF Chans, SetOf
  <2> QED BY <2>1, <2>2, <2>3, <2>4, NothingMoves DEF RegistryInv
<1> QED BY <1>1, <1>2, <1>5, <1>6, <1>7, <1>8, <1>9, <1>10 DEF Next, Table

\* In a queue without repetition, one position or none.
LEMMA OnePosition ==
    ASSUME NEW p, NEW o, NEW s, NEW c
    PROVE  /\ c \notin SetOf(s) => At(p, o, s, c) = {}
           /\ Distinct(s) /\ c \in SetOf(s) => \E x : At(p, o, s, c) = {x}
<1>1. ASSUME c \notin SetOf(s) PROVE At(p, o, s, c) = {}
  BY <1>1 DEF At, SetOf
<1>2. ASSUME Distinct(s), c \in SetOf(s) PROVE \E x : At(p, o, s, c) = {x}
  <2>1. PICK i \in 1..Len(s) : s[i] = c
    BY <1>2 DEF SetOf
  <2>2. {j \in 1..Len(s) : s[j] = c} = {i}
    BY <1>2, <2>1 DEF Distinct
  <2>3. At(p, o, s, c) = {<<p, o, i>>}
    BY <2>2 DEF At
  <2> QED BY <2>3
<1> QED BY <1>1, <1>2

LEMMA OneHolderOnePlace == RegistryInv => OnePlace
<1> SUFFICES ASSUME RegistryInv, NEW c \in Cmds
             PROVE IF c < nextCmd THEN Cardinality(Places(c)) = 1 ELSE Places(c) = {}
  BY DEF OnePlace
<1> DEFINE chans == UNION {At("chan", k, heap[k].buf, c) : k \in 1..Len(heap)}
           queues == UNION {At("pending", a, pending[a], c) : a \in Agents}
           flushes == UNION {At("flush", a, regCmds[a], c) : a \in Agents}
           senders == {<<"sender", s>> : s \in {s \in Streams : sndCmd[s] = c}}
           lasts == {x \in {<<"delivered">>} : c \in delivered}
                    \cup {x \in {<<"discarded">>} : c \in discarded}
                    \cup {x \in {<<"evicted">>} : c \in evicted}
                    \cup {x \in {<<"forgotten">>} : c \in forgotten}
<1>1. Places(c) = chans \cup queues \cup flushes \cup senders \cup lasts
  <2> DEFINE A == {At("chan", k, heap[k].buf, c) : k \in 1..Len(heap)}
             B == {At("pending", a, pending[a], c) : a \in Agents}
             C == {At("flush", a, regCmds[a], c) : a \in Agents}
  <2>1. Places(c) = (UNION (A \cup B \cup C)) \cup senders \cup lasts
    BY DEF Places
  <2>2. chans = UNION A /\ queues = UNION B /\ flushes = UNION C
    OBVIOUS
  <2> HIDE DEF A, B, C, chans, queues, flushes, senders, lasts
  <2>3. UNION (A \cup B \cup C) = (UNION A) \cup (UNION B) \cup (UNION C)
    OBVIOUS
  <2> QED BY <2>1, <2>2, <2>3
<1>2. /\ Chans(c) = {} => chans = {}
      /\ \A k : Chans(c) = {k} => \E x : chans = {x}
  <2>1. \A k \in 1..Len(heap) : k \notin Chans(c) => At("chan", k, heap[k].buf, c) = {}
    BY OnePosition DEF Chans
  <2>2. \A k \in Chans(c) : \E x : At("chan", k, heap[k].buf, c) = {x}
    BY OnePosition DEF Chans, RegistryInv, DistinctInv
  <2>3. Chans(c) \subseteq 1..Len(heap)
    BY DEF Chans
  <2>4. ASSUME NEW k, Chans(c) = {k} PROVE chans = At("chan", k, heap[k].buf, c)
    BY <2>1, <2>3, <2>4
  <2>5. Chans(c) = {} => chans = {}
    BY <2>1
  <2>6. ASSUME NEW k, Chans(c) = {k} PROVE \E x : chans = {x}
    BY <2>2, <2>4, <2>6
  <2> QED BY <2>5, <2>6
<1>3. /\ Queued(c) = {} => queues = {}
      /\ \A a : Queued(c) = {a} => \E x : queues = {x}
  <2>1. \A a \in Agents : a \notin Queued(c) => At("pending", a, pending[a], c) = {}
    BY OnePosition DEF Queued
  <2>2. \A a \in Queued(c) : \E x : At("pending", a, pending[a], c) = {x}
    BY OnePosition DEF Queued, RegistryInv, DistinctInv
  <2>3. Queued(c) \subseteq Agents
    BY DEF Queued
  <2>4. ASSUME NEW a, Queued(c) = {a} PROVE queues = At("pending", a, pending[a], c)
    BY <2>1, <2>3, <2>4
  <2>5. Queued(c) = {} => queues = {}
    BY <2>1
  <2>6. ASSUME NEW a, Queued(c) = {a} PROVE \E x : queues = {x}
    BY <2>2, <2>4, <2>6
  <2> QED BY <2>5, <2>6
<1>4. /\ Flushed(c) = {} => flushes = {}
      /\ \A a : Flushed(c) = {a} => \E x : flushes = {x}
  <2>1. \A a \in Agents : a \notin Flushed(c) => At("flush", a, regCmds[a], c) = {}
    BY OnePosition DEF Flushed
  <2>2. \A a \in Flushed(c) : \E x : At("flush", a, regCmds[a], c) = {x}
    BY OnePosition DEF Flushed, RegistryInv, DistinctInv
  <2>3. Flushed(c) \subseteq Agents
    BY DEF Flushed
  <2>4. ASSUME NEW a, Flushed(c) = {a} PROVE flushes = At("flush", a, regCmds[a], c)
    BY <2>1, <2>3, <2>4
  <2>5. Flushed(c) = {} => flushes = {}
    BY <2>1
  <2>6. ASSUME NEW a, Flushed(c) = {a} PROVE \E x : flushes = {x}
    BY <2>2, <2>4, <2>6
  <2> QED BY <2>5, <2>6
<1>5. /\ Senders(c) = {} => senders = {}
      /\ \A s : Senders(c) = {s} => \E x : senders = {x}
  <2>1. senders = {<<"sender", s>> : s \in Senders(c)}
    BY DEF Senders
  <2> HIDE DEF senders
  <2>2. Senders(c) = {} => senders = {}
    BY <2>1
  <2>3. ASSUME NEW s, Senders(c) = {s} PROVE senders = {<<"sender", s>>}
    BY <2>1, <2>3
  <2> QED BY <2>2, <2>3
<1>6. /\ Ends(c) = {} => lasts = {}
      /\ \A e : Ends(c) = {e} => \E x : lasts = {x}
  <2>1. lasts = {<<e>> : e \in Ends(c)}
    <3>1. \A y : y \in lasts <=>
             \/ y = <<"delivered">> /\ c \in delivered
             \/ y = <<"discarded">> /\ c \in discarded
             \/ y = <<"evicted">> /\ c \in evicted
             \/ y = <<"forgotten">> /\ c \in forgotten
      OBVIOUS
    <3>2. \A e : e \in Ends(c) <=>
             \/ e = "delivered" /\ c \in delivered
             \/ e = "discarded" /\ c \in discarded
             \/ e = "evicted" /\ c \in evicted
             \/ e = "forgotten" /\ c \in forgotten
      BY DEF Ends
    <3> HIDE DEF lasts
    <3>3. ASSUME NEW y PROVE y \in lasts <=> \E e \in Ends(c) : y = <<e>>
      BY <3>1, <3>2
    <3> QED BY <3>3
  <2> HIDE DEF lasts
  <2>2. Ends(c) = {} => lasts = {}
    BY <2>1
  <2>3. ASSUME NEW e, Ends(c) = {e} PROVE lasts = {<<e>>}
    BY <2>1, <2>3
  <2> QED BY <2>2, <2>3
<1> HIDE DEF chans, queues, flushes, senders, lasts
<1>7. CASE c < nextCmd
  <2>1. OneHolder(c)
    BY <1>7 DEF RegistryInv, HolderInv
  <2>2. \E x : Places(c) = {x}
    BY <2>1, <1>1, <1>2, <1>3, <1>4, <1>5, <1>6 DEF OneHolder, One, None
  <2> QED BY <1>7, <2>2, FS_Singleton
<1>8. CASE ~(c < nextCmd)
  <2>1. NoHolder(c)
    BY <1>8 DEF RegistryInv, HolderInv
  <2> QED BY <1>8, <2>1, <1>1, <1>2, <1>3, <1>4, <1>5, <1>6 DEF NoHolder, None
<1> QED BY <1>7, <1>8

\* registry.go, handler.go: whatever the order of registrations, streams,
\* flushes, commands, deletions and exits, a command sent to an agent is in
\* one place: no two of them handle it, and it is lost only in a named way.
THEOREM CommandInOnePlace == Spec => []OnePlace
<1>1. Init => RegistryInv
  BY RegistryInit
<1>2. RegistryInv /\ [Next]_vars => RegistryInv'
  BY RegistryNext
<1>3. RegistryInv => OnePlace
  BY OneHolderOnePlace
<1> QED BY <1>1, <1>2, <1>3, PTL DEF Spec

(***************************************************************************)
(* The tables of records                                                   *)
(*                                                                         *)
(* The four tables share nothing, so each has an invariant of its own and  *)
(* a step of another table leaves it alone.                                *)
(***************************************************************************)

-----------------------------------------------------------------------------
(* The audit log.  A record continues the one before it, or it is the      *)
(* first of its manager's run; runs follow each other; and a record is     *)
(* with one handler, in the index, erased or dropped.                      *)

Records == 1..Len(issued)

AuditTypes ==
    /\ issued \in Seq([prev : Nat, manager : Nat]) /\ prevHash \in Nat /\ manager \in Nat
    /\ logging \in [Loggers -> Nat] /\ indexed \subseteq Records /\ erased \subseteq Records

\* What record r says of the records before it.
Continues(r) ==
    \/ /\ issued[r].prev = Genesis
       /\ \A q \in Records : q < r => issued[q].manager < issued[r].manager
    \/ /\ issued[r].prev = r - 1 /\ r > 1
       /\ issued[r - 1].manager = issued[r].manager

ChainInv ==
    /\ \A r \in Records : Continues(r) /\ issued[r].manager <= manager
    /\ \A q, r \in Records : q < r => issued[q].manager <= issued[r].manager
    /\ \/ prevHash = Genesis /\ \A r \in Records : issued[r].manager < manager
       \/ prevHash = Len(issued) /\ prevHash > 0 /\ issued[prevHash].manager = manager

PlacesInv ==
    /\ indexed \cap erased = {}
    /\ \A c \in Loggers : logging[c] # Genesis =>
         /\ logging[c] \in Records \ (indexed \cup erased)
         /\ \A d \in Loggers : logging[d] = logging[c] => c = d

AuditInv == AuditTypes /\ ChainInv /\ PlacesInv

LEMMA LogKeeps ==
    ASSUME AuditInv, NEW c \in Loggers, Log(c) PROVE AuditInv'
<1>n. PICK n \in Nat : n = Len(issued)
  BY LenProperties DEF AuditInv, AuditTypes
<1> DEFINE new == [prev |-> prevHash, manager |-> manager]
<1>1. /\ issued' = Append(issued, new) /\ new \in [prev : Nat, manager : Nat]
      /\ prevHash' = Len(issued') /\ logging' = [logging EXCEPT ![c] = Len(issued')]
      /\ logging[c] = Genesis /\ UNCHANGED <<manager, indexed, erased>>
  BY DEF AuditInv, AuditTypes, Log
<1>2. /\ n \in Nat /\ issued' \in Seq([prev : Nat, manager : Nat]) /\ Len(issued') = n + 1
      /\ \A r \in 1..n : issued'[r] = issued[r]
      /\ issued'[n + 1] = new
  BY <1>n, <1>1, AppendProperties DEF AuditInv, AuditTypes
<1>3. Records' = 1..(n + 1) /\ Records = 1..n
  BY <1>n, <1>2 DEF Records
<1>4. AuditTypes'
  BY <1>1, <1>2, <1>3 DEF AuditInv, AuditTypes
<1>5. ChainInv'
  <2>1. \A r \in 1..n : issued[r].manager \in Nat /\ issued[r].prev \in Nat
    <3>1. \A r \in 1..n : issued[r] \in [prev : Nat, manager : Nat]
      BY <1>n, ElementOfSeq DEF AuditInv, AuditTypes
    <3> QED BY <3>1
  <2>2. ASSUME NEW r \in 1..n PROVE Continues(r)' /\ issued'[r].manager <= manager'
    <3>1. Continues(r) /\ issued[r].manager <= manager
      BY <1>3 DEF AuditInv, ChainInv
    <3>2. \A q \in 1..(n + 1) : q < r => issued'[q] = issued[q] /\ q \in 1..n
      <4>1. \A q \in 1..(n + 1) : q < r => q \in 1..n
        OBVIOUS
      <4> QED BY <1>2, <4>1
    <3>3. r > 1 => issued'[r - 1] = issued[r - 1]
      <4>1. r > 1 => r - 1 \in 1..n
        BY <1>2
      <4> QED BY <1>2, <4>1
    <3> QED BY <1>1, <1>2, <1>3, <3>1, <3>2, <3>3 DEF Continues
  <2>3. Continues(n + 1)' /\ issued'[n + 1].manager = manager'
    <3>1. issued'[n + 1].prev = prevHash /\ issued'[n + 1].manager = manager /\ manager' = manager
      BY <1>1, <1>2
    <3>2. CASE prevHash = Genesis /\ \A r \in Records : issued[r].manager < manager
      <4>1. \A q \in 1..(n + 1) : q < n + 1 => q \in 1..n
        BY <1>2
      <4>2. \A q \in 1..n : issued'[q].manager < issued'[n + 1].manager
        BY <1>2, <1>3, <3>1, <3>2
      <4> QED BY <1>3, <3>1, <3>2, <4>1, <4>2 DEF Continues
    <3>3. CASE prevHash = Len(issued) /\ prevHash > 0 /\ issued[prevHash].manager = manager
      BY <1>n, <1>2, <1>3, <3>1, <3>3 DEF Continues
    <3> QED BY <3>2, <3>3 DEF AuditInv, ChainInv
  <2>4. ASSUME NEW q \in 1..(n + 1), NEW r \in 1..(n + 1), q < r
        PROVE  issued'[q].manager <= issued'[r].manager
    <3>1. q \in 1..n /\ issued'[q] = issued[q] /\ issued[q].manager <= manager
      BY <1>2, <1>3, <2>4 DEF AuditInv, ChainInv
    <3>2. CASE r = n + 1
      BY <1>1, <2>3, <3>1, <3>2
    <3>3. CASE r \in 1..n
      BY <1>2, <1>3, <2>4, <3>1, <3>3 DEF AuditInv, ChainInv
    <3> QED BY <1>2, <3>2, <3>3
  <2>5. \A r \in 1..(n + 1) : Continues(r)' /\ issued'[r].manager <= manager'
    <3>1. manager' \in Nat
      BY <1>1 DEF AuditInv, AuditTypes
    <3>2. \A r \in 1..(n + 1) : r \in 1..n \/ r = n + 1
      BY <1>2
    <3>3. issued'[n + 1].manager <= manager'
      BY <2>3, <3>1
    <3> QED BY <2>2, <2>3, <3>2, <3>3
  <2>6. prevHash' = Len(issued') /\ prevHash' > 0 /\ issued'[prevHash'].manager = manager'
    BY <1>1, <1>2, <2>3
  <2> QED BY <1>3, <2>4, <2>5, <2>6 DEF ChainInv
<1>6. PlacesInv'
  <2>1. \A d \in Loggers : logging'[d] = IF d = c THEN n + 1 ELSE logging[d]
    BY <1>1, <1>2 DEF AuditInv, AuditTypes
  <2>2. \A d \in Loggers : logging[d] # Genesis => logging[d] \in 1..n
    BY <1>3 DEF AuditInv, PlacesInv
  <2>3. /\ n + 1 \notin indexed \cup erased /\ n + 1 # Genesis
        /\ n + 1 \notin 1..n /\ 1..n \subseteq 1..(n + 1)
    BY <1>2, <1>3 DEF AuditInv, AuditTypes, Genesis
  <2>4. n + 1 \in 1..(n + 1)
    BY <1>2
  <2> QED BY <1>1, <1>3, <2>1, <2>2, <2>3, <2>4 DEF AuditInv, PlacesInv
<1> QED BY <1>4, <1>5, <1>6 DEF AuditInv

LEMMA IngestKeeps ==
    ASSUME AuditInv, NEW c \in Loggers, Ingest(c) PROVE AuditInv'
<1> USE DEF AuditInv
<1>1. /\ logging' = [logging EXCEPT ![c] = Genesis] /\ logging[c] # Genesis
      /\ indexed' = indexed \/ indexed' = indexed \cup {logging[c]}
      /\ UNCHANGED <<prevHash, manager, issued, erased>>
  BY DEF Ingest
<1>2. Records' = Records /\ logging[c] \in Records \ (indexed \cup erased)
  BY <1>1 DEF Records, PlacesInv
<1>3. AuditTypes'
  BY <1>1, <1>2 DEF AuditTypes, Genesis
<1>4. ChainInv'
  BY <1>1, <1>2 DEF ChainInv, Continues
<1>5. PlacesInv'
  <2>1. \A d \in Loggers : logging'[d] = IF d = c THEN Genesis ELSE logging[d]
    BY <1>1 DEF AuditTypes
  <2>2. indexed' \cap erased' = {} /\ indexed' \subseteq indexed \cup {logging[c]}
    BY <1>1, <1>2 DEF PlacesInv
  <2> QED BY <1>1, <1>2, <2>1, <2>2 DEF PlacesInv
<1> QED BY <1>3, <1>4, <1>5

LEMMA RestartLoggerKeeps ==
    ASSUME AuditInv, RestartLogger PROVE AuditInv'
<1> USE DEF AuditInv
<1>1. /\ manager' = manager + 1 /\ prevHash' = Genesis
      /\ logging' = [c \in Loggers |-> Genesis]
      /\ UNCHANGED <<issued, indexed, erased>>
  BY DEF RestartLogger
<1>2. Records' = Records /\ \A r \in Records : issued[r].manager \in Nat
  <2>1. \A r \in Records : issued[r] \in [prev : Nat, manager : Nat]
    BY ElementOfSeq DEF AuditTypes, Records
  <2> QED BY <1>1, <2>1 DEF Records
<1>3. AuditTypes'
  BY <1>1, <1>2 DEF AuditTypes, Genesis
<1>4. ChainInv'
  <2>1. \A r \in Records : issued[r].manager <= manager /\ issued[r].manager < manager + 1
    BY <1>2 DEF ChainInv, AuditTypes
  <2>2. \A r \in Records : Continues(r)' /\ issued'[r].manager <= manager'
    <3>1. \A r \in Records : Continues(r)
      BY DEF ChainInv
    <3>2. \A r \in Records : Continues(r)' = Continues(r)
      BY <1>1, <1>2 DEF Continues
    <3>3. manager + 1 \in Nat /\ \A r \in Records : issued[r].manager <= manager + 1
      BY <1>2, <2>1 DEF AuditTypes
    <3> QED BY <1>1, <3>1, <3>2, <3>3
  <2>3. \A q, r \in Records : q < r => issued[q].manager <= issued[r].manager
    BY DEF ChainInv
  <2> QED BY <1>1, <1>2, <2>1, <2>2, <2>3 DEF ChainInv
<1>5. PlacesInv'
  BY <1>1, <1>2 DEF PlacesInv
<1> QED BY <1>3, <1>4, <1>5

LEMMA EraseKeeps ==
    ASSUME AuditInv, Erase PROVE AuditInv'
<1> USE DEF AuditInv
<1>1. PICK r \in indexed : indexed' = indexed \ {r} /\ erased' = erased \cup {r}
  BY DEF Erase
<1>2. UNCHANGED <<prevHash, manager, issued, logging, Records>>
  BY DEF Erase, Records
<1>3. AuditTypes'
  BY <1>1, <1>2 DEF AuditTypes
<1>4. ChainInv'
  BY <1>2 DEF ChainInv, Continues
<1>5. PlacesInv'
  BY <1>1, <1>2 DEF PlacesInv
<1> QED BY <1>3, <1>4, <1>5

LEMMA AuditKeeps ==
    ASSUME AuditInv, AuditStep \/ UNCHANGED auditVars PROVE AuditInv'
<1>1. CASE UNCHANGED auditVars
  BY <1>1 DEF auditVars, AuditInv, AuditTypes, ChainInv, PlacesInv, Continues, Records
<1> QED BY <1>1, LogKeeps, IngestKeeps, RestartLoggerKeeps, EraseKeeps DEF AuditStep

\* A non-empty set of naturals has a least element.
LEMMA LeastOf ==
    ASSUME NEW S, S \subseteq Nat, S # {}
    PROVE  \E x \in S : \A y \in S : x <= y
<1> DEFINE R == {p \in Nat \X Nat : p[1] < p[2]}
<1>1. IsWellFoundedOn(R, Nat)
  BY NatLessThanWellFounded, Zenon DEF OpToRel
<1>2. PICK x \in S : \A y \in S : ~ (<<y, x>> \in R)
  BY <1>1, WFMin
<1>3. ASSUME NEW y \in S PROVE x <= y
  <2>1. y < x => <<y, x>> \in R
    BY <1>2
  <2> QED BY <1>2, <2>1
<1> QED BY <1>3

\* The oldest record after an erased one continues it, or one that was dropped.
LEMMA ChainTells == AuditInv => ChainTellsTampering
<1> SUFFICES ASSUME AuditInv PROVE ChainTellsTampering
  OBVIOUS
<1> USE DEF AuditInv
<1>1. DOMAIN issued = Records /\ Len(issued) \in Nat
  BY LenProperties DEF AuditTypes, Records
<1>2. \A r \in Records : issued[r].manager \in Nat /\ issued[r].prev \in Nat /\ r \in Nat
  <2>1. \A r \in Records : issued[r] \in [prev : Nat, manager : Nat]
    BY ElementOfSeq DEF AuditTypes, Records
  <2> QED BY <1>1, <2>1 DEF Records
<1>3. ASSUME NEW q \in Records, NEW r \in Records, q < r,
             issued[q].manager = issued[r].manager
      PROVE  issued[r].prev = r - 1 /\ issued[r - 1].manager = issued[r].manager
  BY <1>2, <1>3 DEF ChainInv, Continues
<1>4. ASSUME NEW q \in Records, NEW r \in Records, q < r,
             issued[q].manager = issued[r].manager
      PROVE  issued[q].prev # issued[r].prev
  <2>1. issued[r].prev = r - 1
    BY <1>3, <1>4
  <2>2. issued[q].prev = 0 \/ issued[q].prev = q - 1
    BY DEF ChainInv, Continues, Genesis
  <2>3. q \in Nat /\ r \in Nat /\ q >= 1
    BY DEF Records
  <2> QED BY <1>4, <2>1, <2>2, <2>3
<1>5. \A r, s \in Records :
         r # s /\ issued[r].manager = issued[s].manager => issued[r].prev # issued[s].prev
  <2>1. \A r, s \in Records : r = s \/ r < s \/ s < r
    BY DEF Records
  <2> QED BY <1>4, <2>1
<1>6. ASSUME NEW e \in erased,
             {r \in indexed : r > e /\ issued[r].manager = issued[e].manager} # {}
      PROVE  \E r \in indexed : /\ r > e /\ issued[r].manager = issued[e].manager
                                /\ issued[r].prev # Genesis /\ issued[r].prev \notin indexed
  <2> DEFINE after == {r \in indexed : r > e /\ issued[r].manager = issued[e].manager}
  <2>1. after \subseteq Nat
    BY <1>2 DEF AuditTypes
  <2>2. PICK r \in after : \A s \in after : r <= s
    BY <2>1, <1>6, LeastOf
  <2>3. /\ e \in Records /\ e \notin indexed /\ e \in Nat /\ e >= 1
        /\ r \in Records /\ r \in Nat /\ e < r
    BY <2>1, <2>2, <1>2 DEF AuditTypes, PlacesInv, Records
  <2>4. issued[r].prev = r - 1 /\ issued[r - 1].manager = issued[r].manager
    BY <1>3, <2>2, <2>3
  <2>5. ASSUME r - 1 \in indexed PROVE FALSE
    <3>1. r - 1 # e
      BY <2>3, <2>5
    <3>2. r - 1 > e
      BY <2>3, <3>1
    <3>3. r - 1 \in after
      BY <2>2, <2>4, <2>5, <3>2
    <3> QED BY <2>2, <2>3, <3>3
  <2>6. r - 1 # Genesis
    BY <2>3 DEF Genesis
  <2> QED BY <2>2, <2>4, <2>5, <2>6
<1> QED BY <1>1, <1>5, <1>6 DEF ChainTellsTampering

-----------------------------------------------------------------------------
(* The versions of a rule file.  A save that knows the highest version     *)
(* found nothing above it among the rows that were there when it read; and *)
(* no version is higher than the number of rows.                           *)

Row == [version : Nat, sure : BOOLEAN, began : Nat]
Rows == 1..Len(ruleVersions)
Savings == Savers \cup {Seeder}

VersionTypes ==
    /\ ruleVersions \in Seq(Row)
    /\ saving \in [Savings -> [pc : {"rest", "absent", "insert", "done"}, max : Nat,
                               sure : BOOLEAN, began : Nat]]

VersionInv ==
    /\ VersionTypes
    /\ \A s \in Savings : saving[s].pc = "insert" =>
         /\ saving[s].max <= saving[s].began /\ saving[s].began <= Len(ruleVersions)
         /\ saving[s].sure =>
              \A i \in Rows : i <= saving[s].began => ruleVersions[i].version <= saving[s].max
    /\ \A j \in Rows :
         /\ ruleVersions[j].began < j /\ ruleVersions[j].version <= j
         /\ ruleVersions[j].sure =>
              \A i \in Rows : i <= ruleVersions[j].began =>
                              ruleVersions[i].version < ruleVersions[j].version

LEMMA RowsTyped ==
    ASSUME VersionTypes
    PROVE  /\ Len(ruleVersions) \in Nat /\ DOMAIN ruleVersions = Rows
           /\ \A i \in Rows : ruleVersions[i] \in Row
  BY ElementOfSeq, LenProperties DEF VersionTypes, Rows

LEMMA HighestIs ==
    ASSUME VersionInv
    PROVE  /\ Highest \in 0..Len(ruleVersions)
           /\ \A i \in Rows : ruleVersions[i].version <= Highest
<1>1. PICK n \in Nat : n = Len(ruleVersions)
  BY RowsTyped DEF VersionInv
<1> DEFINE V == {ruleVersions[i].version : i \in DOMAIN ruleVersions} \cup {0}
           Above == {u \in Nat : \A v \in V : v <= u}
<1>2. V \subseteq 0..n /\ 0 \in V /\ \A i \in Rows : ruleVersions[i].version \in V
  <2>1. \A i \in Rows : ruleVersions[i].version \in 0..n
    BY <1>1, RowsTyped DEF VersionInv, Row, Rows
  <2> QED BY <1>1, <2>1, RowsTyped DEF VersionInv
<1> HIDE DEF V
<1>3. Above \subseteq Nat /\ n \in Above
  <2>1. \A v \in V : v <= n
    BY <1>2
  <2> QED BY <1>1, <2>1
<1>4. PICK m \in Above : \A u \in Above : m <= u
  BY <1>3, LeastOf
<1>5. m \in V
  <2> SUFFICES ASSUME m \notin V PROVE FALSE
    OBVIOUS
  <2>1. m \in Nat /\ m # 0 /\ \A v \in V : v \in Nat /\ v <= m /\ v # m
    BY <1>2
  <2>2. m - 1 \in Nat /\ \A v \in V : v <= m - 1
    BY <2>1
  <2> QED BY <1>4, <2>1, <2>2
<1>6. \E x \in V : \A y \in V : x >= y
  BY <1>2, <1>5
<1>7. Max(V) \in V /\ \A y \in V : Max(V) >= y
  BY <1>6 DEF Max
<1>8. Highest = Max(V)
  BY DEF Highest, V
<1> QED BY <1>1, <1>2, <1>7, <1>8

LEMMA ReadMaxKeeps ==
    ASSUME VersionInv, NEW s \in Savings, ReadMax(s) PROVE VersionInv'
<1>1. PICK m \in 0..Len(ruleVersions), ok \in BOOLEAN :
         /\ ok => \A i \in Rows : ruleVersions[i].version <= m
         /\ saving' = [saving EXCEPT ![s] =
              [pc |-> "insert", max |-> m, sure |-> ok, began |-> Len(ruleVersions)]]
  <2>1. Len(ruleVersions) \in Nat
    BY RowsTyped DEF VersionInv
  <2>2. 0 \in 0..Len(ruleVersions)
    BY <2>1
  <2> HIDE DEF Highest
  <2> QED BY <2>2, HighestIs DEF ReadMax
<1>2. UNCHANGED <<ruleVersions, Rows>> /\ Len(ruleVersions) \in Nat
  BY RowsTyped DEF ReadMax, Rows, VersionInv
<1>3. \A t \in Savings : saving'[t] =
         IF t = s THEN [pc |-> "insert", max |-> m, sure |-> ok, began |-> Len(ruleVersions)]
         ELSE saving[t]
  BY <1>1 DEF VersionInv, VersionTypes
<1>4. VersionTypes'
  BY <1>1, <1>2 DEF VersionInv, VersionTypes
<1>5. ASSUME NEW t \in Savings, saving'[t].pc = "insert"
      PROVE  /\ saving'[t].max <= saving'[t].began /\ saving'[t].began <= Len(ruleVersions)
             /\ saving'[t].sure =>
                  \A i \in Rows : i <= saving'[t].began => ruleVersions[i].version <= saving'[t].max
  <2>1. CASE t = s
    BY <1>1, <1>2, <1>3, <2>1
  <2>2. CASE t # s
    BY <1>3, <1>5, <2>2 DEF VersionInv
  <2> QED BY <2>1, <2>2
<1> QED BY <1>2, <1>4, <1>5 DEF VersionInv

LEMMA InsertRowKeeps ==
    ASSUME VersionInv, NEW s \in Savings, InsertRow(s) PROVE VersionInv'
<1> DEFINE new == [version |-> saving[s].max + 1, sure |-> saving[s].sure,
                   began |-> saving[s].began]
           done == [NotSaving EXCEPT !.pc = IF s = Seeder THEN "done" ELSE "rest"]
<1>1. PICK n \in Nat : n = Len(ruleVersions)
  BY RowsTyped DEF VersionInv
<1>2. /\ saving[s].pc = "insert" /\ ruleVersions' = Append(ruleVersions, new)
      /\ saving' = [saving EXCEPT ![s] = done]
  BY DEF InsertRow
<1>3. /\ saving[s].max \in Nat /\ saving[s].sure \in BOOLEAN /\ saving[s].began \in Nat
      /\ new \in Row
  BY DEF VersionInv, VersionTypes, Row
<1>4. /\ ruleVersions' \in Seq(Row) /\ Len(ruleVersions') = n + 1
      /\ \A i \in 1..n : ruleVersions'[i] = ruleVersions[i]
      /\ ruleVersions'[n + 1] = new
  BY <1>1, <1>2, <1>3, AppendProperties DEF VersionInv, VersionTypes
<1>5. Rows = 1..n /\ Rows' = 1..(n + 1)
  BY <1>1, <1>4 DEF Rows
<1>6. done \in [pc : {"rest", "absent", "insert", "done"}, max : Nat,
                sure : BOOLEAN, began : Nat] /\ done.pc # "insert"
  BY DEF NotSaving
<1> HIDE DEF done
<1>7. /\ VersionTypes'
      /\ \A t \in Savings : saving'[t] = IF t = s THEN done ELSE saving[t]
  BY <1>2, <1>4, <1>6 DEF VersionInv, VersionTypes
<1>8. ASSUME NEW t \in Savings, saving'[t].pc = "insert"
      PROVE  /\ saving'[t].max <= saving'[t].began /\ saving'[t].began <= n + 1
             /\ saving'[t].sure => \A i \in 1..(n + 1) :
                  i <= saving'[t].began => ruleVersions'[i].version <= saving'[t].max
  <2>1. saving'[t] = saving[t] /\ saving[t].pc = "insert"
    BY <1>6, <1>7, <1>8
  <2>2. /\ saving[t].max <= saving[t].began /\ saving[t].began <= n
        /\ saving[t].began \in Nat
    BY <1>1, <2>1 DEF VersionInv, VersionTypes
  <2>3. saving[t].sure => \A i \in 1..n :
          i <= saving[t].began => ruleVersions[i].version <= saving[t].max
    BY <1>5, <2>1 DEF VersionInv
  <2>4. \A i \in 1..(n + 1) : i <= saving[t].began => i \in 1..n
    BY <2>2
  <2>5. saving[t].began <= n + 1
    BY <2>2
  <2> QED BY <1>4, <2>1, <2>2, <2>3, <2>4, <2>5
<1>9. ASSUME NEW j \in 1..(n + 1)
      PROVE  /\ ruleVersions'[j].began < j /\ ruleVersions'[j].version <= j
             /\ ruleVersions'[j].sure => \A i \in 1..(n + 1) :
                  i <= ruleVersions'[j].began => ruleVersions'[i].version < ruleVersions'[j].version
  <2>1. CASE j \in 1..n
    <3>1. /\ ruleVersions[j].began < j /\ ruleVersions[j].version <= j /\ ruleVersions[j].began \in Nat
          /\ ruleVersions[j].sure => \A i \in 1..n :
               i <= ruleVersions[j].began => ruleVersions[i].version < ruleVersions[j].version
      BY <1>5, <2>1, RowsTyped DEF VersionInv, Row
    <3>2. ruleVersions'[j] = ruleVersions[j]
      BY <1>4, <2>1
    <3>3. \A i \in 1..(n + 1) : i <= ruleVersions[j].began => i \in 1..n
      BY <2>1, <3>1
    <3> QED BY <1>4, <3>1, <3>2, <3>3
  <2>2. CASE j = n + 1
    <3>1. /\ saving[s].max <= saving[s].began /\ saving[s].began <= n
          /\ saving[s].sure => \A i \in 1..n :
               i <= saving[s].began => ruleVersions[i].version <= saving[s].max
      BY <1>1, <1>2, <1>5 DEF VersionInv
    <3>2. \A i \in 1..n : ruleVersions[i].version \in Nat
      BY <1>5, RowsTyped DEF VersionInv, Row
    <3>3. \A i \in 1..(n + 1) : i <= saving[s].began => i \in 1..n
      BY <1>3, <3>1
    <3>4. ruleVersions'[j].version = saving[s].max + 1 /\ ruleVersions'[j].sure = saving[s].sure
          /\ ruleVersions'[j].began = saving[s].began
      BY <1>4, <2>2
    <3>5. saving[s].sure => \A i \in 1..(n + 1) :
            i <= saving[s].began => ruleVersions'[i].version < saving[s].max + 1
      BY <1>3, <1>4, <3>1, <3>2, <3>3
    <3> QED BY <1>3, <2>2, <3>1, <3>4, <3>5
  <2>3. j \in 1..n \/ j = n + 1
    OBVIOUS
  <2> QED BY <2>1, <2>2, <2>3
<1> QED BY <1>4, <1>5, <1>7, <1>8, <1>9 DEF VersionInv

LEMMA VersionKeeps ==
    ASSUME VersionInv, VersionStep \/ UNCHANGED versionVars PROVE VersionInv'
<1>1. CASE UNCHANGED versionVars
  BY <1>1 DEF versionVars, VersionInv, VersionTypes, Rows
<1>2. CASE SeedLists
  <2>1. Seeder \in Savings /\ UNCHANGED ruleVersions /\ Rows' = Rows
    BY <1>2 DEF SeedLists, Savings, Rows
  <2>2. PICK to \in {"absent", "done"} : saving' = [saving EXCEPT ![Seeder].pc = to]
    BY <1>2 DEF SeedLists
  <2>3. VersionTypes'
    BY <2>1, <2>2 DEF VersionInv, VersionTypes
  <2>4. \A t \in Savings : saving'[t].pc = "insert" => saving'[t] = saving[t]
    BY <2>1, <2>2 DEF VersionInv, VersionTypes
  <2> QED BY <2>1, <2>3, <2>4 DEF VersionInv
<1> QED BY <1>1, <1>2, ReadMaxKeeps, InsertRowKeeps DEF VersionStep, Savings

-----------------------------------------------------------------------------
(* The roster.  A sync that could list it seeds nobody who was edited      *)
(* before, for whom it lists has no entry.                                 *)

RosterInv ==
    /\ roster \in [Engineers -> {"none", "default", "edited"}]
    /\ syncing \in [Syncs -> [pc : {"rest", "seed"}, left : SUBSET Engineers,
                              listed : BOOLEAN]]
    /\ stale \in [Syncs -> SUBSET Engineers] /\ reset = {}
    /\ \A s \in Syncs : syncing[s].pc = "rest" => syncing[s].left = {}
    /\ \A s \in Syncs : syncing[s].listed =>
         \A e \in syncing[s].left : roster[e] = "edited" => e \in stale[s]

LEMMA RosterKeeps ==
    ASSUME RosterInv, RosterStep \/ UNCHANGED rosterVars PROVE RosterInv'
<1> USE DEF RosterInv
<1>1. CASE UNCHANGED rosterVars
  BY <1>1 DEF rosterVars
<1>2. CASE Edit
  <2>1. PICK e \in Engineers, to \in {"edited", "none"} :
          /\ roster' = [roster EXCEPT ![e] = to]
          /\ stale' = [s \in Syncs |-> IF syncing[s].pc = "seed" THEN stale[s] \cup {e} ELSE {}]
          /\ UNCHANGED <<syncing, reset>>
    BY <1>2 DEF Edit
  <2>2. \A s \in Syncs : syncing[s].left # {} => stale'[s] = stale[s] \cup {e}
    BY <2>1
  <2>3. \A d \in Engineers : d # e => roster'[d] = roster[d]
    BY <2>1
  <2>4. \A s \in Syncs : syncing'[s].listed =>
          \A d \in syncing'[s].left : roster'[d] = "edited" => d \in stale'[s]
    BY <2>1, <2>2, <2>3
  <2> QED BY <2>1, <2>4
<1>3. ASSUME NEW s \in Syncs, ListRoster(s) PROVE RosterInv'
  <2>1. PICK existing \in SUBSET Engineers, ok \in BOOLEAN :
          /\ ok => \A e \in Engineers \ existing : roster[e] = "none"
          /\ syncing' = [syncing EXCEPT ![s] = [pc |-> "seed", listed |-> ok,
                                                left |-> SeedCandidates(existing)]]
    BY <1>3 DEF ListRoster
  <2>2. stale' = [stale EXCEPT ![s] = {}] /\ UNCHANGED <<roster, reset>>
    BY <1>3 DEF ListRoster
  <2>3. SeedCandidates(existing) \subseteq Engineers \ existing
    BY RecordsAssumption DEF SeedCandidates
  <2> HIDE DEF SeedCandidates
  <2>4. \A t \in Syncs : t # s => syncing'[t] = syncing[t] /\ stale'[t] = stale[t]
    BY <2>1, <2>2
  <2>5. /\ syncing'[s].pc = "seed" /\ syncing'[s].listed = ok
        /\ syncing'[s].left = SeedCandidates(existing)
    BY <2>1
  <2>6. /\ syncing' \in [Syncs -> [pc : {"rest", "seed"}, left : SUBSET Engineers,
                                   listed : BOOLEAN]]
        /\ stale' \in [Syncs -> SUBSET Engineers]
    BY <2>1, <2>2, <2>3
  <2>7. ASSUME NEW t \in Syncs
        PROVE  /\ syncing'[t].pc = "rest" => syncing'[t].left = {}
               /\ syncing'[t].listed =>
                    \A e \in syncing'[t].left : roster'[e] = "edited" => e \in stale'[t]
    <3>1. CASE t = s
      BY <3>1, <2>1, <2>2, <2>3, <2>5
    <3>2. CASE t # s
      BY <3>2, <2>2, <2>4
    <3> QED BY <3>1, <3>2
  <2> QED BY <2>2, <2>6, <2>7
<1>4. ASSUME NEW s \in Syncs, SeedEngineer(s) PROVE RosterInv'
  <2>1. PICK e \in syncing[s].left :
          /\ syncing' = [syncing EXCEPT ![s].left = @ \ {e}]
          /\ \/ /\ roster' = [roster EXCEPT ![e] = "default"]
                /\ reset' = IF roster[e] = "edited" /\ syncing[s].listed /\ e \notin stale[s]
                            THEN reset \cup {e} ELSE reset
             \/ UNCHANGED <<roster, reset>>
    BY <1>4 DEF SeedEngineer
  <2>2. UNCHANGED stale
    BY <1>4 DEF SeedEngineer
  <2>3. e \in Engineers /\ reset' = {}
    BY <2>1
  <2>4. /\ roster' \in [Engineers -> {"none", "default", "edited"}]
        /\ \A d \in Engineers : roster'[d] = "edited" => roster[d] = "edited"
    BY <2>1, <2>3
  <2>5. \A t \in Syncs : /\ syncing'[t].pc = syncing[t].pc
                         /\ syncing'[t].listed = syncing[t].listed
                         /\ syncing'[t].left \subseteq syncing[t].left
    BY <2>1
  <2>6. syncing' \in [Syncs -> [pc : {"rest", "seed"}, left : SUBSET Engineers,
                                listed : BOOLEAN]]
    BY <2>1
  <2>7. \A t \in Syncs : syncing'[t].pc = "rest" => syncing'[t].left = {}
    BY <2>5
  <2>8. ASSUME NEW t \in Syncs, syncing'[t].listed, NEW d \in syncing'[t].left,
               roster'[d] = "edited"
        PROVE  d \in stale'[t]
    BY <2>2, <2>4, <2>5, <2>8
  <2> QED BY <2>2, <2>3, <2>4, <2>6, <2>7, <2>8
<1>5. ASSUME NEW s \in Syncs, SyncEnds(s) PROVE RosterInv'
  <2>1. /\ syncing' = [syncing EXCEPT ![s] = NotSyncing] /\ stale' = [stale EXCEPT ![s] = {}]
        /\ UNCHANGED <<roster, reset>>
    BY <1>5 DEF SyncEnds
  <2>2. \A t \in Syncs : \/ t # s /\ syncing'[t] = syncing[t] /\ stale'[t] = stale[t]
                         \/ t = s /\ syncing'[t].left = {}
    BY <2>1 DEF NotSyncing
  <2>3. /\ syncing' \in [Syncs -> [pc : {"rest", "seed"}, left : SUBSET Engineers,
                                   listed : BOOLEAN]]
        /\ stale' \in [Syncs -> SUBSET Engineers]
    BY <2>1 DEF NotSyncing
  <2>4. ASSUME NEW t \in Syncs
        PROVE  /\ syncing'[t].pc = "rest" => syncing'[t].left = {}
               /\ syncing'[t].listed =>
                    \A e \in syncing'[t].left : roster'[e] = "edited" => e \in stale'[t]
    BY <2>1, <2>2
  <2> QED BY <2>1, <2>3, <2>4
<1> QED BY <1>1, <1>2, <1>3, <1>4, <1>5 DEF RosterStep

-----------------------------------------------------------------------------
(* The alerts.  Whenever the manager serves and partitions could be made,  *)
(* there is one for this month, and for the next once it was cared for.    *)

AlertInv ==
    /\ alerts \in Seq(Nat) /\ month \in Nat /\ partitions \subseteq Nat
    /\ serving \in BOOLEAN /\ cared \in BOOLEAN /\ ensured \in BOOLEAN
    /\ live = 1..Len(alerts) /\ refused = FALSE
    /\ \A a \in 1..Len(alerts) : alerts[a] \in partitions
    /\ serving /\ ensured => /\ month \in partitions
                             /\ cared => month + 1 \in partitions

LEMMA InsertAlertKeeps == ASSUME AlertInv, InsertAlert PROVE AlertInv'
<1> USE DEF AlertInv
<1>1. serving /\ UNCHANGED <<month, serving, partitions, cared, ensured>>
  BY DEF InsertAlert
<1>2. CASE month \in partitions
  <2>1. PICK n \in Nat : n = Len(alerts)
    BY LenProperties
  <2>2. alerts' = Append(alerts, month) /\ live' = live \cup {Len(alerts')} /\ UNCHANGED refused
    BY <1>2 DEF InsertAlert
  <2>3. /\ alerts' \in Seq(Nat) /\ Len(alerts') = n + 1
        /\ \A a \in 1..n : alerts'[a] = alerts[a]
        /\ alerts'[n + 1] = month
    BY <2>1, <2>2, AppendProperties
  <2>4. live' = 1..(n + 1)
    BY <2>1, <2>2, <2>3
  <2>5. \A a \in 1..(n + 1) : a \in 1..n \/ a = n + 1
    OBVIOUS
  <2>6. \A a \in 1..(n + 1) : alerts'[a] \in partitions
    BY <1>2, <2>1, <2>3, <2>5
  <2> QED BY <1>1, <2>2, <2>3, <2>4, <2>6
<1>3. CASE month \notin partitions
  BY <1>1, <1>3 DEF InsertAlert
<1> QED BY <1>2, <1>3

LEMMA EnsuredCares ==
    ASSUME AlertInv, EnsurePartitions
    PROVE  /\ partitions \subseteq partitions' /\ partitions' \subseteq Nat
           /\ ensured' \in BOOLEAN
           /\ ensured' => month \in partitions' /\ month + 1 \in partitions'
<1>1. MonthsAhead \in Nat /\ MonthsAhead >= 1 /\ month \in Nat
  BY RecordsAssumption DEF AlertInv
<1>2. /\ month..(month + MonthsAhead) \subseteq Nat
      /\ month \in month..(month + MonthsAhead)
      /\ month + 1 \in month..(month + MonthsAhead)
  BY <1>1
<1> QED BY <1>2 DEF EnsurePartitions, AlertInv

LEMMA MonthlyKeeps == ASSUME AlertInv, MonthlyMaintenance PROVE AlertInv'
<1> USE DEF AlertInv
<1>1. /\ partitions' = {m \in partitions : ~Droppable(m)}
      /\ live' = {a \in live : alerts[a] \in partitions'}
      /\ UNCHANGED <<month, serving, alerts, cared, ensured, refused>>
  BY DEF MonthlyMaintenance
<1>2. \A a \in live : alerts[a] \in partitions'
  BY <1>1 DEF Droppable
<1>3. MonthsKeep \in Nat
  BY RecordsAssumption
<1>4. \A m \in Nat : m >= month => ~Droppable(m)
  BY <1>3 DEF Droppable
<1>5. \A m \in partitions : m = month \/ m = month + 1 => m \in partitions'
  BY <1>1, <1>4
<1>6. partitions' \subseteq Nat /\ live' = live
  BY <1>1, <1>2
<1> QED BY <1>1, <1>2, <1>5, <1>6

LEMMA AlertKeeps ==
    ASSUME AlertInv, AlertStep \/ UNCHANGED alertVars PROVE AlertInv'
<1> USE DEF AlertInv
<1>1. CASE UNCHANGED alertVars
  BY <1>1 DEF alertVars
<1>2. CASE MonthPasses
  <2>1. /\ month' = month + 1 /\ month' \in Nat /\ cared' = FALSE /\ (serving => cared)
        /\ UNCHANGED <<serving, partitions, alerts, live, ensured, refused>>
    BY <1>2 DEF MonthPasses
  <2>2. serving /\ ensured => month' \in partitions
    BY <2>1
  <2> HIDE DEF AlertInv
  <2> QED BY <2>1, <2>2, Zenon DEF AlertInv
<1>3. CASE DailyMaintenance
  <2>1. /\ EnsurePartitions /\ cared' = TRUE
        /\ UNCHANGED <<month, serving, alerts, live, refused>>
    BY <1>3 DEF DailyMaintenance
  <2> QED BY <2>1, EnsuredCares
<1>4. CASE Stop
  BY <1>4 DEF Stop
<1>5. CASE Start
  <2>1. /\ EnsurePartitions /\ cared' = TRUE /\ serving' = TRUE
        /\ UNCHANGED <<month, alerts, live, refused>>
    BY <1>5 DEF Start
  <2> QED BY <2>1, EnsuredCares
<1> QED BY <1>1, <1>2, <1>3, <1>4, <1>5, InsertAlertKeeps, MonthlyKeeps DEF AlertStep

-----------------------------------------------------------------------------
TablesInv == AuditInv /\ VersionInv /\ RosterInv /\ AlertInv

LEMMA TablesInit == RecordsInit => TablesInv
<1> SUFFICES ASSUME RecordsInit PROVE TablesInv
  OBVIOUS
<1> USE DEF RecordsInit
<1>1. AuditInv
  BY EmptySeq DEF AuditInv, AuditTypes, ChainInv, PlacesInv, Records, Genesis
<1>2. VersionInv
  BY EmptySeq DEF VersionInv, VersionTypes, Rows, Savings, NotSaving
<1>3. RosterInv
  BY DEF RosterInv, NotSyncing
<1>4. AlertInv
  <2>1. 0..FirstAhead \subseteq Nat /\ 0 \in 0..FirstAhead
    BY RecordsAssumption
  <2>2. alerts \in Seq(Nat) /\ live = 1..Len(alerts) /\ \A a \in 1..Len(alerts) : FALSE
    BY EmptySeq
  <2>3. /\ month \in Nat /\ partitions \subseteq Nat /\ month \in partitions
        /\ serving \in BOOLEAN /\ cared = FALSE /\ ensured \in BOOLEAN /\ refused = FALSE
    BY <2>1
  <2> QED BY <2>2, <2>3, Zenon DEF AlertInv
<1> QED BY <1>1, <1>2, <1>3, <1>4 DEF TablesInv

LEMMA TablesNext == TablesInv /\ [RecordsNext]_recordVars => TablesInv'
<1> SUFFICES ASSUME TablesInv, [RecordsNext]_recordVars PROVE TablesInv'
  OBVIOUS
<1>1. AuditStep \/ UNCHANGED auditVars
  BY DEF RecordsNext, VersionStep, RosterStep, AlertStep, recordVars
<1>2. VersionStep \/ UNCHANGED versionVars
  BY DEF RecordsNext, AuditStep, RosterStep, AlertStep, recordVars
<1>3. RosterStep \/ UNCHANGED rosterVars
  BY DEF RecordsNext, AuditStep, VersionStep, AlertStep, recordVars
<1>4. AlertStep \/ UNCHANGED alertVars
  BY DEF RecordsNext, AuditStep, VersionStep, RosterStep, recordVars
<1> QED BY <1>1, <1>2, <1>3, <1>4, AuditKeeps, VersionKeeps, RosterKeeps, AlertKeeps
        DEF TablesInv

LEMMA TablesTell == TablesInv => TablesHold
<1> SUFFICES ASSUME TablesInv PROVE TablesHold
  OBVIOUS
<1>1. ChainTellsTampering
  BY ChainTells DEF TablesInv
<1>2. VersionsNumbered
  BY RowsTyped DEF TablesInv, VersionInv, VersionsNumbered
<1>3. RosterKept
  BY DEF TablesInv, RosterInv, RosterKept
<1>4. AlertsKept
  <2>1. DOMAIN alerts = 1..Len(alerts)
    BY LenProperties DEF TablesInv, AlertInv
  <2> QED BY <2>1 DEF TablesInv, AlertInv, AlertsKept
<1> QED BY <1>1, <1>2, <1>3, <1>4 DEF TablesHold, TablesKept

\* audit.go, store.go, sync.go, runMaintenanceLoop: however handlers, syncs and
\* the maintenance overlap, whatever fails and however often the manager starts
\* again, a record removed from the audit index shows, later versions have higher
\* numbers, a sync undoes no edit it could have seen, and every alert has a
\* partition.
THEOREM RecordsKept == RecordsSpec => []TablesHold
<1>1. RecordsInit => TablesInv
  BY TablesInit
<1>2. TablesInv /\ [RecordsNext]_recordVars => TablesInv'
  BY TablesNext
<1>3. TablesInv => TablesHold
  BY TablesTell
<1> QED BY <1>1, <1>2, <1>3, PTL DEF RecordsSpec

(***************************************************************************)
(* The buckets                                                             *)
(*                                                                         *)
(* What is left in a bucket and what was taken since a time s add up to at *)
(* most a full bucket and what was earned since s, and to at least what    *)
(* was earned since s at the worst rounding, or a full bucket.             *)
(***************************************************************************)

-----------------------------------------------------------------------------
(* Multiplication and division                                             *)

LEMMA TimesMonotone ==
    ASSUME NEW a \in Int, NEW b \in Int, NEW d \in Nat, a <= b
    PROVE  a * d \in Int /\ b * d \in Int /\ a * d <= b * d
<1>1. (b - a) * d >= 0
  OBVIOUS
<1> QED BY <1>1

LEMMA TimesAlmostTwo ==
    ASSUME NEW a \in Int, NEW b \in Int
    PROVE  (2 * a - 1) * b = b * a + (a - 1) * b
  OBVIOUS

LEMMA DivIs ==
    ASSUME NEW x \in Int, NEW d \in Nat \ {0}
    PROVE  x \div d \in Int /\ (x \div d) * d <= x /\ x < (x \div d) * d + d
  OBVIOUS

LEMMA DivAtLeast ==
    ASSUME NEW x \in Int, NEW d \in Nat \ {0}, NEW q \in Int, q * d <= x
    PROVE  x \div d \in Int /\ q <= x \div d
<1>1. PICK r \in Int : r = x \div d /\ x < r * d + d
  BY DivIs
<1>2. q * d < (r + 1) * d
  BY <1>1
<1>3. q >= r + 1 => (r + 1) * d <= q * d
  BY <1>1, TimesMonotone
<1> QED BY <1>1, <1>2, <1>3

-----------------------------------------------------------------------------
(* What is taken by now, and what of it since a time                       *)

Past(q, now) == q \in Seq(Nat) /\ now \in Nat /\ \A i \in DOMAIN q : q[i] <= now
Spent(q, s, t) == {i \in DOMAIN q : s <= q[i] /\ q[i] <= t}
Since(q, s) == {i \in DOMAIN q : s <= q[i]}
TakenSince(q, s) == Cardinality(Since(q, s))

\* The two parts of SpendingHeld
Window(s, t, more) == Full + (t - s) \div Step + 1 + more
Limited(q, more) ==
    \A s, t \in Int : s <= t => Cardinality(Spent(q, s, t)) <= Window(s, t, more)
Refusals == [at : Nat, ahead : Nat]
Emptied(q, s, t, d) == Step * Cardinality(Spent(q, s, t)) + d > Step * (Full - 1)
Generous(q, R) ==
    \A r \in R : Emptied(q, r.at - (2 * Step - 1) * Full, r.at + r.ahead, r.ahead)

LEMMA TakesTyped ==
    ASSUME NEW q, NEW now, Past(q, now)
    PROVE  /\ Len(q) \in Nat /\ DOMAIN q = 1..Len(q) /\ now \in Nat
           /\ \A i \in DOMAIN q : q[i] \in Nat /\ q[i] <= now
<1>1. Len(q) \in Nat /\ DOMAIN q = 1..Len(q)
  BY LenProperties DEF Past
<1>2. \A i \in 1..Len(q) : q[i] \in Nat
  BY ElementOfSeq DEF Past
<1> QED BY <1>1, <1>2 DEF Past

LEMMA Counted ==
    ASSUME NEW q, NEW now, Past(q, now), NEW s \in Int, NEW t \in Int
    PROVE  /\ IsFiniteSet(Since(q, s)) /\ TakenSince(q, s) \in Nat
           /\ IsFiniteSet(Spent(q, s, t)) /\ Cardinality(Spent(q, s, t)) \in Nat
           /\ Cardinality(Spent(q, s, t)) <= TakenSince(q, s)
           /\ s > now => TakenSince(q, s) = 0
           /\ t >= now => Spent(q, s, t) = Since(q, s)
<1>1. IsFiniteSet(DOMAIN q)
  BY TakesTyped, FS_Interval
<1>2. Since(q, s) \subseteq DOMAIN q /\ Spent(q, s, t) \subseteq Since(q, s)
  BY DEF Since, Spent
<1>3. IsFiniteSet(Since(q, s)) /\ TakenSince(q, s) \in Nat
  BY <1>1, <1>2, FS_Subset, FS_CardinalityType DEF TakenSince
<1>4. /\ IsFiniteSet(Spent(q, s, t)) /\ Cardinality(Spent(q, s, t)) \in Nat
      /\ Cardinality(Spent(q, s, t)) <= TakenSince(q, s)
  BY <1>2, <1>3, FS_Subset, FS_CardinalityType DEF TakenSince
<1>5. ASSUME s > now PROVE TakenSince(q, s) = 0
  <2>1. Since(q, s) = {}
    BY <1>5, TakesTyped DEF Since
  <2> QED BY <2>1, FS_EmptySet DEF TakenSince
<1>6. t >= now => Spent(q, s, t) = Since(q, s)
  BY TakesTyped DEF Spent, Since
<1> QED BY <1>3, <1>4, <1>5, <1>6

\* A token is taken at n.
Grown(q, n, now, r) ==
    /\ Past(r, now) /\ n \in Nat /\ n <= now
    /\ \A s \in Int : s <= n => TakenSince(r, s) = TakenSince(q, s) + 1
    /\ \A s \in Int : s > n => TakenSince(r, s) = TakenSince(q, s)
    /\ \A s, t \in Int : s <= n /\ n <= t =>
          Cardinality(Spent(r, s, t)) = Cardinality(Spent(q, s, t)) + 1
    /\ \A s, t \in Int : ~(s <= n /\ n <= t) => Spent(r, s, t) = Spent(q, s, t)

LEMMA OneMore ==
    ASSUME NEW q, NEW now, Past(q, now), NEW n \in Nat, n <= now
    PROVE  Grown(q, n, now, Append(q, n))
<1> DEFINE r == Append(q, n)
<1>1. PICK l \in Nat : l = Len(q) /\ DOMAIN q = 1..l
  BY TakesTyped
<1>2. /\ r \in Seq(Nat) /\ Len(r) = l + 1
      /\ \A i \in 1..l : r[i] = q[i]
      /\ r[l + 1] = n
  BY <1>1, AppendProperties DEF Past
<1> HIDE DEF r
<1>3. DOMAIN r = 1..(l + 1) /\ \A i \in 1..(l + 1) : i \in 1..l \/ i = l + 1
  BY <1>1, <1>2, LenProperties
<1>4. Past(r, now)
  BY <1>1, <1>2, <1>3 DEF Past
<1>5. ASSUME NEW s \in Int
      PROVE  /\ s <= n => TakenSince(r, s) = TakenSince(q, s) + 1
             /\ s > n => TakenSince(r, s) = TakenSince(q, s)
  <2>1. CASE s <= n
    <3>1. Since(r, s) = Since(q, s) \cup {l + 1}
      BY <1>1, <1>2, <1>3, <2>1 DEF Since
    <3>2. l + 1 \notin Since(q, s)
      BY <1>1 DEF Since
    <3>3. ~(s > n)
      BY <2>1
    <3> QED BY <3>1, <3>2, <3>3, Counted, FS_AddElement DEF TakenSince
  <2>2. CASE s > n
    <3>1. ~(s <= n)
      BY <2>2
    <3>2. Since(r, s) = Since(q, s)
      BY <1>1, <1>2, <1>3, <3>1 DEF Since
    <3> QED BY <3>1, <3>2 DEF TakenSince
  <2> QED BY <2>1, <2>2
<1>6. ASSUME NEW s \in Int, NEW t \in Int
      PROVE  /\ s <= n /\ n <= t =>
                  Cardinality(Spent(r, s, t)) = Cardinality(Spent(q, s, t)) + 1
             /\ ~(s <= n /\ n <= t) => Spent(r, s, t) = Spent(q, s, t)
  <2>1. CASE s <= n /\ n <= t
    <3>1. Spent(r, s, t) = Spent(q, s, t) \cup {l + 1}
      BY <1>1, <1>2, <1>3, <2>1 DEF Spent
    <3>2. l + 1 \notin Spent(q, s, t)
      BY <1>1 DEF Spent
    <3> QED BY <2>1, <3>1, <3>2, Counted, FS_AddElement
  <2>2. CASE ~(s <= n /\ n <= t)
    BY <1>1, <1>2, <1>3, <2>2 DEF Spent
  <2> QED BY <2>1, <2>2
<1>7. Grown(q, n, now, r)
  BY <1>4, <1>5, <1>6 DEF Grown
<1> QED BY <1>7 DEF r

LEMMA GrownCounted ==
    ASSUME NEW q, NEW now, Past(q, now), NEW r, NEW n \in Nat, Grown(q, n, now, r),
           NEW s \in Int, NEW t \in Int
    PROVE  /\ Cardinality(Spent(q, s, t)) \in Nat /\ Cardinality(Spent(r, s, t)) \in Nat
           /\ Cardinality(Spent(q, s, t)) <= Cardinality(Spent(r, s, t))
           /\ Cardinality(Spent(r, s, t)) <= Cardinality(Spent(q, s, t)) + 1
           /\ TakenSince(q, s) \in Nat /\ TakenSince(r, s) \in Nat
           /\ Cardinality(Spent(r, s, t)) <= TakenSince(r, s)
<1>1. Cardinality(Spent(q, s, t)) \in Nat /\ TakenSince(q, s) \in Nat
  BY Counted
<1>2. Past(r, now)
  BY DEF Grown
<1>3. /\ Cardinality(Spent(r, s, t)) \in Nat /\ TakenSince(r, s) \in Nat
      /\ Cardinality(Spent(r, s, t)) <= TakenSince(r, s)
  BY <1>2, Counted
<1>4. \/ Cardinality(Spent(r, s, t)) = Cardinality(Spent(q, s, t)) + 1
      \/ Cardinality(Spent(r, s, t)) = Cardinality(Spent(q, s, t))
  BY DEF Grown
<1> QED BY <1>1, <1>3, <1>4

LEMMA WindowIs ==
    ASSUME NEW s \in Int, NEW t \in Int, NEW more \in Nat
    PROVE  /\ Window(s, t, more) \in Int
           /\ s <= t => Window(s, t, more) > 0
           /\ \A u \in Int : t <= u => Window(s, t, more) <= Window(s, u, more)
           /\ \A again \in Nat : more <= again => Window(s, t, more) <= Window(s, t, again)
           /\ Window(s, t, more) + 1 = Window(s, t, more + 1)
<1>1. Full \in Nat \ {0} /\ Step \in Nat \ {0}
  BY NoticesAssumption
<1>2. PICK d \in Int : d = (t - s) \div Step /\ d * Step <= t - s
  BY <1>1, DivIs
<1>3. s <= t => d >= 0
  BY <1>1, <1>2, DivAtLeast
<1>4. ASSUME NEW u \in Int, t <= u PROVE d <= (u - s) \div Step /\ (u - s) \div Step \in Int
  BY <1>1, <1>2, <1>4, DivAtLeast
<1> QED BY <1>1, <1>2, <1>3, <1>4 DEF Window

LEMMA LimitKept ==
    ASSUME NEW q, NEW now, Past(q, now), NEW r, NEW n \in Nat, Grown(q, n, now, r),
           NEW more \in Nat, Limited(q, more),
           \A s \in Int : s <= n => TakenSince(r, s) <= Window(s, n, more)
    PROVE  Limited(r, more)
<1> SUFFICES ASSUME NEW s \in Int, NEW t \in Int, s <= t
             PROVE  Cardinality(Spent(r, s, t)) <= Window(s, t, more)
  BY DEF Limited
<1>1. CASE s <= n /\ n <= t
  <2>1. /\ Cardinality(Spent(r, s, t)) <= TakenSince(r, s)
        /\ Cardinality(Spent(r, s, t)) \in Nat /\ TakenSince(r, s) \in Nat
    BY GrownCounted
  <2>2. TakenSince(r, s) <= Window(s, n, more)
    BY <1>1
  <2>3. /\ Window(s, n, more) <= Window(s, t, more)
        /\ Window(s, n, more) \in Int /\ Window(s, t, more) \in Int
    <3>1. n \in Int /\ n <= t
      BY <1>1
    <3> QED BY <3>1, WindowIs
  <2> QED BY <2>1, <2>2, <2>3
<1>2. CASE ~(s <= n /\ n <= t)
  <2>1. Spent(r, s, t) = Spent(q, s, t)
    BY <1>2 DEF Grown
  <2> QED BY <2>1 DEF Limited
<1> QED BY <1>1, <1>2

LEMMA LimitRaised ==
    ASSUME NEW q, NEW now, Past(q, now), NEW more \in Nat, NEW again \in Nat,
           more <= again, Limited(q, more)
    PROVE  Limited(q, again)
<1> SUFFICES ASSUME NEW s \in Int, NEW t \in Int, s <= t
             PROVE  Cardinality(Spent(q, s, t)) <= Window(s, t, again)
  BY DEF Limited
<1>1. Cardinality(Spent(q, s, t)) <= Window(s, t, more)
  BY DEF Limited
<1>2. Cardinality(Spent(q, s, t)) \in Nat
  BY Counted
<1>3. /\ Window(s, t, more) \in Int /\ Window(s, t, again) \in Int
      /\ Window(s, t, more) <= Window(s, t, again)
  BY WindowIs
<1> QED BY <1>1, <1>2, <1>3

LEMMA OrphanTakes ==
    ASSUME NEW q, NEW now, Past(q, now), NEW r, NEW n \in Nat, Grown(q, n, now, r),
           NEW more \in Nat, Limited(q, more)
    PROVE  Limited(r, more + 1)
<1> SUFFICES ASSUME NEW s \in Int, NEW t \in Int, s <= t
             PROVE  Cardinality(Spent(r, s, t)) <= Window(s, t, more + 1)
  BY DEF Limited
<1>1. Cardinality(Spent(q, s, t)) <= Window(s, t, more)
  BY DEF Limited
<1>2. Cardinality(Spent(r, s, t)) <= Cardinality(Spent(q, s, t)) + 1
      /\ Cardinality(Spent(q, s, t)) \in Nat /\ Cardinality(Spent(r, s, t)) \in Nat
  BY GrownCounted
<1>3. Window(s, t, more) \in Int /\ Window(s, t, more) + 1 = Window(s, t, more + 1)
  BY WindowIs
<1> QED BY <1>1, <1>2, <1>3

LEMMA EmptiedMore ==
    ASSUME NEW x \in Nat, NEW y \in Nat, x <= y
    PROVE  Step * x \in Nat /\ Step * y \in Nat /\ Step * x <= Step * y
<1>1. Step \in Nat
  BY NoticesAssumption
<1>2. x * Step <= y * Step /\ x * Step = Step * x /\ y * Step = Step * y
  BY <1>1, TimesMonotone
<1> QED BY <1>1, <1>2

LEMMA GenerousKept ==
    ASSUME NEW q, NEW now, Past(q, now), NEW r, NEW n \in Nat, Grown(q, n, now, r),
           NEW R \in SUBSET Refusals, Generous(q, R)
    PROVE  Generous(r, R)
<1> SUFFICES ASSUME NEW t \in R
             PROVE  Emptied(r, t.at - (2 * Step - 1) * Full, t.at + t.ahead, t.ahead)
  BY DEF Generous
<1>1. PICK s \in Int : s = t.at - (2 * Step - 1) * Full
  BY NoticesAssumption DEF Refusals
<1>2. PICK d \in Nat, u \in Int : d = t.ahead /\ u = t.at + t.ahead
  BY DEF Refusals
<1>3. Step * Cardinality(Spent(q, s, u)) + d > Step * (Full - 1)
  BY <1>1, <1>2 DEF Generous, Emptied
<1>4. /\ Cardinality(Spent(q, s, u)) \in Nat /\ Cardinality(Spent(r, s, u)) \in Nat
      /\ Cardinality(Spent(q, s, u)) <= Cardinality(Spent(r, s, u))
  BY GrownCounted
<1>5. Step * (Full - 1) \in Int
  BY NoticesAssumption
<1>6. Step * Cardinality(Spent(r, s, u)) + d > Step * (Full - 1)
  BY <1>3, <1>4, <1>5, EmptiedMore
<1> QED BY <1>1, <1>2, <1>6 DEF Emptied

LEMMA RefusalAdded ==
    ASSUME NEW q, NEW now, Past(q, now), NEW R \in SUBSET Refusals, Generous(q, R),
           NEW s \in Int, s = now - (2 * Step - 1) * Full, TakenSince(q, s) >= Full
    PROVE  LET all == R \cup {[at |-> now, ahead |-> 0]}
           IN  all \in SUBSET Refusals /\ Generous(q, all)
<1>1. now \in Nat /\ now + 0 = now /\ Spent(q, s, now) = Since(q, s)
  BY Counted, TakesTyped
<1>2. TakenSince(q, s) \in Nat
  BY Counted
<1>3. Step * TakenSince(q, s) + 0 > Step * (Full - 1)
  <2>1. Step * Full <= Step * TakenSince(q, s) /\ Step * TakenSince(q, s) \in Nat
    BY <1>2, EmptiedMore, NoticesAssumption
  <2>2. Step * Full > Step * (Full - 1) /\ Step * (Full - 1) \in Int /\ Step * Full \in Int
    BY NoticesAssumption
  <2> QED BY <2>1, <2>2
<1>4. Emptied(q, s, now + 0, 0)
  BY <1>1, <1>3 DEF Emptied, TakenSince
<1> QED BY <1>1, <1>4 DEF Generous, Refusals

-----------------------------------------------------------------------------
(* A bucket of whole tokens with k of them, last filled at f               *)

Upper(q, now, k, f) ==
    \A s \in Int : s <= now =>
       /\ s <= f => (k + TakenSince(q, s) - Full - 1) * Step <= f - s
       /\ s > f => k + TakenSince(q, s) <= Full /\ (TakenSince(q, s) > 0 => s - f < Step)
Lower(q, k, f) ==
    \A s \in Int : s <= f =>
       k + TakenSince(q, s) >= Full \/ (2 * Step - 1) * (k + TakenSince(q, s)) >= f - s
Holds(q, now, k, f) ==
    /\ k \in 0..Full /\ f \in Nat /\ f <= now
    /\ Upper(q, now, k, f) /\ Lower(q, k, f)

LEMMA BucketNew ==
    ASSUME NEW now \in Nat PROVE Holds(<<>>, now, Full, now)
<1>1. \A s \in Int : TakenSince(<<>>, s) = 0
  <2>1. \A s : Since(<<>>, s) = {}
    BY DEF Since
  <2> QED BY <2>1, FS_EmptySet DEF TakenSince
<1>2. Full \in Nat /\ Step \in Nat /\ (Full + 0 - Full - 1) * Step <= 0
  BY NoticesAssumption
<1>3. Upper(<<>>, now, Full, now)
  BY <1>1, <1>2 DEF Upper
<1>4. Lower(<<>>, Full, now)
  BY <1>1, <1>2 DEF Lower
<1> QED BY <1>2, <1>3, <1>4 DEF Holds

LEMMA BucketWaits ==
    ASSUME NEW q, NEW now, Past(q, now), NEW k, NEW f, Holds(q, now, k, f)
    PROVE  Holds(q, now + 1, k, f)
<1>1. now \in Nat /\ Full \in Nat /\ k \in 0..Full /\ f \in Nat /\ f <= now
  BY TakesTyped, NoticesAssumption DEF Holds
<1>2. TakenSince(q, now + 1) = 0
  BY <1>1, Counted
<1>3. \A s \in Int : s <= now + 1 => s <= now \/ s = now + 1
  BY <1>1
<1>4. now + 1 > f /\ k + 0 <= Full
  BY <1>1
<1>5. Upper(q, now + 1, k, f)
  <2> SUFFICES ASSUME NEW s \in Int, s <= now + 1
               PROVE  /\ s <= f => (k + TakenSince(q, s) - Full - 1) * Step <= f - s
                      /\ s > f => /\ k + TakenSince(q, s) <= Full
                                  /\ TakenSince(q, s) > 0 => s - f < Step
    BY DEF Upper
  <2>1. CASE s <= now
    BY <2>1 DEF Holds, Upper
  <2>2. CASE s = now + 1
    BY <1>1, <1>2, <1>4, <2>2
  <2> QED BY <1>3, <2>1, <2>2
<1> QED BY <1>1, <1>5 DEF Holds

\* Whole tokens are earned, and what is left of the time is forgotten.
LEMMA BucketEarns ==
    ASSUME NEW q, NEW now, Past(q, now), NEW k, NEW f, Holds(q, now, k, f),
           now - f >= Step
    PROVE  Holds(q, now, Least(Full, k + (now - f) \div Step), now)
<1>1. /\ now \in Nat /\ Full \in Nat \ {0} /\ Step \in Nat \ {0} /\ k \in 0..Full
      /\ f \in Nat /\ f <= now
  BY TakesTyped, NoticesAssumption DEF Holds
<1>2. PICK e \in Int : e = (now - f) \div Step /\ e * Step <= now - f /\ now - f < e * Step + Step
  BY <1>1, DivIs
<1>3. e >= 1
  BY <1>1, <1>2, DivAtLeast
<1>4. PICK m \in 0..Full : m = Least(Full, k + e) /\ m <= k + e /\ (m = Full \/ m = k + e)
  BY <1>1, <1>3 DEF Least
<1>5. \A s \in Int : TakenSince(q, s) \in Nat
  BY Counted
<1>6. ASSUME NEW s \in Int, s <= now
      PROVE  (m + TakenSince(q, s) - Full - 1) * Step <= now - s
  <2>1. PICK t \in Nat : t = TakenSince(q, s)
    BY <1>5
  <2>2. CASE s <= f
    <3>1. (k + t - Full - 1) * Step <= f - s
      BY <1>6, <2>1, <2>2 DEF Holds, Upper
    <3>2. (m + t - Full - 1) * Step <= (k + e + t - Full - 1) * Step
      <4>1. m + t - Full - 1 <= k + e + t - Full - 1
        BY <1>1, <1>2, <1>4
      <4> QED BY <1>1, <1>2, <1>4, <4>1, TimesMonotone
    <3>3. (k + e + t - Full - 1) * Step = (k + t - Full - 1) * Step + e * Step
      BY <1>1, <1>2
    <3>4. (m + t - Full - 1) * Step \in Int /\ (k + t - Full - 1) * Step \in Int /\ e * Step \in Int
      BY <1>1, <1>2, <1>4
    <3> QED BY <1>1, <1>2, <2>1, <3>1, <3>2, <3>3, <3>4
  <2>3. CASE s > f /\ t > 0
    <3>1. k + t <= Full /\ s - f < Step
      BY <1>6, <2>1, <2>3 DEF Holds, Upper
    <3>2. (m + t - Full - 1) * Step <= (e - 1) * Step
      <4>1. m + t - Full - 1 <= e - 1
        BY <1>1, <1>2, <1>4, <3>1
      <4> QED BY <1>1, <1>2, <1>4, <4>1, TimesMonotone
    <3>3. (e - 1) * Step = e * Step - Step
      BY <1>1, <1>2
    <3>4. (m + t - Full - 1) * Step \in Int /\ e * Step \in Int
      BY <1>1, <1>2, <1>4
    <3> QED BY <1>1, <1>2, <2>1, <3>1, <3>2, <3>3, <3>4
  <2>4. CASE t = 0
    <3>1. (m + t - Full - 1) * Step <= 0 * Step
      <4>1. m + t - Full - 1 <= 0
        BY <1>1, <1>4, <2>4
      <4> QED BY <1>1, <1>4, <4>1, TimesMonotone
    <3>2. (m + t - Full - 1) * Step \in Int /\ 0 * Step = 0
      BY <1>1, <1>4
    <3> QED BY <1>1, <1>6, <2>1, <3>1, <3>2
  <2> QED BY <1>1, <2>2, <2>3, <2>4
<1>7. ASSUME NEW s \in Int, s <= now, m = k + e
      PROVE  m + TakenSince(q, s) >= Full \/ (2 * Step - 1) * (m + TakenSince(q, s)) >= now - s
  <2>1. PICK t \in Nat : t = TakenSince(q, s)
    BY <1>5
  <2> DEFINE D == 2 * Step - 1
  <2>2. D \in Nat /\ D * e >= now - f
    <3>1. (Step - 1) * e >= Step - 1
      <4>1. 1 * (Step - 1) <= e * (Step - 1)
        BY <1>1, <1>2, <1>3, TimesMonotone
      <4> QED BY <1>1, <1>2, <4>1
    <3>2. D * e = e * Step + (Step - 1) * e
      <4>1. Step \in Int /\ e \in Int
        BY <1>1, <1>2
      <4> QED BY <4>1, TimesAlmostTwo
    <3>3. e * Step \in Int /\ (Step - 1) * e \in Int /\ D \in Nat
      BY <1>1, <1>2
    <3> QED BY <1>1, <1>2, <3>1, <3>2, <3>3
  <2> HIDE DEF D
  <2>3. D * (m + t) = D * (k + t) + D * e
    BY <1>1, <1>2, <1>7, <2>2
  <2>4. D * (k + t) \in Nat /\ D * e \in Int
    BY <1>1, <1>2, <2>2
  <2>5. CASE s <= f
    <3>1. k + t >= Full \/ D * (k + t) >= f - s
      BY <2>1, <2>5 DEF Holds, Lower, D
    <3>2. k + t >= Full => m + t >= Full
      BY <1>1, <1>2, <1>3, <1>7
    <3>3. D * (k + t) >= f - s => D * (m + t) >= now - s
      <4>1. PICK a \in Int : a = D * (k + t)
        BY <2>4
      <4>2. PICK b \in Int : b = D * e /\ b >= now - f
        BY <2>2, <2>4
      <4>3. a >= f - s => a + b >= now - s
        BY <1>1, <4>2
      <4> QED BY <2>3, <4>1, <4>2, <4>3
    <3> QED BY <2>1, <3>1, <3>2, <3>3 DEF D
  <2>6. CASE s > f
    <3>1. D * (m + t) >= now - s
      <4>1. PICK a \in Nat : a = D * (k + t)
        BY <2>4
      <4>2. PICK b \in Int : b = D * e /\ b >= now - f
        BY <2>2, <2>4
      <4>3. a + b >= now - s
        BY <1>1, <2>6, <4>2
      <4> QED BY <2>3, <4>1, <4>2, <4>3
    <3> QED BY <2>1, <3>1 DEF D
  <2> QED BY <1>1, <2>5, <2>6
<1>8. ASSUME NEW s \in Int, s <= now
      PROVE  m + TakenSince(q, s) >= Full \/ (2 * Step - 1) * (m + TakenSince(q, s)) >= now - s
  <2>1. CASE m = Full
    BY <1>1, <1>5, <2>1
  <2> QED BY <1>4, <1>7, <1>8, <2>1
<1>9. Upper(q, now, m, now)
  BY <1>1, <1>6 DEF Upper
<1>10. Lower(q, m, now)
  BY <1>8 DEF Lower
<1> QED BY <1>1, <1>2, <1>4, <1>9, <1>10 DEF Holds

LEMMA BucketGives ==
    ASSUME NEW q, NEW now, Past(q, now), NEW k, NEW f, Holds(q, now, k, f),
           now - f < Step, k > 0, NEW r, Grown(q, now, now, r)
    PROVE  Holds(r, now, k - 1, f)
<1>1. /\ now \in Nat /\ Full \in Nat \ {0} /\ Step \in Nat \ {0} /\ k \in 0..Full
      /\ f \in Nat /\ f <= now
  BY TakesTyped, NoticesAssumption DEF Holds
<1>2. \A s \in Int : s <= now =>
         /\ TakenSince(q, s) \in Nat /\ TakenSince(r, s) = TakenSince(q, s) + 1
         /\ k - 1 + TakenSince(r, s) = k + TakenSince(q, s)
  <2>1. \A s \in Int : TakenSince(q, s) \in Nat
    BY Counted
  <2>2. \A s \in Int : s <= now => TakenSince(r, s) = TakenSince(q, s) + 1
    BY DEF Grown
  <2>3. \A t \in Nat : k - 1 + (t + 1) = k + t
    BY <1>1
  <2> QED BY <2>1, <2>2, <2>3
<1>3. Upper(r, now, k - 1, f)
  <2> SUFFICES ASSUME NEW s \in Int, s <= now
               PROVE  /\ s <= f => (k - 1 + TakenSince(r, s) - Full - 1) * Step <= f - s
                      /\ s > f => /\ k - 1 + TakenSince(r, s) <= Full
                                  /\ TakenSince(r, s) > 0 => s - f < Step
    BY DEF Upper
  <2>1. s <= f => (k + TakenSince(q, s) - Full - 1) * Step <= f - s
    BY DEF Holds, Upper
  <2>2. s > f => k + TakenSince(q, s) <= Full
    BY DEF Holds, Upper
  <2>3. s - f < Step
    BY <1>1
  <2>4. k - 1 + TakenSince(r, s) = k + TakenSince(q, s)
    BY <1>2
  <2>5. (k - 1 + TakenSince(r, s) - Full - 1) * Step = (k + TakenSince(q, s) - Full - 1) * Step
    <3>1. PICK t \in Nat : TakenSince(q, s) = t /\ TakenSince(r, s) = t + 1
      BY <1>2
    <3>2. k - 1 + (t + 1) - Full - 1 = k + t - Full - 1
      BY <1>1
    <3> QED BY <3>1, <3>2
  <2>6. s <= f => (k - 1 + TakenSince(r, s) - Full - 1) * Step <= f - s
    BY <2>1, <2>5
  <2>7. s > f => k - 1 + TakenSince(r, s) <= Full
    BY <2>2, <2>4
  <2> QED BY <2>3, <2>6, <2>7
<1>4. Lower(r, k - 1, f)
  <2> SUFFICES ASSUME NEW s \in Int, s <= f
               PROVE  \/ k - 1 + TakenSince(r, s) >= Full
                      \/ (2 * Step - 1) * (k - 1 + TakenSince(r, s)) >= f - s
    BY DEF Lower
  <2>1. k + TakenSince(q, s) >= Full \/ (2 * Step - 1) * (k + TakenSince(q, s)) >= f - s
    BY DEF Holds, Lower
  <2>2. s <= now
    BY <1>1
  <2>3. k - 1 + TakenSince(r, s) = k + TakenSince(q, s)
    BY <1>2, <2>2
  <2> QED BY <2>1, <2>3
<1> QED BY <1>1, <1>3, <1>4 DEF Holds

LEMMA BucketLimits ==
    ASSUME NEW q, NEW now, Past(q, now), NEW k, NEW f, Holds(q, now, k, f),
           NEW s \in Int, s <= now
    PROVE  TakenSince(q, s) <= Full + (now - s) \div Step + 1
<1>1. /\ now \in Nat /\ Full \in Nat \ {0} /\ Step \in Nat \ {0} /\ k \in 0..Full
      /\ f \in Nat /\ f <= now
  BY TakesTyped, NoticesAssumption DEF Holds
<1>2. PICK t \in Nat : t = TakenSince(q, s)
  BY Counted
<1>3. PICK p \in Int : p * Step <= now - s /\ t <= Full + p + 1
  <2>1. CASE s <= f
    <3>1. (k + t - Full - 1) * Step <= f - s
      BY <1>2, <2>1 DEF Holds, Upper
    <3>2. (t - Full - 1) * Step <= (k + t - Full - 1) * Step
      <4>1. t - Full - 1 <= k + t - Full - 1
        BY <1>1
      <4> QED BY <1>1, <4>1, TimesMonotone
    <3>3. (t - Full - 1) * Step \in Int /\ (k + t - Full - 1) * Step \in Int
      BY <1>1
    <3>4. (t - Full - 1) * Step <= now - s
      BY <1>1, <3>1, <3>2, <3>3
    <3>5. t - Full - 1 \in Int /\ t <= Full + (t - Full - 1) + 1
      BY <1>1
    <3> QED BY <3>4, <3>5
  <2>2. CASE s > f
    <3>1. k + t <= Full
      BY <1>2, <2>2 DEF Holds, Upper
    <3>2. 0 * Step <= now - s /\ t <= Full + 0 + 1
      BY <1>1, <3>1
    <3> QED BY <3>2
  <2> QED BY <1>1, <2>1, <2>2
<1>4. (now - s) \div Step \in Int /\ p <= (now - s) \div Step
  BY <1>1, <1>3, DivAtLeast
<1> QED BY <1>1, <1>2, <1>3, <1>4

LEMMA BucketRefuses ==
    ASSUME NEW q, NEW now, Past(q, now), NEW f, Holds(q, now, 0, f), now - f < Step
    PROVE  TakenSince(q, now - (2 * Step - 1) * Full) >= Full
<1>1. /\ now \in Nat /\ Full \in Nat \ {0} /\ Step \in Nat \ {0} /\ f \in Nat /\ f <= now
  BY TakesTyped, NoticesAssumption DEF Holds
<1>2. PICK D \in Nat : D = 2 * Step - 1 /\ D >= Step
  BY <1>1
<1>3. PICK s \in Int : s = now - D * Full
  BY <1>1, <1>2
<1>4. PICK t \in Nat : t = TakenSince(q, s)
  BY Counted
<1>5. D * Full >= D /\ D * Full \in Nat
  <2>1. 1 * D <= Full * D
    BY <1>1, TimesMonotone
  <2> QED BY <1>1, <2>1
<1>6. s <= f
  BY <1>1, <1>2, <1>3, <1>5
<1>7. 0 + t >= Full \/ D * (0 + t) >= f - s
  BY <1>2, <1>4, <1>6 DEF Holds, Lower
<1>8. ASSUME t < Full PROVE FALSE
  <2>1. D * t >= f - s /\ D * t \in Int
    BY <1>1, <1>7, <1>8
  <2>2. t * D <= (Full - 1) * D
    <3>1. t <= Full - 1
      BY <1>1, <1>8
    <3> QED BY <1>1, <3>1, TimesMonotone
  <2>3. (Full - 1) * D = D * Full - D /\ t * D = D * t
    BY <1>1
  <2>4. D * t <= D * Full - D
    BY <2>2, <2>3
  <2>5. f - s > D * Full - D
    BY <1>1, <1>2, <1>3, <1>5
  <2> QED BY <1>1, <1>5, <2>1, <2>4, <2>5
<1> QED BY <1>1, <1>2, <1>3, <1>4, <1>8

-----------------------------------------------------------------------------
(* VirusTotal and the notifier                                             *)

WholeInv ==
    /\ Past(takes, tick) /\ orphans = 0 /\ refusals \in SUBSET Refusals
    /\ Limited(takes, 0) /\ Generous(takes, refusals)
    /\ Holds(takes, tick, tokens, filled)

LEMMA TokenTaken ==
    ASSUME WholeInv, NEW k, NEW f, Holds(takes, tick, k, f), tick - f < Step, k > 0,
           tokens' = k - 1, filled' = f, takes' = Append(takes, tick),
           UNCHANGED <<tick, refusals, orphans>>
    PROVE  WholeInv'
<1> USE DEF WholeInv
<1>1. Grown(takes, tick, tick, takes') /\ tick \in Nat
  BY TakesTyped, OneMore
<1>2. Past(takes', tick)
  BY <1>1 DEF Grown
<1>3. Holds(takes', tick, k - 1, f)
  BY <1>1, BucketGives
<1>4. \A s \in Int : s <= tick => TakenSince(takes', s) <= Window(s, tick, 0)
  <2>1. \A s \in Int : s <= tick => TakenSince(takes', s) <= Full + (tick - s) \div Step + 1
    BY <1>2, <1>3, BucketLimits
  <2>2. \A s \in Int : (tick - s) \div Step \in Int
    BY NoticesAssumption, TakesTyped, DivIs
  <2>3. \A d \in Int : Full + d + 1 + 0 = Full + d + 1
    BY NoticesAssumption
  <2>4. \A s \in Int : Full + (tick - s) \div Step + 1 + 0 = Full + (tick - s) \div Step + 1
    BY <2>2, <2>3
  <2> QED BY <2>1, <2>4 DEF Window
<1>5. Limited(takes', 0)
  <2>1. 0 \in Nat
    OBVIOUS
  <2> QED BY <1>1, <1>4, <2>1, LimitKept
<1>6. Generous(takes', refusals)
  BY <1>1, GenerousKept
<1> QED BY <1>2, <1>3, <1>5, <1>6

LEMMA TokenRefused ==
    ASSUME WholeInv, NEW f, Holds(takes, tick, 0, f), tick - f < Step,
           tokens' = 0, filled' = f,
           refusals' = refusals \cup {[at |-> tick, ahead |-> 0]},
           UNCHANGED <<tick, takes, orphans>>
    PROVE  WholeInv'
<1> USE DEF WholeInv
<1>1. tick \in Nat
  BY TakesTyped
<1>2. PICK s \in Int : s = tick - (2 * Step - 1) * Full
  BY <1>1, NoticesAssumption
<1>3. TakenSince(takes, s) >= Full
  BY <1>2, BucketRefuses
<1>4. Generous(takes, refusals') /\ refusals' \in SUBSET Refusals
  BY <1>2, <1>3, RefusalAdded
<1> QED BY <1>1, <1>4

\* Whatever bucket takeToken and allowSend find, they find or fill it.
LEMMA EarnedHolds ==
    ASSUME WholeInv
    PROVE  /\ Holds(takes, tick, Earned.tokens, Earned.filled)
           /\ tick - Earned.filled < Step
<1>1. tick \in Nat /\ filled \in Nat /\ filled <= tick /\ Step \in Nat \ {0}
  BY TakesTyped, NoticesAssumption DEF WholeInv, Holds
<1>2. CASE tick - filled >= Step
  <2>1. /\ Earned.tokens = Least(Full, tokens + (tick - filled) \div Step)
        /\ Earned.filled = tick
    BY <1>2 DEF Earned
  <2>2. Holds(takes, tick, Least(Full, tokens + (tick - filled) \div Step), tick)
    BY <1>2, BucketEarns DEF WholeInv
  <2> QED BY <1>1, <2>1, <2>2
<1>3. CASE ~(tick - filled >= Step)
  <2>1. Earned.tokens = tokens /\ Earned.filled = filled
    BY <1>3 DEF Earned
  <2> QED BY <1>1, <1>3, <2>1 DEF WholeInv
<1> QED BY <1>2, <1>3

LEMMA TakeKeeps ==
    ASSUME WholeInv, filled' = Earned.filled, UNCHANGED <<tick, orphans>>,
           \/ /\ Earned.tokens > 0 /\ tokens' = Earned.tokens - 1
              /\ takes' = Append(takes, tick) /\ UNCHANGED refusals
           \/ /\ ~(Earned.tokens > 0) /\ tokens' = Earned.tokens
              /\ refusals' = refusals \cup {[at |-> tick, ahead |-> 0]}
              /\ UNCHANGED takes
    PROVE  WholeInv'
<1>1. PICK k \in 0..Full, f \in Nat :
         /\ k = Earned.tokens /\ f = Earned.filled
         /\ Holds(takes, tick, k, f) /\ tick - f < Step
  BY EarnedHolds DEF Holds
<1>2. CASE k > 0
  BY <1>1, <1>2, TokenTaken
<1>3. CASE ~(k > 0)
  <2>1. k = 0
    BY <1>1, <1>3, NoticesAssumption
  <2> QED BY <1>1, <2>1, TokenRefused
<1> QED BY <1>2, <1>3

LEMMA WholeWaits == ASSUME WholeInv, Tick PROVE WholeInv'
<1>1. tick' = tick + 1 /\ UNCHANGED <<tokens, filled, takes, refusals, orphans>>
  BY DEF Tick
<1>2. Past(takes, tick + 1)
  <2>1. tick \in Nat /\ \A i \in DOMAIN takes : takes[i] \in Nat /\ takes[i] <= tick
    BY TakesTyped DEF WholeInv
  <2>2. tick + 1 \in Nat /\ \A i \in DOMAIN takes : takes[i] <= tick + 1
    BY <2>1
  <2> QED BY <2>2 DEF WholeInv, Past
<1>3. Holds(takes, tick + 1, tokens, filled)
  BY BucketWaits DEF WholeInv
<1> QED BY <1>1, <1>2, <1>3 DEF WholeInv

LEMMA WholeRests ==
    ASSUME WholeInv, UNCHANGED <<tick, tokens, filled, takes, refusals, orphans>>
    PROVE  WholeInv'
  BY DEF WholeInv

LEMMA NothingTaken ==
    /\ \A s, t \in Int : Cardinality(Spent(<<>>, s, t)) = 0 /\ TakenSince(<<>>, s) = 0
    /\ Past(<<>>, 0) /\ Limited(<<>>, 0) /\ Generous(<<>>, {})
<1>1. \A s, t \in Int : Spent(<<>>, s, t) = {} /\ Since(<<>>, s) = {}
  BY DEF Spent, Since
<1>2. \A s, t \in Int : Cardinality(Spent(<<>>, s, t)) = 0 /\ TakenSince(<<>>, s) = 0
  BY <1>1, FS_EmptySet DEF TakenSince
<1>3. Past(<<>>, 0) /\ Generous(<<>>, {})
  BY EmptySeq DEF Past, Generous
<1>4. ASSUME NEW s \in Int, NEW t \in Int, s <= t
      PROVE  Cardinality(Spent(<<>>, s, t)) <= Window(s, t, 0)
  <2>1. 0 \in Nat
    OBVIOUS
  <2>2. Window(s, t, 0) \in Int /\ Window(s, t, 0) > 0
    BY <1>4, <2>1, WindowIs
  <2> QED BY <1>2, <2>2
<1> QED BY <1>2, <1>3, <1>4 DEF Limited

LEMMA WholeInit == NoticesInit => WholeInv /\ takes = <<>>
<1> SUFFICES ASSUME NoticesInit PROVE WholeInv /\ takes = <<>>
  OBVIOUS
<1>1. Holds(<<>>, 0, Full, 0)
  BY BucketNew
<1> QED BY <1>1, NothingTaken DEF NoticesInit, WholeInv

LEMMA BothHeld ==
    ASSUME Past(takes, tick), Limited(takes, orphans), Generous(takes, refusals)
    PROVE  SpendingHeld
<1>1. \A i \in DOMAIN takes : takes[i] \in Int
  BY TakesTyped
<1>2. ASSUME NEW i \in DOMAIN takes, NEW j \in DOMAIN takes, takes[i] <= takes[j]
      PROVE  Cardinality(Between(takes[i], takes[j]))
                <= Full + (takes[j] - takes[i]) \div Step + 1 + orphans
  <2>1. Cardinality(Spent(takes, takes[i], takes[j]))
           <= Window(takes[i], takes[j], orphans)
    BY <1>1, <1>2 DEF Limited
  <2> QED BY <2>1 DEF Spent, Between, Window
<1>3. ASSUME NEW r \in refusals
      PROVE  Step * Cardinality(Between(r.at - (2 * Step - 1) * Full, r.at + r.ahead))
                + r.ahead > Step * (Full - 1)
  BY DEF Generous, Emptied, Spent, Between
<1> QED BY <1>2, <1>3 DEF SpendingHeld

LEMMA WholeHeld == WholeInv => SpendingHeld
  BY BothHeld DEF WholeInv

LEMMA VirusTotalKeeps ==
    ASSUME WholeInv, [Tick \/ \E c \in Callers : VirusTotal(c)]_noticeVars
    PROVE  WholeInv'
<1>1. ASSUME NEW c \in Callers, TakeToken(c) PROVE WholeInv'
  BY <1>1, TakeKeeps DEF TakeToken, Take
<1>2. ASSUME NEW c \in Callers, OnAlert(c) \/ LookInCache(c) \/ Answered(c)
      PROVE  WholeInv'
  BY <1>2, WholeRests DEF OnAlert, LookInCache, Answered
<1>3. CASE UNCHANGED noticeVars
  BY <1>3, WholeRests DEF noticeVars
<1> QED BY <1>1, <1>2, <1>3, WholeWaits DEF VirusTotal

\* A bucket that was not yet made has given nothing.
NotifierInv == WholeInv /\ (~mapped => takes = <<>>)

LEMMA NotifierKeeps ==
    ASSUME NotifierInv, [Tick \/ \E c \in Callers : Notifier(c)]_noticeVars
    PROVE  NotifierInv'
<1> USE DEF NotifierInv
<1>1. CASE Tick
  BY <1>1, WholeWaits DEF Tick
<1>2. ASSUME NEW c \in Callers, Dispatch(c) PROVE NotifierInv'
  <2>1. CASE mapped
    <3>1. WholeInv'
      BY <1>2, <2>1, TakeKeeps DEF Dispatch, AllowSend, Take
    <3> QED BY <1>2, <2>1, <3>1 DEF Dispatch, AllowSend
  <2>2. CASE ~mapped
    <3>1. /\ mapped' = TRUE /\ tokens' = Full - 1 /\ filled' = tick
          /\ takes' = Append(takes, tick) /\ UNCHANGED <<refusals, tick, orphans>>
      BY <1>2, <2>2 DEF Dispatch, AllowSend
    <3>2. tick \in Nat
      BY TakesTyped DEF WholeInv
    <3>3. Holds(takes, tick, Full, tick)
      BY <2>2, <3>2, BucketNew
    <3>4. tick - tick < Step /\ Full > 0
      BY <3>2, NoticesAssumption
    <3>5. WholeInv'
      BY <3>1, <3>3, <3>4, TokenTaken
    <3> QED BY <3>1, <3>5
  <2> QED BY <2>1, <2>2
<1>3. ASSUME NEW c \in Callers, Sent(c) PROVE NotifierInv'
  BY <1>3, WholeRests DEF Sent
<1>4. CASE UNCHANGED noticeVars
  BY <1>4, WholeRests DEF noticeVars
<1> QED BY <1>1, <1>2, <1>3, <1>4 DEF Notifier

-----------------------------------------------------------------------------
(* The buckets of the API: what one holds less the time when it was filled *)
(* is its credit, which nothing adds to                                    *)

Cap == Full * Step
Bucket == [tokens : Int, seen : Nat, newest : Nat]
Credit(b) == b.tokens - b.seen

\* What is left to the bucket in the map, or to the next one to be made
Left == IF mapped THEN Credit(Last(buckets)) ELSE Cap - tick
Newest == IF mapped THEN Last(buckets).newest ELSE tick

TickUpper(q, v, n, o) ==
    \A s \in Int : /\ s <= n => v + (TakenSince(q, s) - o) * Step <= Cap - s
                   /\ s > n => TakenSince(q, s) <= o
TickLower(q, v, n) ==
    /\ v >= -n
    /\ \A s \in Int : LET w == v + Step * Cardinality(Spent(q, s, n))
                      IN  w >= Cap - n \/ w >= -s
ApiCallers ==
    {Resting} \cup [pc : {"found"}, bucket : DOMAIN buckets]
              \cup [pc : {"read"}, bucket : DOMAIN buckets, now : 0..tick]

ApiInv ==
    /\ Past(takes, tick) /\ orphans \in Nat /\ refusals \in SUBSET Refusals
    /\ Limited(takes, orphans) /\ Generous(takes, refusals)
    /\ mapped \in BOOLEAN /\ buckets \in Seq(Bucket)
    /\ mapped => buckets # <<>>
    /\ \A i \in DOMAIN buckets : /\ TickLower(takes, Credit(buckets[i]), buckets[i].newest)
                                 /\ buckets[i].newest <= tick
    /\ TickUpper(takes, Left, Newest, orphans)
    /\ caller \in [Callers -> ApiCallers]

LEMMA CapIs == /\ Full \in Nat \ {0} /\ Step \in Nat \ {0} /\ Cap \in Nat
               /\ Step <= Cap /\ Cap <= StaleAfter + 1 /\ StaleAfter \in Nat
               /\ Step * (Full - 1) = Cap - Step /\ Cap <= (2 * Step - 1) * Full
               /\ (2 * Step - 1) * Full \in Nat
<1>1. Full \in Nat \ {0} /\ Step \in Nat \ {0} /\ StaleAfter \in Nat
  BY NoticesAssumption
<1>2. 1 * Step <= Full * Step
  BY <1>1, TimesMonotone
<1>3. Step <= 2 * Step - 1 /\ 2 * Step - 1 \in Nat
  BY <1>1
<1>4. Step * Full <= (2 * Step - 1) * Full /\ (2 * Step - 1) * Full \in Nat
  BY <1>1, <1>3, TimesMonotone
<1>5. Step * (Full - 1) = Full * Step - Step /\ Step * Full = Full * Step
  BY <1>1
<1> QED BY <1>1, <1>2, <1>4, <1>5, NoticesAssumption DEF Cap

LEMMA LastIs ==
    ASSUME NEW b, b \in Seq(Bucket), b # <<>>
    PROVE  Len(b) \in DOMAIN b /\ Last(b) = b[Len(b)] /\ Last(b) \in Bucket
<1>1. Len(b) \in Nat /\ DOMAIN b = 1..Len(b) /\ Len(b) # 0
  BY LenProperties, EmptySeq
<1>2. Len(b) \in 1..Len(b)
  BY <1>1
<1> QED BY <1>1, <1>2, ElementOfSeq DEF Last

LEMMA ApiTyped ==
    ASSUME ApiInv
    PROVE  /\ tick \in Nat /\ orphans \in Nat /\ Left \in Int /\ Newest \in Nat
           /\ Newest <= tick
           /\ mapped => /\ Len(buckets) \in DOMAIN buckets /\ Last(buckets) \in Bucket
                        /\ Last(buckets) = buckets[Len(buckets)]
                        /\ Credit(Last(buckets)) \in Int /\ Last(buckets).newest \in Nat
                        /\ Last(buckets).newest <= tick
           /\ \A i \in DOMAIN buckets : /\ buckets[i] \in Bucket /\ Credit(buckets[i]) \in Int
                                        /\ buckets[i].newest \in Nat
<1>1. tick \in Nat /\ Cap \in Nat
  BY TakesTyped, CapIs DEF ApiInv
<1>2. \A b \in Bucket : Credit(b) \in Int /\ b.newest \in Nat
  BY DEF Bucket, Credit
<1>3. \A i \in DOMAIN buckets : buckets[i] \in Bucket
  BY ElementOfSeq, LenProperties DEF ApiInv
<1>4. mapped => /\ Len(buckets) \in DOMAIN buckets /\ Last(buckets) \in Bucket
                /\ Last(buckets) = buckets[Len(buckets)]
  BY LastIs DEF ApiInv
<1>5. mapped => Last(buckets).newest <= tick
  BY <1>4 DEF ApiInv
<1>6. CASE mapped
  BY <1>1, <1>2, <1>3, <1>4, <1>5, <1>6 DEF ApiInv, Left, Newest
<1>7. CASE ~mapped
  BY <1>1, <1>2, <1>3, <1>7 DEF ApiInv, Left, Newest
<1> QED BY <1>6, <1>7 DEF ApiInv

\* A bucket that gives a token at n, and one that gives none
LEMMA LowerKept ==
    ASSUME NEW q, NEW now, Past(q, now), NEW r, NEW n \in Nat, Grown(q, n, now, r),
           NEW v \in Int, NEW m \in Nat, TickLower(q, v, m)
    PROVE  TickLower(r, v, m)
<1>1. ASSUME NEW s \in Int
      PROVE  LET w == v + Step * Cardinality(Spent(r, s, m)) IN w >= Cap - m \/ w >= -s
  <2>1. PICK x, y \in Nat : /\ x = Cardinality(Spent(q, s, m)) /\ x <= y
                            /\ y = Cardinality(Spent(r, s, m))
    BY GrownCounted
  <2>2. v + Step * x >= Cap - m \/ v + Step * x >= -s
    BY <2>1 DEF TickLower
  <2>3. Step * x \in Nat /\ Step * y \in Nat /\ Step * x <= Step * y
    BY <2>1, EmptiedMore
  <2>4. v + Step * y >= Cap - m \/ v + Step * y >= -s
    BY <2>2, <2>3, CapIs
  <2> QED BY <2>1, <2>4
<1> QED BY <1>1 DEF TickLower

\* The bucket is filled up at n, by a clock that may be behind the last one.
LEMMA Filled ==
    ASSUME NEW q, NEW now, Past(q, now), NEW v \in Int, NEW m \in Nat, NEW n \in Nat,
           NEW f, f = Least(v, Cap - n), NEW l, l = IF n > m THEN n ELSE m
    PROVE  /\ f \in Int /\ l \in Nat /\ n <= l
           /\ TickLower(q, v, m) => TickLower(q, f, l)
           /\ \A o \in Nat : TickUpper(q, v, m, o) => TickUpper(q, f, l, o)
<1>1. Cap \in Nat /\ Step \in Nat
  BY CapIs
<1>2. f \in Int /\ f <= v /\ f <= Cap - n /\ (f = v \/ f = Cap - n)
  BY <1>1 DEF Least
<1>3. l \in Nat /\ n <= l /\ m <= l /\ (l = n \/ l = m)
  OBVIOUS
<1>4. ASSUME TickLower(q, v, m) PROVE TickLower(q, f, l)
  <2>1. f >= -l
    BY <1>1, <1>2, <1>3, <1>4 DEF TickLower
  <2>2. ASSUME NEW s \in Int
        PROVE  LET w == f + Step * Cardinality(Spent(q, s, l)) IN w >= Cap - l \/ w >= -s
    <3>1. Spent(q, s, m) \subseteq Spent(q, s, l)
      BY <1>3, TakesTyped DEF Spent
    <3>2. PICK x, y \in Nat : /\ x = Cardinality(Spent(q, s, m)) /\ x <= y
                              /\ y = Cardinality(Spent(q, s, l))
      <4>1. /\ IsFiniteSet(Spent(q, s, l)) /\ Cardinality(Spent(q, s, l)) \in Nat
            /\ Cardinality(Spent(q, s, m)) \in Nat
        BY <1>3, Counted
      <4>2. Cardinality(Spent(q, s, m)) <= Cardinality(Spent(q, s, l))
        BY <3>1, <4>1, FS_Subset
      <4> QED BY <4>1, <4>2
    <3>3. Step * x \in Nat /\ Step * y \in Nat /\ Step * x <= Step * y
      BY <3>2, EmptiedMore
    <3>4. v + Step * x >= Cap - m \/ v + Step * x >= -s
      BY <1>4, <3>2 DEF TickLower
    <3>5. f + Step * y >= Cap - l \/ f + Step * y >= -s
      BY <1>1, <1>2, <1>3, <3>3, <3>4
    <3> QED BY <3>2, <3>5
  <2> QED BY <2>1, <2>2 DEF TickLower
<1>5. ASSUME NEW o \in Nat, TickUpper(q, v, m, o) PROVE TickUpper(q, f, l, o)
  <2> SUFFICES ASSUME NEW s \in Int
               PROVE  /\ s <= l => f + (TakenSince(q, s) - o) * Step <= Cap - s
                      /\ s > l => TakenSince(q, s) <= o
    BY DEF TickUpper
  <2>1. PICK t \in Nat : t = TakenSince(q, s)
    BY Counted
  <2>2. PICK a \in Int : a = (t - o) * Step
    BY <1>1
  <2>3. CASE s <= m
    <3>1. v + a <= Cap - s
      BY <1>5, <2>1, <2>2, <2>3 DEF TickUpper
    <3>2. f + a <= Cap - s /\ ~(s > l)
      BY <1>1, <1>2, <1>3, <2>3, <3>1
    <3> QED BY <2>1, <2>2, <3>2
  <2>4. CASE s > m
    <3>1. t <= o
      BY <1>5, <2>1, <2>4 DEF TickUpper
    <3>2. a <= 0 * Step
      <4>1. t - o <= 0
        BY <3>1
      <4> QED BY <1>1, <2>2, <4>1, TimesMonotone
    <3>3. s <= l => f + a <= Cap - s
      BY <1>1, <1>2, <1>3, <2>4, <3>2
    <3> QED BY <2>1, <2>2, <3>1, <3>3
  <2> QED BY <2>3, <2>4
<1> QED BY <1>2, <1>3, <1>4, <1>5

\* It gives a token at n.
LEMMA Gives ==
    ASSUME NEW q, NEW now, Past(q, now), NEW r, NEW n \in Nat, Grown(q, n, now, r),
           NEW v \in Int, NEW m \in Nat, n <= m, v + n >= Step
    PROVE  /\ TickLower(q, v, m) => TickLower(r, v - Step, m)
           /\ \A o \in Nat : TickUpper(q, v, m, o) =>
                 /\ TickUpper(r, v - Step, m, o)
                 /\ \A s \in Int : s <= n => TakenSince(r, s) <= Window(s, n, o)
<1>1. Cap \in Nat /\ Step \in Nat \ {0} /\ Full \in Nat
  BY CapIs
<1>2. ASSUME TickLower(q, v, m) PROVE TickLower(r, v - Step, m)
  <2>1. v - Step >= -m
    BY <1>1
  <2>2. ASSUME NEW s \in Int
        PROVE  LET w == v - Step + Step * Cardinality(Spent(r, s, m))
               IN  w >= Cap - m \/ w >= -s
    <3>1. PICK x, y \in Nat : /\ x = Cardinality(Spent(q, s, m))
                              /\ y = Cardinality(Spent(r, s, m))
      BY GrownCounted
    <3>2. CASE s <= n
      <4>1. y = x + 1
        BY <3>1, <3>2 DEF Grown
      <4>2. Step * y = Step * x + Step /\ Step * x \in Nat
        BY <1>1, <4>1
      <4>3. v + Step * x >= Cap - m \/ v + Step * x >= -s
        BY <1>2, <3>1 DEF TickLower
      <4>4. v - Step + Step * y = v + Step * x
        BY <1>1, <4>2
      <4> QED BY <3>1, <4>3, <4>4
    <3>3. CASE s > n
      <4>1. Step * y \in Nat
        BY <1>1
      <4>2. v - Step + Step * y >= -s
        BY <1>1, <3>3, <4>1
      <4> QED BY <3>1, <4>2
    <3> QED BY <3>2, <3>3
  <2> QED BY <2>1, <2>2 DEF TickLower
<1>3. ASSUME NEW o \in Nat, TickUpper(q, v, m, o), NEW s \in Int
      PROVE  /\ s <= m => v - Step + (TakenSince(r, s) - o) * Step <= Cap - s
             /\ s > m => TakenSince(r, s) <= o
             /\ s <= n => TakenSince(r, s) <= Window(s, n, o)
  <2>1. PICK t, u \in Nat : t = TakenSince(q, s) /\ u = TakenSince(r, s)
    BY GrownCounted
  <2>2. PICK a \in Int : a = (t - o) * Step
    BY <1>1
  <2>3. /\ s <= m => v + a <= Cap - s
        /\ s > m => t <= o
    BY <1>3, <2>1, <2>2 DEF TickUpper
  <2>4. CASE s <= n
    <3>1. u = t + 1 /\ s <= m /\ ~(s > m)
      BY <2>1, <2>4 DEF Grown
    <3>2. (u - o) * Step = a + Step
      BY <1>1, <2>2, <3>1
    <3>3. v - Step + (u - o) * Step <= Cap - s
      BY <1>1, <2>3, <3>1, <3>2
    <3>4. (u - o - Full) * Step = a + Step - Cap
      BY <1>1, <2>2, <3>1 DEF Cap
    <3>5. (u - o - Full) * Step <= n - s
      BY <1>1, <2>3, <3>1, <3>4
    <3>6. u - o - Full <= (n - s) \div Step /\ (n - s) \div Step \in Int
      BY <1>1, <3>5, DivAtLeast
    <3>7. u <= Full + (n - s) \div Step + 1 + o
      BY <1>1, <3>6
    <3> QED BY <2>1, <3>1, <3>3, <3>7 DEF Window
  <2>5. CASE s > n
    <3>1. u = t /\ ~(s <= n)
      BY <2>1, <2>5 DEF Grown
    <3>2. s <= m => v - Step + (u - o) * Step <= Cap - s
      BY <1>1, <2>2, <2>3, <3>1
    <3> QED BY <2>1, <2>3, <3>1, <3>2
  <2> QED BY <2>4, <2>5
<1>4. \A o \in Nat : TickUpper(q, v, m, o) =>
         /\ TickUpper(r, v - Step, m, o)
         /\ \A s \in Int : s <= n => TakenSince(r, s) <= Window(s, n, o)
  BY <1>3 DEF TickUpper
<1> QED BY <1>2, <1>4

\* Another bucket gives one.
LEMMA UpperOrphan ==
    ASSUME NEW q, NEW now, Past(q, now), NEW r, NEW n \in Nat, Grown(q, n, now, r),
           NEW v \in Int, NEW m \in Nat, NEW o \in Nat, TickUpper(q, v, m, o)
    PROVE  TickUpper(r, v, m, o + 1)
<1> SUFFICES ASSUME NEW s \in Int
             PROVE  /\ s <= m => v + (TakenSince(r, s) - (o + 1)) * Step <= Cap - s
                    /\ s > m => TakenSince(r, s) <= o + 1
  BY DEF TickUpper
<1>1. Cap \in Nat /\ Step \in Nat
  BY CapIs
<1>2. PICK t, u \in Nat : t = TakenSince(q, s) /\ u = TakenSince(r, s)
  BY GrownCounted
<1>3. u <= t + 1
  <2>1. s <= n \/ s > n
    OBVIOUS
  <2> QED BY <1>2, <2>1 DEF Grown
<1>4. PICK a, b \in Int : a = (t - o) * Step /\ b = (u - (o + 1)) * Step
  BY <1>1
<1>5. b <= a
  <2>1. u - (o + 1) <= t - o
    BY <1>3
  <2> QED BY <1>1, <1>4, <2>1, TimesMonotone
<1>6. /\ s <= m => v + a <= Cap - s
      /\ s > m => t <= o
  BY <1>2, <1>4 DEF TickUpper
<1>7. /\ s <= m => v + b <= Cap - s
      /\ s > m => u <= o + 1
  BY <1>1, <1>3, <1>5, <1>6
<1> QED BY <1>2, <1>4, <1>7

LEMMA ApiTick == ASSUME ApiInv, Tick PROVE ApiInv'
<1>1. /\ tick' = tick + 1
      /\ UNCHANGED <<mapped, buckets, caller, takes, refusals, orphans>>
  BY DEF Tick
<1>2. /\ tick \in Nat /\ tick + 1 \in Nat /\ Cap \in Nat /\ Step \in Nat /\ orphans \in Nat
      /\ \A i \in DOMAIN takes : takes[i] \in Nat /\ takes[i] <= tick
  BY TakesTyped, CapIs DEF ApiInv
<1>3. Past(takes, tick + 1)
  <2>1. \A i \in DOMAIN takes : takes[i] <= tick + 1
    BY <1>2
  <2> QED BY <1>2, <2>1 DEF ApiInv, Past
<1>4. \A i \in DOMAIN buckets : buckets[i].newest <= tick + 1
  BY <1>2, ApiTyped DEF ApiInv
<1>5. caller \in [Callers -> ApiCallers']
  <2>1. ApiCallers \subseteq ApiCallers'
    BY <1>1, <1>2 DEF ApiCallers
  <2> QED BY <2>1 DEF ApiInv
<1>6. TickUpper(takes, Left', Newest', orphans)
  <2>1. CASE mapped
    <3>1. Left' = Left /\ Newest' = Newest
      BY <1>1, <2>1 DEF Left, Newest
    <3> QED BY <3>1 DEF ApiInv
  <2>2. CASE ~mapped
    <3>1. Left' = Cap - (tick + 1) /\ Newest' = tick + 1
      BY <1>1, <2>2 DEF Left, Newest, Cap
    <3>2. ASSUME NEW s \in Int
          PROVE  /\ s <= tick + 1 =>
                      Cap - (tick + 1) + (TakenSince(takes, s) - orphans) * Step <= Cap - s
                 /\ s > tick + 1 => TakenSince(takes, s) <= orphans
      <4>1. PICK t \in Nat : t = TakenSince(takes, s)
        BY Counted DEF ApiInv
      <4>2. PICK a \in Int : a = (t - orphans) * Step
        BY <1>2
      <4>3. CASE s <= tick
        <5>1. Cap - tick + a <= Cap - s
          BY <2>2, <4>1, <4>2, <4>3 DEF ApiInv, TickUpper, Left, Newest
        <5>2. Cap - (tick + 1) + a <= Cap - s /\ ~(s > tick + 1)
          BY <1>2, <4>3, <5>1
        <5> QED BY <4>1, <4>2, <5>2
      <4>4. CASE s > tick
        <5>1. t = 0
          BY <4>1, <4>4, Counted DEF ApiInv
        <5>2. a <= 0 * Step
          BY <1>2, <4>2, <5>1, TimesMonotone
        <5>3. t <= orphans /\ (s <= tick + 1 => Cap - (tick + 1) + a <= Cap - s)
          BY <1>2, <5>1, <5>2
        <5> QED BY <4>1, <4>2, <5>3
      <4> QED BY <1>2, <4>3, <4>4
    <3> QED BY <3>1, <3>2 DEF TickUpper
  <2> QED BY <2>1, <2>2
<1> QED BY <1>1, <1>3, <1>4, <1>5, <1>6 DEF ApiInv

\* A caller moves on, and the buckets stay or there is a new one.
LEMMA CallersMove ==
    ASSUME caller \in [Callers -> ApiCallers], NEW c \in Callers, NEW next,
           caller' = [caller EXCEPT ![c] = next], tick' = tick,
           DOMAIN buckets \subseteq DOMAIN buckets', next \in ApiCallers'
    PROVE  caller' \in [Callers -> ApiCallers']
<1>1. ApiCallers \subseteq ApiCallers'
  BY DEF ApiCallers
<1>2. caller \in [Callers -> ApiCallers']
  BY <1>1
<1> QED BY <1>2

LEMMA ApiLooks == ASSUME ApiInv, NEW c \in Callers, LookUp(c) PROVE ApiInv'
<1>1. /\ mapped' = TRUE /\ UNCHANGED <<tick, takes, refusals, orphans>>
      /\ caller' = [caller EXCEPT ![c] = [pc |-> "found", bucket |-> Len(buckets')]]
  BY DEF LookUp
<1>2. CASE mapped
  <2>1. buckets' = buckets
    BY <1>2 DEF LookUp
  <2>2. [pc |-> "found", bucket |-> Len(buckets')] \in ApiCallers'
    BY <1>2, <2>1, ApiTyped DEF ApiCallers
  <2>3. caller' \in [Callers -> ApiCallers']
    BY <1>1, <2>1, <2>2, CallersMove DEF ApiInv
  <2>4. Left' = Left /\ Newest' = Newest
    BY <1>1, <1>2, <2>1 DEF Left, Newest
  <2> QED BY <1>1, <1>2, <2>1, <2>3, <2>4 DEF ApiInv
<1>3. CASE ~mapped
  <2> DEFINE new == [tokens |-> Cap, seen |-> tick, newest |-> tick]
  <2>1. buckets' = Append(buckets, new)
    BY <1>3 DEF LookUp, Cap
  <2>2. tick \in Nat /\ Cap \in Nat /\ new \in Bucket /\ buckets \in Seq(Bucket)
    BY ApiTyped, CapIs DEF ApiInv, Bucket
  <2>3. Credit(new) = Cap - tick /\ new.newest = tick /\ tick <= tick
    BY <2>2 DEF Credit
  <2> HIDE DEF new
  <2>4. PICK l \in Nat : l = Len(buckets) /\ DOMAIN buckets = 1..l
    BY <2>2, LenProperties
  <2>5. /\ buckets' \in Seq(Bucket) /\ Len(buckets') = l + 1 /\ DOMAIN buckets' = 1..(l + 1)
        /\ buckets'[l + 1] = new /\ \A i \in 1..l : buckets'[i] = buckets[i]
    BY <2>1, <2>2, <2>4, AppendProperties, LenProperties
  <2>6. buckets' # <<>> /\ Last(buckets') = new
    <3>1. Len(buckets') # 0
      BY <2>4, <2>5
    <3> QED BY <2>5, <3>1, EmptySeq DEF Last
  <2>7. DOMAIN buckets \subseteq DOMAIN buckets' /\ Len(buckets') \in DOMAIN buckets'
    BY <2>4, <2>5
  <2>8. [pc |-> "found", bucket |-> Len(buckets')] \in ApiCallers'
    BY <2>7 DEF ApiCallers
  <2>9. caller' \in [Callers -> ApiCallers']
    BY <1>1, <2>7, <2>8, CallersMove DEF ApiInv
  <2>10. Left' = Left /\ Newest' = Newest
    BY <1>1, <1>3, <2>3, <2>6 DEF Left, Newest
  <2>11. TickLower(takes, Cap - tick, tick)
    <3>1. ASSUME NEW s \in Int
          PROVE  Cap - tick + Step * Cardinality(Spent(takes, s, tick)) >= Cap - tick
      <4>1. Cardinality(Spent(takes, s, tick)) \in Nat
        BY <2>2, Counted DEF ApiInv
      <4>2. Step * Cardinality(Spent(takes, s, tick)) \in Nat
        BY <4>1, EmptiedMore
      <4> QED BY <2>2, <4>2
    <3>2. Cap - tick >= -tick
      BY <2>2
    <3> QED BY <3>1, <3>2 DEF TickLower
  <2>12. ASSUME NEW i \in DOMAIN buckets'
         PROVE  /\ TickLower(takes, Credit(buckets'[i]), buckets'[i].newest)
                /\ buckets'[i].newest <= tick
    <3>1. i \in 1..l \/ i = l + 1
      BY <2>4, <2>5
    <3>2. CASE i \in 1..l
      BY <2>4, <2>5, <3>2 DEF ApiInv
    <3>3. CASE i = l + 1
      BY <2>3, <2>5, <2>11, <3>3
    <3> QED BY <3>1, <3>2, <3>3
  <2> QED BY <1>1, <2>5, <2>6, <2>9, <2>10, <2>12 DEF ApiInv
<1> QED BY <1>2, <1>3

LEMMA ApiReads == ASSUME ApiInv, NEW c \in Callers, ReadClock(c) PROVE ApiInv'
<1> DEFINE next == [pc |-> "read", bucket |-> caller[c].bucket, now |-> tick]
<1>1. /\ caller' = [caller EXCEPT ![c] = next] /\ caller[c].pc = "found"
      /\ UNCHANGED <<tick, mapped, buckets, takes, refusals, orphans>>
  BY DEF ReadClock
<1>2. tick \in Nat /\ tick \in 0..tick
  BY ApiTyped
<1>3. caller[c] \in ApiCallers
  BY DEF ApiInv
<1>4. caller[c].bucket \in DOMAIN buckets
  BY <1>1, <1>3 DEF ApiCallers, Resting
<1>5. next \in ApiCallers'
  BY <1>1, <1>2, <1>4 DEF ApiCallers
<1>6. caller' \in [Callers -> ApiCallers']
  <2> HIDE DEF next
  <2> QED BY <1>1, <1>5, CallersMove DEF ApiInv
<1>7. Left' = Left /\ Newest' = Newest
  BY <1>1 DEF Left, Newest
<1> QED BY <1>1, <1>6, <1>7 DEF ApiInv

LEMMA BucketChanged ==
    ASSUME ApiInv, NEW i \in DOMAIN buckets, NEW b \in Bucket,
           buckets' = [buckets EXCEPT ![i] = b], mapped' = mapped, tick' = tick
    PROVE  /\ buckets' \in Seq(Bucket) /\ DOMAIN buckets' = DOMAIN buckets
           /\ buckets' # <<>>
           /\ \A j \in DOMAIN buckets : buckets'[j] = IF j = i THEN b ELSE buckets[j]
           /\ mapped /\ i = Len(buckets) => Left' = Credit(b) /\ Newest' = b.newest
           /\ ~(mapped /\ i = Len(buckets)) => Left' = Left /\ Newest' = Newest
<1>1. buckets \in Seq(Bucket) /\ Len(buckets) \in Nat /\ DOMAIN buckets = 1..Len(buckets)
  BY LenProperties DEF ApiInv
<1>2. /\ buckets' \in Seq(Bucket) /\ Len(buckets') = Len(buckets)
      /\ DOMAIN buckets' = DOMAIN buckets
      /\ \A j \in DOMAIN buckets : buckets'[j] = IF j = i THEN b ELSE buckets[j]
  BY <1>1, ExceptSeq
<1>3. buckets' # <<>>
  BY <1>1, <1>2, EmptySeq
<1>4. mapped => Last(buckets') = IF i = Len(buckets) THEN b ELSE Last(buckets)
  BY <1>2, ApiTyped DEF Last
<1>5. CASE mapped
  <2>1. Left' = Credit(Last(buckets')) /\ Newest' = Last(buckets').newest
    BY <1>5 DEF Left, Newest, Credit
  <2>2. Left = Credit(Last(buckets)) /\ Newest = Last(buckets).newest
    BY <1>5 DEF Left, Newest
  <2> QED BY <1>2, <1>3, <1>4, <1>5, <2>1, <2>2
<1>6. CASE ~mapped
  <2>1. Left' = Left /\ Newest' = Newest
    BY <1>6 DEF Left, Newest, Cap
  <2> QED BY <1>2, <1>3, <1>6, <2>1
<1> QED BY <1>5, <1>6

LEMMA ApiAllows == ASSUME ApiInv, NEW c \in Callers, Allow(c) PROVE ApiInv'
<1>1. caller[c].pc = "read" /\ caller[c] \in ApiCallers
  BY DEF Allow, ApiInv
<1>2. PICK i \in DOMAIN buckets, n \in 0..tick : i = caller[c].bucket /\ n = caller[c].now
  BY <1>1 DEF ApiCallers, Resting
<1>3. PICK b \in Bucket : b = buckets[i] /\ b.newest <= tick
  BY ApiTyped DEF ApiInv
<1>4. PICK v \in Int, m \in Nat : v = Credit(b) /\ m = b.newest /\ m <= tick
  BY <1>3 DEF Bucket, Credit
<1>5. /\ tick \in Nat /\ orphans \in Nat /\ Cap \in Nat /\ Step \in Nat /\ n \in Nat
      /\ n <= tick /\ Past(takes, tick)
  BY ApiTyped, CapIs DEF ApiInv
<1>6. PICK h \in Int : h = Least(Cap, b.tokens + (n - b.seen)) /\ h - n = Least(v, Cap - n)
  <2>1. b.tokens \in Int /\ b.seen \in Nat /\ v = b.tokens - b.seen
    BY <1>4 DEF Bucket, Credit
  <2> QED BY <1>5, <2>1 DEF Least
<1>7. PICK l \in Nat : l = (IF n > m THEN n ELSE m) /\ l <= tick
  BY <1>4, <1>5
<1>8. /\ n <= l /\ TickLower(takes, h - n, l) /\ h - n \in Int
      /\ TickUpper(takes, v, m, orphans) => TickUpper(takes, h - n, l, orphans)
  <2>1. TickLower(takes, v, m)
    BY <1>3, <1>4 DEF ApiInv
  <2> QED BY <1>4, <1>5, <1>6, <1>7, <2>1, Filled
<1>9. mapped /\ i = Len(buckets) => Left = v /\ Newest = m
  BY <1>3, <1>4, ApiTyped DEF Left, Newest
<1>10. caller' \in [Callers -> ApiCallers] /\ UNCHANGED <<tick, mapped>>
  <2>1. caller' = [caller EXCEPT ![c] = Resting] /\ UNCHANGED <<tick, mapped>>
    BY DEF Allow, Move, Resting
  <2> QED BY <2>1 DEF ApiInv, ApiCallers
<1> DEFINE removed == ~(mapped /\ i = Len(buckets))
           Left2(k) == [tokens |-> k, seen |-> n, newest |-> l]
<1>11. \/ /\ h >= Step /\ buckets' = [buckets EXCEPT ![i] = Left2(h - Step)]
          /\ takes' = Append(takes, n) /\ refusals' = refusals
          /\ orphans' = IF removed THEN orphans + 1 ELSE orphans
       \/ /\ h < Step /\ buckets' = [buckets EXCEPT ![i] = Left2(h)]
          /\ refusals' = refusals \cup {[at |-> n, ahead |-> l - n]}
          /\ takes' = takes /\ orphans' = orphans
  BY <1>2, <1>3, <1>4, <1>6, <1>7 DEF Allow, Cap
<1>12. \A k \in Int : /\ Left2(k) \in Bucket /\ Credit(Left2(k)) = k - n
                      /\ Left2(k).newest = l
  BY <1>5, <1>7 DEF Bucket, Credit
<1> HIDE DEF Left2
<1>13. CASE h >= Step
  <2>1. /\ buckets' = [buckets EXCEPT ![i] = Left2(h - Step)]
        /\ takes' = Append(takes, n) /\ refusals' = refusals
        /\ orphans' = IF removed THEN orphans + 1 ELSE orphans
    BY <1>5, <1>11, <1>13
  <2>2. PICK new \in Bucket : new = Left2(h - Step) /\ new.newest = l
                              /\ Credit(new) = h - n - Step
    <3>1. h - Step \in Int /\ h - Step - n = h - n - Step
      BY <1>5
    <3> QED BY <1>12, <3>1
  <2>3. /\ buckets' \in Seq(Bucket) /\ DOMAIN buckets' = DOMAIN buckets /\ buckets' # <<>>
        /\ \A j \in DOMAIN buckets : buckets'[j] = IF j = i THEN new ELSE buckets[j]
        /\ ~removed => Left' = Credit(new) /\ Newest' = new.newest
        /\ removed => Left' = Left /\ Newest' = Newest
    BY <1>10, <2>1, <2>2, BucketChanged
  <2>4. Grown(takes, n, tick, takes') /\ Past(takes', tick)
    BY <1>5, <2>1, OneMore DEF Grown
  <2>5. /\ TickLower(takes', h - n - Step, l)
        /\ TickUpper(takes, h - n, l, orphans) =>
              /\ TickUpper(takes', h - n - Step, l, orphans)
              /\ \A s \in Int : s <= n => TakenSince(takes', s) <= Window(s, n, orphans)
    <3>1. h - n + n >= Step
      BY <1>5, <1>13
    <3> QED BY <1>5, <1>8, <2>4, <3>1, Gives
  <2>6. ASSUME NEW j \in DOMAIN buckets'
        PROVE  /\ TickLower(takes', Credit(buckets'[j]), buckets'[j].newest)
               /\ buckets'[j].newest <= tick
    <3>1. CASE j = i
      BY <1>7, <2>2, <2>3, <2>5, <3>1
    <3>2. CASE j # i
      <4>1. buckets'[j] = buckets[j] /\ j \in DOMAIN buckets
        BY <2>3, <3>2
      <4>2. TickLower(takes, Credit(buckets[j]), buckets[j].newest)
            /\ buckets[j].newest <= tick
        BY <4>1 DEF ApiInv
      <4>3. Credit(buckets[j]) \in Int /\ buckets[j].newest \in Nat
        BY <4>1, ApiTyped
      <4> QED BY <1>5, <2>4, <4>1, <4>2, <4>3, LowerKept
    <3> QED BY <3>1, <3>2
  <2>7. orphans' \in Nat /\ Limited(takes', orphans') /\ TickUpper(takes', Left', Newest', orphans')
    <3>1. CASE removed
      <4>1. orphans' = orphans + 1 /\ Left' = Left /\ Newest' = Newest
        BY <2>1, <2>3, <3>1
      <4>2. Limited(takes', orphans + 1)
        BY <1>5, <2>4, OrphanTakes DEF ApiInv
      <4>3. TickUpper(takes', Left, Newest, orphans + 1)
        <5>1. Left \in Int /\ Newest \in Nat /\ TickUpper(takes, Left, Newest, orphans)
          BY ApiTyped DEF ApiInv
        <5> QED BY <1>5, <2>4, <5>1, UpperOrphan
      <4> QED BY <1>5, <4>1, <4>2, <4>3
    <3>2. CASE ~removed
      <4>1. orphans' = orphans /\ Left' = h - n - Step /\ Newest' = l
        BY <2>1, <2>2, <2>3, <3>2
      <4>2. TickUpper(takes, v, m, orphans)
        BY <1>9, <3>2 DEF ApiInv
      <4>3. /\ TickUpper(takes', h - n - Step, l, orphans)
            /\ \A s \in Int : s <= n => TakenSince(takes', s) <= Window(s, n, orphans)
        BY <1>8, <2>5, <4>2
      <4>4. Limited(takes', orphans)
        BY <1>5, <2>4, <4>3, LimitKept DEF ApiInv
      <4> QED BY <1>5, <4>1, <4>3, <4>4
    <3> QED BY <3>1, <3>2
  <2>8. Generous(takes', refusals)
    BY <1>5, <2>4, GenerousKept DEF ApiInv
  <2>9. caller' \in [Callers -> ApiCallers']
    BY <1>10, <2>3 DEF ApiCallers
  <2> QED BY <1>10, <2>1, <2>3, <2>4, <2>6, <2>7, <2>8, <2>9 DEF ApiInv
<1>14. CASE h < Step
  <2>1. /\ buckets' = [buckets EXCEPT ![i] = Left2(h)]
        /\ refusals' = refusals \cup {[at |-> n, ahead |-> l - n]}
        /\ takes' = takes /\ orphans' = orphans
    BY <1>5, <1>11, <1>14
  <2>2. PICK new \in Bucket : new = Left2(h) /\ new.newest = l /\ Credit(new) = h - n
    BY <1>12
  <2>3. /\ buckets' \in Seq(Bucket) /\ DOMAIN buckets' = DOMAIN buckets /\ buckets' # <<>>
        /\ \A j \in DOMAIN buckets : buckets'[j] = IF j = i THEN new ELSE buckets[j]
        /\ ~removed => Left' = Credit(new) /\ Newest' = new.newest
        /\ removed => Left' = Left /\ Newest' = Newest
    BY <1>10, <2>1, <2>2, BucketChanged
  <2>4. ASSUME NEW j \in DOMAIN buckets'
        PROVE  /\ TickLower(takes, Credit(buckets'[j]), buckets'[j].newest)
               /\ buckets'[j].newest <= tick
    BY <1>7, <1>8, <2>2, <2>3 DEF ApiInv
  <2>5. TickUpper(takes, Left', Newest', orphans)
    <3>1. CASE removed
      BY <2>3, <3>1 DEF ApiInv
    <3>2. CASE ~removed
      <4>1. TickUpper(takes, v, m, orphans)
        BY <1>9, <3>2 DEF ApiInv
      <4> QED BY <1>8, <2>2, <2>3, <3>2, <4>1
    <3> QED BY <3>1, <3>2
  <2>6. refusals' \in SUBSET Refusals /\ Generous(takes, refusals')
    <3>1. PICK d \in Nat : d = l - n /\ n + d = l
      BY <1>5, <1>8
    <3>2. PICK w \in Nat, s \in Int : /\ w = (2 * Step - 1) * Full /\ w >= Cap
                                      /\ s = n - w /\ s = n - (2 * Step - 1) * Full
      BY <1>5, CapIs
    <3>3. PICK k \in Nat : k = Step * Cardinality(Spent(takes, s, l))
      BY <1>5, Counted, EmptiedMore
    <3>4. h - n + k >= Cap - l \/ h - n + k >= -s
      BY <1>8, <3>3 DEF TickLower
    <3>5. k + d > Cap - Step
      BY <1>5, <1>8, <1>14, <3>1, <3>2, <3>4
    <3>6. Emptied(takes, n - (2 * Step - 1) * Full, n + d, d)
      BY <3>1, <3>2, <3>3, <3>5, CapIs DEF Emptied
    <3>7. refusals' = refusals \cup {[at |-> n, ahead |-> d]}
      BY <2>1, <3>1
    <3> QED BY <1>5, <3>6, <3>7 DEF ApiInv, Generous, Refusals
  <2>7. caller' \in [Callers -> ApiCallers']
    BY <1>10, <2>3 DEF ApiCallers
  <2> QED BY <1>10, <2>1, <2>3, <2>4, <2>5, <2>6, <2>7 DEF ApiInv
<1> QED BY <1>5, <1>13, <1>14

\* A removed bucket was full, or what a new one gives beyond it is counted.
LEMMA ApiCleans == ASSUME ApiInv, Cleanup PROVE ApiInv'
<1>1. /\ mapped /\ mapped' = FALSE
      /\ orphans' = IF Last(buckets).newest < tick - StaleAfter THEN orphans
                                                                ELSE orphans + Full
      /\ UNCHANGED <<tick, buckets, caller, takes, refusals>>
  BY DEF Cleanup
<1>2. PICK v \in Int, m \in Nat : v = Left /\ m = Newest /\ m <= tick /\ v >= -m
  <2>1. TickLower(takes, Left, Newest)
    BY <1>1, ApiTyped DEF ApiInv, Left, Newest
  <2> QED BY <2>1, ApiTyped DEF TickLower
<1>3. /\ tick \in Nat /\ Cap \in Nat /\ Step \in Nat /\ Full \in Nat /\ orphans \in Nat
      /\ Cap <= StaleAfter + 1 /\ StaleAfter \in Nat /\ Past(takes, tick)
  BY ApiTyped, CapIs DEF ApiInv
<1>4. PICK o \in Nat : /\ o = orphans' /\ orphans <= o
                       /\ \/ o = orphans /\ m < tick - StaleAfter
                          \/ o = orphans + Full
  BY <1>1, <1>2, <1>3 DEF Newest
<1>5. Left' = Cap - tick /\ Newest' = tick
  BY <1>1 DEF Left, Newest, Cap
<1>6. ASSUME NEW s \in Int
      PROVE  /\ s <= tick => Cap - tick + (TakenSince(takes, s) - o) * Step <= Cap - s
             /\ s > tick => TakenSince(takes, s) <= o
  <2>1. PICK t \in Nat : t = TakenSince(takes, s) /\ (s > tick => t = 0)
    BY <1>3, Counted
  <2>2. PICK x, a \in Int : x = (t - orphans) * Step /\ a = (t - o) * Step
    BY <1>3
  <2>3. /\ s <= m => v + x <= Cap - s
        /\ s > m => t <= orphans
    BY <1>2, <2>1, <2>2 DEF ApiInv, TickUpper
  <2>4. CASE s <= m
    <3>1. /\ o = orphans => a = x
          /\ o = orphans + Full => a = x - Cap
      BY <1>3, <2>2 DEF Cap
    <3>2. Cap - tick + a <= Cap - s
      BY <1>2, <1>3, <1>4, <2>3, <2>4, <3>1
    <3>3. ~(s > tick)
      BY <1>2, <1>3, <2>4
    <3> QED BY <2>1, <2>2, <3>2, <3>3
  <2>5. CASE s > m
    <3>1. t - o <= 0
      <4>1. t <= orphans /\ orphans <= o
        BY <1>4, <2>3, <2>5
      <4> QED BY <1>3, <4>1
    <3>2. a <= 0 * Step
      BY <1>3, <2>2, <3>1, TimesMonotone
    <3>3. (s <= tick => Cap - tick + a <= Cap - s) /\ t <= o
      BY <1>3, <1>4, <2>3, <2>5, <3>2
    <3> QED BY <2>1, <2>2, <3>3
  <2> QED BY <2>4, <2>5
<1>7. TickUpper(takes, Left', Newest', o)
  BY <1>5, <1>6 DEF TickUpper
<1>8. Limited(takes, o)
  BY <1>3, <1>4, LimitRaised DEF ApiInv
<1>9. caller' \in [Callers -> ApiCallers']
  BY <1>1 DEF ApiInv, ApiCallers
<1> QED BY <1>1, <1>4, <1>7, <1>8, <1>9 DEF ApiInv

LEMMA ApiKeeps ==
    ASSUME ApiInv, [Tick \/ Cleanup \/ \E c \in Callers : ApiClient(c)]_noticeVars
    PROVE  ApiInv'
<1>1. CASE UNCHANGED noticeVars
  <2>1. Left' = Left /\ Newest' = Newest /\ ApiCallers' = ApiCallers
    BY <1>1 DEF Left, Newest, ApiCallers, noticeVars
  <2> QED BY <1>1, <2>1 DEF ApiInv, noticeVars
<1> QED BY <1>1, ApiTick, ApiLooks, ApiReads, ApiAllows, ApiCleans DEF ApiClient

LEMMA ApiInit == NoticesInit => ApiInv
<1> SUFFICES ASSUME NoticesInit PROVE ApiInv
  OBVIOUS
<1>1. /\ tick = 0 /\ mapped = FALSE /\ orphans = 0 /\ buckets = <<>>
      /\ caller = [c \in Callers |-> Resting] /\ takes = <<>> /\ refusals = {}
  BY DEF NoticesInit
<1>2. buckets \in Seq(Bucket) /\ DOMAIN buckets = {}
  BY <1>1, EmptySeq
<1>3. Left = Cap - 0 /\ Newest = 0 /\ Cap \in Nat /\ Step \in Nat
  BY <1>1, CapIs DEF Left, Newest
<1>4. ASSUME NEW s \in Int
      PROVE  /\ s <= 0 => Cap - 0 + (TakenSince(<<>>, s) - 0) * Step <= Cap - s
             /\ s > 0 => TakenSince(<<>>, s) <= 0
  <2>1. TakenSince(<<>>, s) = 0
    BY NothingTaken
  <2>2. (0 - 0) * Step = 0
    BY <1>3
  <2> QED BY <1>3, <2>1, <2>2
<1>5. TickUpper(takes, Left, Newest, orphans)
  BY <1>1, <1>3, <1>4 DEF TickUpper
<1>6. caller \in [Callers -> ApiCallers]
  BY <1>1 DEF ApiCallers
<1> QED BY <1>1, <1>2, <1>5, <1>6, NothingTaken DEF ApiInv

LEMMA ApiHeld == ApiInv => SpendingHeld
  BY BothHeld DEF ApiInv

\* Whichever of the three buckets a behaviour has (that of VirusTotal, emptied by
\* OnAlert and takeToken; that of a destination, by dispatch and allowSend; that
\* of an address, by rateLimiter.allow, bucket.allow and cleanup), it gives in any time
\* by the clocks of its callers no more than a full bucket and what the time earns, but
\* for what removed buckets give (`orphans'); and it refuses only when a full bucket was
\* given in the time that fills it at the worst rounding, less what the API takes back
\* when a request reads the clock before another and locks after it (`ahead').
THEOREM BucketsLimit ==
    VirusTotalSpec \/ NotifierSpec \/ ApiSpec => []SpendingHeld
<1>1. VirusTotalSpec => []SpendingHeld
  <2>1. NoticesInit => WholeInv
    BY WholeInit
  <2>2. WholeInv /\ [Tick \/ \E c \in Callers : VirusTotal(c)]_noticeVars => WholeInv'
    BY VirusTotalKeeps
  <2> QED BY <2>1, <2>2, WholeHeld, PTL DEF VirusTotalSpec
<1>2. NotifierSpec => []SpendingHeld
  <2>1. NoticesInit => NotifierInv
    BY WholeInit DEF NotifierInv
  <2>2. NotifierInv /\ [Tick \/ \E c \in Callers : Notifier(c)]_noticeVars => NotifierInv'
    BY NotifierKeeps
  <2>3. NotifierInv => SpendingHeld
    BY WholeHeld DEF NotifierInv
  <2> QED BY <2>1, <2>2, <2>3, PTL DEF NotifierSpec
<1>3. ApiSpec => []SpendingHeld
  <2>1. ApiInv /\ [Tick \/ Cleanup \/ \E c \in Callers : ApiClient(c)]_noticeVars
           => ApiInv'
    BY ApiKeeps
  <2> QED BY <2>1, ApiInit, ApiHeld, PTL DEF ApiSpec
<1> QED BY <1>1, <1>2, <1>3
=============================================================================
