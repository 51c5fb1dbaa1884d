------------------------------- MODULE Notices -------------------------------
(***************************************************************************)
(* Three token buckets of the manager: requests to VirusTotal when alerts  *)
(* are enriched, notices to a destination, and requests to the API from an *)
(* address. A behaviour has one of them, the meter; its workers, notifier  *)
(* goroutines or API handlers are the Callers. Step ticks earn one token.  *)
(***************************************************************************)
EXTENDS Integers, Sequences, SequencesExt, FiniteSets

CONSTANTS
    Callers,
    Full, Step,        \* tokens of a full bucket (rate, burst); ticks per token
    Iocs, Ttl,         \* what alerts may be looked up by, numbered in the order
                       \* of preference; cacheTTL
    StaleAfter,        \* rlBucketTTL
    MaxTick, MaxTakes  \* bounds

ASSUME NoticesAssumption ==
    /\ Full \in Nat \ {0} /\ Step \in Nat \ {0}
    /\ {Ttl, StaleAfter, MaxTick, MaxTakes} \subseteq Nat
    \* A bucket is full before it is removed: rlBucketTTL is two minutes, and burst is
    \* earned in two seconds unless it is configured to more than twice the rate.
    /\ Full * Step <= StaleAfter + 1

VARIABLES
    tick,
    tokens, filled,    \* the bucket: its tokens and lastTick or lastFill
    mapped,            \* whether the bucket is in its map (not for VirusTotal)
    buckets,           \* those of the API's client, the last of which may be in the
                       \* map: [tokens, seen: lastSeen, newest: history, the latest
                       \* reading of the clock that was used on it]
    cache,             \* [Iocs -> when the answer expires]
    caller,            \* [Callers -> what it does: see the three parts]
    takes,             \* history: when tokens were taken, by the caller's clock
    refusals,          \* history: when a token was refused, by the caller's clock, and
                       \* by how much an earlier caller's clock was ahead: [at, ahead]
    orphans            \* history: tokens taken from a bucket that was removed, or
                       \* put into one that replaced a bucket in use

noticeVars ==
    <<tick, tokens, filled, mapped, buckets, cache, caller, takes, refusals, orphans>>

Resting == [pc |-> "rest", iocs |-> <<>>]

NoticesInit ==
    /\ tick = 0 /\ tokens = Full /\ filled = 0 /\ mapped = FALSE
    /\ cache = [i \in Iocs |-> 0] /\ caller = [c \in Callers |-> Resting]
    /\ buckets = <<>> /\ takes = <<>> /\ refusals = {} /\ orphans = 0

\* An answer that has expired is as good as none (0).
Tick ==
    /\ tick < MaxTick /\ tick' = tick + 1
    /\ cache' = [i \in Iocs |-> IF cache[i] > tick' THEN cache[i] ELSE 0]
    /\ UNCHANGED <<tokens, filled, mapped, buckets, caller, takes, refusals, orphans>>

Least(m, n) == IF m <= n THEN m ELSE n

\* Mutant: the clock of the bucket stands still while nothing is earned in full
\* (and is not moved when something is).
EarnedAgain == [tokens |-> Least(Full, tokens + (tick - filled) \div Step),
                filled |-> filled]

\* takeToken and allowSend: whole tokens are credited, and the part of a token
\* earned since is forgotten with them.
Earned == IF tick - filled >= Step
          THEN [tokens |-> Least(Full, tokens + (tick - filled) \div Step),
                filled |-> tick]
          ELSE [tokens |-> tokens, filled |-> filled]

Take(Granted, Refused) ==
    LET b == Earned
    IN  /\ filled' = b.filled
        /\ IF b.tokens > 0
           THEN /\ Len(takes) < MaxTakes
                /\ tokens' = b.tokens - 1 /\ takes' = Append(takes, tick)
                /\ UNCHANGED refusals /\ Granted
           ELSE /\ tokens' = b.tokens
                /\ refusals' = refusals \cup {[at |-> tick, ahead |-> 0]}
                /\ UNCHANGED takes /\ Refused

-----------------------------------------------------------------------------
(* VirusTotal.OnAlert: the hash, address and domain of the event, in turn  *)

Move(c, pc, iocs) == caller' = [caller EXCEPT ![c] = [pc |-> pc, iocs |-> iocs]]
\* A lookup without an answer goes on with the next of them.
NextIoc(c) == LET rest == Tail(caller[c].iocs)
              IN  Move(c, IF rest = <<>> THEN "rest" ELSE "look", rest)

OnAlert(c) ==
    /\ caller[c] = Resting /\ Len(takes) < MaxTakes
    /\ \E found \in SUBSET Iocs \ {{}} :
         Move(c, "look", SetToSortSeq(found, LAMBDA i, j : i < j))
    /\ UNCHANGED <<tick, tokens, filled, mapped, buckets, cache, takes, refusals, orphans>>

\* lookup: an answer in the cache ends the enrichment; without one,
LookInCache(c) ==
    /\ caller[c].pc = "look"
    /\ IF tick < cache[Head(caller[c].iocs)] THEN Move(c, "rest", <<>>)
       ELSE Move(c, "take", caller[c].iocs)
    /\ UNCHANGED <<tick, tokens, filled, mapped, buckets, cache, takes, refusals, orphans>>

TakeToken(c) ==
    /\ caller[c].pc = "take"
    /\ Take(Move(c, "ask", caller[c].iocs), NextIoc(c))
    /\ UNCHANGED <<tick, mapped, buckets, cache, orphans>>

\* Found or not found is an answer; another status or an error is none.
Answered(c) ==
    /\ caller[c].pc = "ask"
    /\ \/ /\ cache' = [cache EXCEPT ![Head(caller[c].iocs)] = tick + Ttl]
          /\ Move(c, "rest", <<>>)
       \/ UNCHANGED cache /\ NextIoc(c)
    /\ UNCHANGED <<tick, tokens, filled, mapped, buckets, takes, refusals, orphans>>

VirusTotal(c) == OnAlert(c) \/ LookInCache(c) \/ TakeToken(c) \/ Answered(c)

-----------------------------------------------------------------------------
(* The notifier: one destination                                           *)

\* allowSend makes the bucket at its first use.
AllowSend(c) ==
    IF ~mapped
    THEN /\ mapped' = TRUE /\ tokens' = Full - 1 /\ filled' = tick
         /\ takes' = Append(takes, tick)
         /\ Move(c, "send", <<>>) /\ UNCHANGED refusals
    ELSE Take(Move(c, "send", <<>>), UNCHANGED caller) /\ UNCHANGED mapped

\* dispatch, dispatchCase and dispatchDisconnect: whatever is told, and also when
\* a destination of the kind is told nothing of it, a token is taken.
Dispatch(c) ==
    /\ caller[c] = Resting /\ Len(takes) < MaxTakes /\ AllowSend(c)
    /\ UNCHANGED <<tick, buckets, cache, orphans>>

\* The request ends, well or badly; it is not repeated.
Sent(c) ==
    /\ caller[c].pc = "send" /\ Move(c, "rest", <<>>)
    /\ UNCHANGED <<tick, tokens, filled, mapped, buckets, cache, takes, refusals, orphans>>

Notifier(c) == Dispatch(c) \/ Sent(c)

-----------------------------------------------------------------------------
(* The API: tokens and what they earn are counted in ticks, Step to a token *)

\* rateLimiter.allow looks the bucket up or makes it,
LookUp(c) ==
    /\ caller[c] = Resting /\ Len(takes) < MaxTakes
    /\ mapped' = TRUE
    /\ buckets' = IF mapped THEN buckets
                  ELSE Append(buckets, [tokens |-> Full * Step, seen |-> tick,
                                        newest |-> tick])
    /\ caller' = [caller EXCEPT ![c] = [pc |-> "found", bucket |-> Len(buckets')]]
    /\ UNCHANGED <<tick, tokens, filled, cache, takes, refusals, orphans>>

\* and bucket.allow reads the clock,
ReadClock(c) ==
    /\ caller[c].pc = "found"
    /\ caller' = [caller EXCEPT
                    ![c] = [pc |-> "read", bucket |-> caller[c].bucket, now |-> tick]]
    /\ UNCHANGED <<tick, tokens, filled, mapped, buckets, cache, takes, refusals, orphans>>

\* and then takes the bucket's lock, fills it and takes a token. Another request
\* may have read the clock later and locked before: then the time since is
\* negative, and empties the bucket.
Allow(c) ==
    LET now == caller[c].now
        b == buckets[caller[c].bucket]
        have == Least(Full * Step, b.tokens + (now - b.seen))
        newest == IF now > b.newest THEN now ELSE b.newest
        removed == ~(mapped /\ caller[c].bucket = Len(buckets))
        Left(n) == buckets' = [buckets EXCEPT ![caller[c].bucket] =
                                 [tokens |-> n, seen |-> now, newest |-> newest]]
    IN  /\ caller[c].pc = "read" /\ Move(c, "rest", <<>>)
        /\ \/ /\ have >= Step /\ Left(have - Step)
              /\ takes' = Append(takes, now)
              /\ orphans' = IF removed THEN orphans + 1 ELSE orphans
              /\ UNCHANGED refusals
           \/ /\ have < Step /\ Left(have)
              /\ refusals' = refusals \cup {[at |-> now, ahead |-> newest - now]}
              /\ UNCHANGED <<takes, orphans>>
        /\ UNCHANGED <<tick, tokens, filled, mapped, cache>>

\* Meanwhile cleanup may remove the bucket of a client that was silent for long
\* from the map, or of one whose last request had read the clock long ago.
Cleanup ==
    /\ mapped /\ Last(buckets).seen < tick - StaleAfter /\ mapped' = FALSE
    /\ orphans' = IF Last(buckets).newest < tick - StaleAfter THEN orphans
                                                              ELSE orphans + Full
    /\ UNCHANGED <<tick, tokens, filled, buckets, cache, caller, takes, refusals>>

ApiClient(c) == LookUp(c) \/ ReadClock(c) \/ Allow(c)

-----------------------------------------------------------------------------
VirusTotalSpec == NoticesInit /\ [][Tick \/ \E c \in Callers : VirusTotal(c)]_noticeVars
NotifierSpec == NoticesInit /\ [][Tick \/ \E c \in Callers : Notifier(c)]_noticeVars
ApiSpec == NoticesInit /\ [][Tick \/ Cleanup \/ \E c \in Callers : ApiClient(c)]_noticeVars

-----------------------------------------------------------------------------
(* Properties                                                              *)

Between(s, t) == {i \in DOMAIN takes : s <= takes[i] /\ takes[i] <= t}

\* The buckets limit and do no more. However the callers overlap and whatever is
\* rounded, in any time by the callers' clocks no more tokens are taken than a full
\* bucket holds and the time earns (and one for each request that held a removed
\* bucket of the API, and a full one for each that was removed in use); and a token
\* is refused only if as many as a full bucket holds were taken in the time that
\* fills it when each token costs almost two, less what the time earns by which
\* the clock of a request that came first was ahead (never for the first two).
SpendingHeld ==
    /\ \A i, j \in DOMAIN takes : takes[i] <= takes[j] =>
         Cardinality(Between(takes[i], takes[j]))
             <= Full + (takes[j] - takes[i]) \div Step + 1 + orphans
    /\ \A r \in refusals :
         Step * Cardinality(Between(r.at - (2 * Step - 1) * Full, r.at + r.ahead))
             + r.ahead > Step * (Full - 1)

\* A request is refused only after a full bucket was taken. Not so for the API: a
\* request that reads the clock (ratelimit.go:25) before another and locks after it
\* takes the time between from the bucket.
RefusedWhenEmpty ==
    \A r \in refusals :
        Cardinality(Between(r.at - (2 * Step - 1) * Full, r.at + r.ahead)) >= Full
=============================================================================
