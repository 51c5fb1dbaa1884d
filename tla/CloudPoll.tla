---------------------------- MODULE CloudPoll ----------------------------
(***************************************************************************)
(* One source of the agent's cloud collector: the records an API of a      *)
(* provider offers, the polls that list them from a remembered time on,    *)
(* and the channel they are put into.  The seven sources differ in the     *)
(* query they send, which is a record of Sources; which of them a          *)
(* behaviour is about is chosen once.  Times are ticks of the provider's   *)
(* clock, Second of them to a second.                                      *)
(***************************************************************************)
EXTENDS Integers, FiniteSets, Sequences

CONSTANTS Second,        \* ticks in a second, the unit of the queries
          Interval,      \* ticks between two polls: how far a first poll looks back
          Limit,         \* entries one poll can list
          MaxTime, MaxLogged,
          MaxPollFaults  \* failed polls, lost records and restarts, together

ASSUME CloudAssumption ==
    /\ {Second, Interval, Limit} \subseteq Nat \ {0}
    /\ {MaxTime, MaxLogged, MaxPollFaults} \subseteq Nat

VARIABLES
    api,        \* the source
    now,        \* the provider's clock
    log,        \* the times of the records the provider has, in the order they came to be
    listed,     \* those of them its listing shows
    cursor,     \* cursors[provider]: the high-water mark, or Unset
    seen,       \* seenS3
    pollFaults,
    offered,    \* the records listed at some poll of this run of the agent
    behind,     \* those of them that came late: the query left them out when they were
                \* first listed, after a later record or at the first poll
    cutOff,     \* those that a query asked for and a listing was cut before
    lost,       \* those whose download failed, or that met a full channel
    emitted     \* how often each record went into the channel, counted up to 2

cloudVars == <<api, now, log, listed, cursor, seen, pollFaults,
               offered, behind, cutOff, lost, emitted>>

Unset == -1

(* What a source asks for and gets.  from: all records, those at the mark  *)
(* or later, those after it; whole: the mark is cut to a whole second;     *)
(* first: the records a listing that is cut at Limit keeps; early: the     *)
(* listing is cut before the mark is applied; blobs: an entry is a file to *)
(* download.                                                               *)
CloudTrail == [from |-> "after", whole |-> FALSE, first |-> "oldest", early |-> TRUE,  blobs |-> TRUE]
GuardDuty  == [from |-> "all",   whole |-> FALSE, first |-> "oldest", early |-> TRUE,  blobs |-> FALSE]
AzureLog   == [from |-> "at",    whole |-> TRUE,  first |-> "newest", early |-> FALSE, blobs |-> FALSE]
GcpAudit   == [from |-> "at",    whole |-> TRUE,  first |-> "oldest", early |-> FALSE, blobs |-> FALSE]
O365       == [from |-> "at",    whole |-> TRUE,  first |-> "oldest", early |-> FALSE, blobs |-> TRUE]
Workspace  == [from |-> "at",    whole |-> TRUE,  first |-> "newest", early |-> FALSE, blobs |-> FALSE]
Defender   == [from |-> "after", whole |-> TRUE,  first |-> "oldest", early |-> FALSE, blobs |-> FALSE]

Sources == {CloudTrail, GuardDuty, AzureLog, GcpAudit, O365, Workspace, Defender}

Records == DOMAIN log

CloudInit ==
    /\ api \in Sources
    /\ now = 0 /\ log = <<>> /\ listed = {}
    /\ cursor = Unset /\ seen = {}
    /\ pollFaults = 0
    /\ offered = {} /\ behind = {} /\ cutOff = {} /\ lost = {}
    /\ emitted = <<>>

(* The provider (external): time passes, a record comes to be, the listing *)
(* shows it then or later.                                                 *)
Happen ==
    /\ Len(log) < MaxLogged
    /\ log' = Append(log, now)
    /\ emitted' = Append(emitted, 0)
    /\ UNCHANGED <<api, now, listed, cursor, seen, pollFaults, offered, behind, cutOff, lost>>

List(e) ==
    /\ listed' = listed \cup {e}
    /\ UNCHANGED <<api, now, log, cursor, seen, pollFaults, offered, behind, cutOff, lost, emitted>>

Tick ==
    /\ now < MaxTime
    /\ now' = now + 1
    /\ UNCHANGED <<api, log, listed, cursor, seen, pollFaults, offered, behind, cutOff, lost, emitted>>

(* cursorSince: the mark, or the interval before now while there is none. *)
Since == IF cursor = Unset THEN now - Interval ELSE cursor

(* The time in the query: RFC3339 has no fraction of a second. *)
Asked == IF api.whole THEN Since - (Since % Second) ELSE Since

InWindow(e) == CASE api.from = "all"   -> TRUE
                 [] api.from = "at"    -> log[e] >= Asked
                 [] api.from = "after" -> log[e] > Asked

(* The records of log are in the order of their times. *)
Before(d, e) == IF api.first = "oldest" THEN d < e ELSE e < d

(* The entries of S a listing cut at Limit gives. *)
Cut(S) == {e \in S : Cardinality({d \in S : Before(d, e)}) < Limit}

(* The entries a poll goes through. *)
Page == IF api.early THEN {e \in Cut(listed) : InWindow(e)}
        ELSE Cut({e \in listed : InWindow(e)})

(* Mutants of Advanced: the mark is set to the clock, or only once. *)
AdvancedToNow(page) == IF api.from = "all" THEN cursor ELSE now
AdvancedOnce(page) ==
    IF cursor # Unset \/ api.from = "all" \/ page = {} THEN cursor
    ELSE log[CHOOSE e \in page : \A d \in page : ~Before(d, e)]

(* cursorAdvance: to the latest time on the page if that is ahead. *)
Advanced(page) ==
    LET times == {log[e] : e \in page}
    IN  IF api.from = "all" \/ times = {} THEN cursor
        ELSE CHOOSE t \in times \cup {cursor} : \A u \in times \cup {cursor} : u <= t

(* What a poll emits of a page: what it has not had before, without the    *)
(* files it cannot download or read.                                       *)
Downloaded(page, bad) == page \ (seen \cup bad)

(* A poll of a source: list, download what is a file, advance the mark to  *)
(* the newest entry listed, then emit.  A file that cannot be downloaded   *)
(* or read (bad) is passed over and the mark advances all the same; so it  *)
(* does when the channel is full and the record is dropped (full).         *)
Poll(page, bad, full) ==
    LET batch == Downloaded(page, bad)
    IN  /\ bad \subseteq page \ seen
        /\ api.blobs \/ bad = {}
        /\ full \subseteq batch
        /\ pollFaults' = pollFaults + Cardinality(bad \cup full)
        /\ pollFaults' <= MaxPollFaults
        /\ cursor' = Advanced(page)
        /\ seen' = IF api = CloudTrail THEN seen \cup batch ELSE seen
        /\ emitted' = [e \in Records |->
                          IF e \in batch \ full /\ emitted[e] < 2
                          THEN emitted[e] + 1 ELSE emitted[e]]
        /\ offered' = offered \cup listed
        /\ behind' = behind \cup {e \in listed \ offered :
               ~InWindow(e) /\ (cursor = Unset \/ \E d \in offered : log[d] >= log[e])}
        /\ cutOff' = cutOff \cup {e \in listed \ page : InWindow(e)}
        /\ lost' = lost \cup bad \cup full
        /\ UNCHANGED <<api, now, log, listed>>

(* No token, or a listing (any page of it) that fails: an error is         *)
(* reported and the mark stays.                                            *)
PollFails ==
    /\ pollFaults < MaxPollFaults
    /\ pollFaults' = pollFaults + 1
    /\ UNCHANGED <<api, now, log, listed, cursor, seen, offered,
                   behind, cutOff, lost, emitted>>

(* The agent restarts: New makes empty maps. *)
PollRestart ==
    /\ pollFaults < MaxPollFaults
    /\ pollFaults' = pollFaults + 1
    /\ cursor' = Unset /\ seen' = {}
    /\ offered' = {} /\ behind' = {} /\ cutOff' = {} /\ lost' = {}
    /\ UNCHANGED <<api, now, log, listed, emitted>>

(* Bound: a poll loses one record at most. *)
PollSome ==
    LET page == Page
    IN  \/ Poll(page, {}, {})
        \/ pollFaults < MaxPollFaults /\ \E e \in page :
               Poll(page, {e}, {}) \/ Poll(page, {}, {e})

CloudNext ==
    \/ Happen \/ Tick \/ PollSome \/ PollFails \/ PollRestart
    \/ \E e \in Records \ listed : List(e)

----------------------------------------------------------------------------
(* The sources whose listing starts at the mark and keeps the oldest: the  *)
(* others show the newest (AzureLog, Workspace), or the oldest of all they *)
(* have (CloudTrail, GuardDuty), and what is cut off stays out.            *)
Resumes == api.first = "oldest" /\ ~api.early

(* Records the source has to bring: listed in time, not lost on the way. *)
Owed == offered \ (behind \cup lost)

(* Two records at one whole second: a query for later ones passes over the *)
(* second of them when the page was cut between the two.                   *)
Tied(e) == api.from = "after" /\ \E d \in Records \ {e} : log[d] = log[e]

(* The mark passes no record: whatever a poll was offered in time it has   *)
(* emitted, unless a listing was cut before it; and a source that keeps    *)
(* the oldest then still asks for it.  Where a listing is cut the mark is  *)
(* what decides on where the next poll goes on (collector.go               *)
(* cursorAdvance, defender.go, o365.go).                                   *)
NothingPassedBy ==
    \A e \in Owed : \/ emitted[e] > 0
                    \/ e \in cutOff /\ (Resumes => InWindow(e) \/ Tied(e))

(* Not so: a cut listing of any source goes on where it ended.             *)
CutGoesOn == \A e \in Owed \cap cutOff :
                 emitted[e] > 0 \/ (InWindow(e) /\ (api.early => e \in Cut(listed)))

(* As many records in one second as a poll can list. *)
Crowded == \E e \in Records :
              Cardinality({d \in Records : log[d] \div Second = log[e] \div Second}) >= Limit

(* What the source still has to bring. *)
Awaited == {e \in Owed : emitted[e] = 0 /\ ~Tied(e)}

(* Cut listings that keep the oldest catch up (others emit at once or      *)
(* never): the records offered in time and not lost or tied are emitted by *)
(* some later poll, unless a second holds as many as a poll lists: the     *)
(* query of a whole second then lists the same ones for ever.              *)
CatchesUp == (Resumes /\ Awaited # {}) ~> (Awaited = {} \/ Crowded)

(* What the comment on cursors says: a poll fetches only what is newer     *)
(* than what was emitted before (collector.go:51-53).                      *)
OnlyNewer == \A e \in Records : emitted[e] <= 1 \/ pollFaults > 0
=============================================================================
