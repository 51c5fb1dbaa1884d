-------------------------------- MODULE VulnDb --------------------------------
(***************************************************************************)
(* Vulnerability matching: feeds are fetched through a cache of files and  *)
(* merged into the database, which is kept in a file and asked about each  *)
(* package of an inventory. One product of one vendor is followed, whose   *)
(* CVE is published in one feed and whose ranges the feed may correct.     *)
(***************************************************************************)
EXTENDS Integers, Sequences, SequencesExt, FiniteSetsExt

CONSTANTS
    Numbers, MaxTokens, \* in the version strings that are compared
    Releases,           \* the versions of the product, one number each
    Platforms, Scopes,  \* runtime.GOOS of hosts, and of ranges (with "any")
    CacheAge,           \* how long a cached feed is used
    MaxHours, MaxFeeds, MaxDbFaults   \* bounds

-----------------------------------------------------------------------------
(* Versions. A string is a sequence of tokens: a maximal run of digits is  *)
(* its number, the other characters are the negative numbers below.        *)

Tilde == -1
Letter == -2
Dot == -3
Dash == -4
Colon == -5
End == -6

ASSUME VulnAssumption ==
    /\ Numbers \subseteq Nat /\ MaxTokens \in Nat
    /\ "any" \in Scopes /\ Scopes \subseteq Platforms \cup {"any"}
    /\ Releases \subseteq Nat /\ {CacheAge, MaxHours, MaxFeeds, MaxDbFaults} \subseteq Nat

Strings == {s \in BoundedSeq(Numbers \cup {Tilde, Letter, Dot, Dash, Colon}, MaxTokens) :
              \A i \in 1..(Len(s) - 1) : s[i] < 0 \/ s[i + 1] < 0}

\* splitVersion: a number (as Atoi reads it, so with a minus too) before the first
\* colon is the epoch, what follows the last dash of the rest is the release.
SplitVersion(s) ==
    LET colons == {i \in DOMAIN s : s[i] = Colon}
        number == colons # {} /\ Min(colons) > 1 /\ s[Min(colons) - 1] >= 0
                  /\ (Min(colons) = 2 \/ (Min(colons) = 3 /\ s[1] = Dash))
        epoch == s[Min(colons) - 1]
        rest == IF number THEN SubSeq(s, Min(colons) + 1, Len(s)) ELSE s
        dashes == {i \in DOMAIN rest : rest[i] = Dash}
        cut == IF dashes = {} THEN Len(rest) + 1 ELSE Max(dashes)
    IN  [epoch |-> IF ~number THEN 0 ELSE IF s[1] = Dash THEN -epoch ELSE epoch,
         upstream |-> SubSeq(rest, 1, cut - 1), release |-> SubSeq(rest, cut + 1, Len(rest))]

CompareInt(m, n) == IF m < n THEN -1 ELSE IF m > n THEN 1 ELSE 0

\* Mutant: '~' sorts as the end of the string does.
FlatRank(c) == CASE c \in {Tilde, End} -> 1 [] c = Letter -> 2 [] OTHER -> 1000 - c

OrderRank(c) == CASE c = Tilde -> 0 [] c = End -> 1 [] c = Letter -> 2
                  [] OTHER -> 1000 - c

\* compareNonDigit, up to the longer of the two
CompareNonDigit(a, b) ==
    LET At(s, i) == IF i <= Len(s) THEN OrderRank(s[i]) ELSE OrderRank(End)
        differ == {i \in 1..(IF Len(a) > Len(b) THEN Len(a) ELSE Len(b)) : At(a, i) # At(b, i)}
    IN  IF differ = {} THEN 0 ELSE CompareInt(At(a, Min(differ)), At(b, Min(differ)))

\* the characters before the first digit, and what follows it
Prefix(s) == LET digits == {i \in DOMAIN s : s[i] >= 0}
             IN  IF digits = {} THEN s ELSE SubSeq(s, 1, Min(digits) - 1)
Number(s) == IF Len(s) = Len(Prefix(s)) THEN 0 ELSE s[Len(Prefix(s)) + 1]
Rest(s) == SubSeq(s, Len(Prefix(s)) + 2, Len(s))

\* compareVersionString: a round of its loop; no digits are as good as 0.
RECURSIVE CompareVersionString(_, _)
CompareVersionString(a, b) ==
    LET texts == CompareNonDigit(Prefix(a), Prefix(b))
        numbers == CompareInt(Number(a), Number(b))
    IN  CASE texts # 0 -> texts
          [] numbers # 0 -> numbers
          [] Rest(a) = <<>> /\ Rest(b) = <<>> -> 0
          [] OTHER -> CompareVersionString(Rest(a), Rest(b))

CompareVersions(v, w) ==
    LET a == SplitVersion(v) b == SplitVersion(w)
        up == CompareVersionString(a.upstream, b.upstream)
    IN  CASE a.epoch # b.epoch -> CompareInt(a.epoch, b.epoch)
          [] up # 0 -> up
          [] OTHER -> CompareVersionString(a.release, b.release)

\* Reference: a string is a list of numbers in which each of its texts ends, and
\* lists are compared from the left, going on for ever with empty texts and 0.
RECURSIVE Expanded(_, _)
Expanded(s, rounds) ==
    IF rounds = 0 THEN <<>>
    ELSE [i \in DOMAIN Prefix(s) |-> OrderRank(Prefix(s)[i])]
         \o <<OrderRank(End), Number(s)>> \o Expanded(Rest(s), rounds - 1)

FirstDifference(x, y) ==
    LET differ == {i \in DOMAIN x \cap DOMAIN y : x[i] # y[i]}
    IN  IF differ = {} THEN 0 ELSE CompareInt(x[Min(differ)], y[Min(differ)])

-----------------------------------------------------------------------------
(* Feeds and the database                                                  *)

VARIABLES
    versions,   \* the two strings compared
    hours,
    feed,       \* the matches the feed publishes now
    feeds,      \* how often it changed them
    cached,     \* the feed's file, or Nowhere: [at, matches, whole]
    vulns,      \* Database.vulns: keys to rows
    file,       \* the database's file, or Nowhere: [rows, whole, merged]
    update,     \* UpdateDatabase: [pc, got]
    dbFaults,
    published,  \* history: every match there ever was
    merged      \* history: the matches last merged of which the rows stem

vulnVars == <<versions, hours, feed, feeds, cached, vulns, file, update, dbFaults,
              published, merged>>
feedVars == <<versions, hours, feed, feeds, published>>

Unasked == <<<<>>, <<>>>>
NoBound == -1
Nowhere == [whole |-> FALSE, at |-> -CacheAge, rows |-> <<>>, matches |-> {}, merged |-> {}]
NoUpdate == [pc |-> "rest", got |-> {}]

\* The CPE matches of the CVE: a range whose ends are open, closed or missing, a
\* pinned version or none, and the platform if it is of an operating system.
CpeMatches ==
    {m \in [from : Releases \cup {NoBound}, with : BOOLEAN,
            to : Releases \cup {NoBound}, upto : BOOLEAN,
            pinned : Releases \cup {NoBound}, os : Scopes] :
       /\ m.from = NoBound => ~m.with
       /\ m.to = NoBound => ~m.upto
       /\ (m.from # NoBound /\ m.to # NoBound) => m.from < m.to
       /\ m.pinned # NoBound => m.from = NoBound /\ m.to = NoBound}

Everything == [from |-> NoBound, with |-> FALSE, to |-> NoBound, upto |-> FALSE,
               pinned |-> NoBound, os |-> "any"]

\* convertNVDItem of one match: a pinned version is both ends of its range, an
\* open upper end is the version that fixes the CVE.
Converted(m) ==
    IF m.pinned # NoBound
    THEN [min |-> m.pinned, with |-> TRUE, max |-> m.pinned, upto |-> TRUE,
          fixed |-> NoBound, os |-> m.os]
    ELSE [min |-> m.from, with |-> m.with, max |-> m.to, upto |-> m.upto,
          fixed |-> IF m.upto THEN NoBound ELSE m.to, os |-> m.os]

Key(row) == <<row.min, row.max, row.os>>

\* Update: a row replaces the row of its key; none is ever removed.
Merged(rows, matches) ==
    LET new == {Converted(m) : m \in matches}
        keys == {Key(r) : r \in new}
    IN  [k \in DOMAIN rows \cup keys |->
            IF k \in keys THEN CHOOSE r \in new : Key(r) = k ELSE rows[k]]

\* MatchOS, for a host of platform os or an unknown one ("any").
Affects(row, os, v) ==
    LET Cmp(bound) == CompareVersions(<<v>>, <<bound>>)
    IN  /\ os = row.os \/ os = "any" \/ row.os = "any"
        /\ row.min # NoBound => Cmp(row.min) > 0 \/ (Cmp(row.min) = 0 /\ row.with)
        /\ row.max # NoBound => Cmp(row.max) < 0 \/ (Cmp(row.max) = 0 /\ row.upto)
        /\ row.fixed # NoBound => Cmp(row.fixed) < 0

Reported(os, v) == \E k \in DOMAIN vulns : Affects(vulns[k], os, v)

VulnInit ==
    /\ versions = Unasked
    /\ hours = 0 /\ feeds = 0 /\ dbFaults = 0
    /\ \E m \in CpeMatches : feed = {m}
    /\ published = feed /\ merged = {}
    /\ cached = Nowhere /\ file = Nowhere /\ vulns = <<>> /\ update = NoUpdate

HourPasses ==
    /\ hours < MaxHours /\ hours' = hours + 1
    /\ UNCHANGED <<versions, feed, feeds, published, cached, vulns, file, update, dbFaults,
                   merged>>

\* A range is corrected, or another one is found to be affected, of which at least
\* one end differs.
Publish ==
    /\ feeds < MaxFeeds /\ feeds' = feeds + 1
    /\ \E m \in CpeMatches : \E kept \in SUBSET feed :
         /\ \A n \in kept : Key(Converted(m)) # Key(Converted(n))
         /\ feed' = kept \cup {m} /\ published' = published \cup {m}
    /\ UNCHANGED <<versions, hours, cached, vulns, file, update, dbFaults, merged>>

Fault == dbFaults < MaxDbFaults /\ dbFaults' = dbFaults + 1

\* FetchNVD with its cache. A feed that cannot be had or parsed is left out; that
\* its file could not be written, or not to its end, is not noticed.
Fetch ==
    /\ update.pc = "rest"
    /\ LET Got(matches) == update' = [pc |-> "merge", got |-> matches]
       IN  IF hours - cached.at < CacheAge
           THEN /\ Got(IF cached.whole THEN cached.matches ELSE {})
                /\ UNCHANGED <<cached, dbFaults>>
           ELSE \/ /\ Got(feed) /\ UNCHANGED dbFaults
                   /\ cached' = [at |-> hours, matches |-> feed, whole |-> TRUE]
                \/ /\ Got(feed) /\ Fault
                   /\ cached' \in {cached, [at |-> hours, matches |-> {}, whole |-> FALSE]}
                \/ Got({}) /\ Fault /\ UNCHANGED cached
    /\ UNCHANGED <<feedVars, vulns, file, merged>>

Merge ==
    /\ update.pc = "merge" /\ update' = [update EXCEPT !.pc = "save"]
    /\ vulns' = Merged(vulns, update.got)
    /\ merged' = IF update.got = {} THEN merged ELSE update.got
    /\ UNCHANGED <<feedVars, cached, file, dbFaults>>

\* Save writes in place; a failure is logged.
Save ==
    /\ update.pc = "save" /\ update' = NoUpdate
    /\ \/ /\ file' = [rows |-> vulns, whole |-> TRUE, merged |-> merged]
          /\ UNCHANGED dbFaults
       \/ Fault /\ file' \in {file, Nowhere}
    /\ UNCHANGED <<feedVars, cached, vulns, merged>>

\* A file that is missing or cut has no rows.
LoadFeed(f) == vulns' = f.rows /\ merged' = f.merged

\* The manager stops, perhaps while it writes one of the files, and starts again.
Restart ==
    /\ Fault
    /\ cached' \in {cached} \cup (IF update.pc = "rest" /\ hours - cached.at >= CacheAge
                                  THEN {[at |-> hours, matches |-> {}, whole |-> FALSE]} ELSE {})
    /\ file' \in {file} \cup (IF update.pc = "save" THEN {Nowhere} ELSE {})
    /\ LoadFeed(file') /\ update' = NoUpdate
    /\ UNCHANGED feedVars

VulnStep == HourPasses \/ Publish \/ Fetch \/ Merge \/ Save \/ Restart

\* Two versions of the inventory or the feeds are compared.
Compare ==
    /\ versions = Unasked /\ \E a, b \in Strings : versions' = <<a, b>>
    /\ UNCHANGED <<hours, feed, feeds, cached, vulns, file, update, dbFaults, published,
                   merged>>

-----------------------------------------------------------------------------
(* Properties                                                              *)

\* compareVersions is the order of Debian's versions: by epoch, then by upstream,
\* then by release, where '~' is before the end and the end before all else.
VersionsOrdered ==
    LET Order(s) == LET v == SplitVersion(s)
                    IN  <<v.epoch>> \o Expanded(v.upstream, MaxTokens + 1)
                                    \o Expanded(v.release, MaxTokens + 1)
    IN  versions # Unasked =>
          CompareVersions(versions[1], versions[2])
            = FirstDifference(Order(versions[1]), Order(versions[2]))

Within(m, os, v) ==
    /\ os = m.os \/ os = "any" \/ m.os = "any"
    /\ IF m.pinned # NoBound THEN v = m.pinned
       ELSE /\ m.from # NoBound => v > m.from \/ (m.with /\ v = m.from)
            /\ m.to # NoBound => v < m.to \/ (m.upto /\ v = m.to)

\* Whatever updates, corrections, failures and restarts there were: a version in
\* a range of the feed that was merged is reported, as long as the file that was
\* written of it could be read; and none is reported that was never in a range.
RangesFollowed ==
    \A os \in Platforms \cup {"any"}, v \in Releases :
        /\ (\E m \in merged : Within(m, os, v)) => Reported(os, v)
        /\ Reported(os, v) => \E m \in published : Within(m, os, v)
=============================================================================
