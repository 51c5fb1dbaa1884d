------------------------------ MODULE Watchlists ------------------------------
(***************************************************************************)
(* The key lists that rules look up (cdb): loaded from files at the start, *)
(* replaced by threat-intelligence feeds and by the API, added to one by   *)
(* one by playbooks, which also append to a file.                          *)
(*                                                                         *)
(* A list in memory is an object behind a name: a writer that has taken    *)
(* the object from the map may add to one that has been replaced           *)
(* meanwhile. `ver' numbers the objects a name has had. A list that does   *)
(* not exist yet is an empty one.                                          *)
(***************************************************************************)
EXTENDS Integers, Sequences, FiniteSets

CONSTANTS
    Lists,       \* names of lists
    Shipped,     \* [Lists -> SUBSET Keys]: files that come with the product,
                 \* in directories below that of the lists; {} for no file
    Configs,     \* configured feeds: sequences of [type, list] that are enabled
    MispLists,   \* the four lists of a MISP source, in the order of MispPart
    Pages,       \* what a feed may answer: sets of lines
    Posts,       \* what a request to the API may put into a list
    MaxEvents    \* bound: answers, requests, failures and restarts together

\* A key is an IPv4 or IPv6 address, the network the IPv4 address is in, a
\* domain, a hash or a URL, trimmed and in lower case, as both adding and looking
\* up make it; or another spelling of one of them: the IPv4 address with a port,
\* the IPv6 address written out, the domain with the dot of the root.
Keys == {"ip", "ipport", "ip6", "ip6long", "net", "domain", "dotted", "hash",
         "url"}
WithColon == {"ipport", "ip6", "ip6long", "url"}
Addresses == {"ip", "ip6", "ip6long"}      \* what net.ParseIP takes
Domains == {"domain", "dotted"}

Types == {"abuseipdb", "otx", "plaintext", "feodotracker", "abusech_hash",
          "urlhaus", "misp"}

\* A line of an answer: the key alone, `key:value', or a URL with the key as its
\* host. Every reader skips comments and empty lines. For OTX a line stands for a
\* row of the JSON or CSV answer; for MISP for an attribute, where a pair is
\* `ip|port' or `domain|ip'.
Lines == [form : {"bare", "pair", "url"}, key : Keys]

ASSUME WatchlistsAssumption ==
    /\ Shipped \in [Lists -> SUBSET Keys]
    /\ Configs \subseteq Seq([type : Types, list : Lists])
    /\ MispLists \in [1..4 -> Lists]
    /\ Pages \subseteq SUBSET Lines /\ Posts \subseteq SUBSET Keys
    /\ MaxEvents \in Nat

VARIABLES
    sources,     \* the configuration: an element of Configs
    lists,       \* [Lists -> [ver, keys]]: the objects in memory
    appended,    \* [Lists -> SUBSET Keys]: the files that playbooks append to
    feed,        \* an answer to install: [at, page, part], or NoAnswer
    spent,       \* events so far
    replaced     \* history: lists that a feed or the API replaced since the start

watch == <<sources, lists, appended, feed, spent, replaced>>

Event == spent < MaxEvents /\ spent' = spent + 1

-----------------------------------------------------------------------------
(* The lists                                                               *)

\* normalizeKey: no port and no dot at the end, an address as net.IP writes it.
Normal(key) == CASE key = "ipport"  -> "ip"
                 [] key = "ip6long" -> "ip6"
                 [] key = "dotted"  -> "domain"
                 [] OTHER           -> key

\* MatchNormalized: the key made normal, or a network the address is in. An
\* entry stands in the list as it was spelt, and a network is no entry.
Match(l, key) ==
    LET norm == Normal(key)
    IN  \/ norm # "net" /\ norm \in lists[l].keys
        \/ norm = "ip" /\ "net" \in lists[l].keys

\* AddList: a new object takes the place of the old one.
AddList(l, keys) ==
    /\ lists' = [lists EXCEPT ![l] = [ver |-> @.ver + 1, keys |-> keys]]
    /\ replaced' = replaced \cup {l}

\* List.Add on the object that was number v of the list: the key as it is spelt,
\* not as a lookup makes it.
AddToObject(l, v, key) ==
    lists' = IF lists[l].ver = v THEN [lists EXCEPT ![l].keys = @ \cup {key}]
                                 ELSE lists

\* loadListFile takes what precedes the first colon of a line for the key: the
\* address of one with a port, and no key of anybody's for the others.
Reread(keys) ==
    (keys \ WithColon) \cup (IF "ipport" \in keys THEN {"ip"} ELSE {})

\* LoadFromDir walks the directory in lexical order; the list is that of the last
\* file of its name. A file in the directory itself, to which playbooks append,
\* comes before one in a directory that sorts after it.
Loaded(l) == IF Shipped[l] # {} THEN Reread(Shipped[l]) ELSE Reread(appended[l])


Load ==
    /\ lists' = [l \in Lists |-> [ver |-> lists[l].ver + 1, keys |-> Loaded(l)]]
    /\ replaced' = {}

-----------------------------------------------------------------------------
(* What each feed keeps of an answer                                       *)

OfForm(page, form) == {line.key : line \in {m \in page : m.form = form}}

\* Plain text and the host of a URL are cut at the first colon, as a file is.
fetchAbuseIPDB(page) == OfForm(page, "bare") \cap Addresses
fetchOTX(page) == OfForm(page, "bare")
fetchPlaintext(page) == Reread(OfForm(page, "bare") \cup OfForm(page, "pair"))
fetchFeodoTracker(page) == OfForm(page, "bare") \cap Addresses
fetchAbusechHash(page) == OfForm(page, "bare") \cap {"hash"}
fetchURLhaus(page) == Reread(OfForm(page, "url")) \cap ({"ip"} \cup Domains)

Entries(type, page) ==
    CASE type = "abuseipdb"    -> fetchAbuseIPDB(page)
      [] type = "otx"          -> fetchOTX(page)
      [] type = "plaintext"    -> fetchPlaintext(page)
      [] type = "feodotracker" -> fetchFeodoTracker(page)
      [] type = "abusech_hash" -> fetchAbusechHash(page)
      [] type = "urlhaus"      -> fetchURLhaus(page)

\* The four lists that ingestMISP fills: addresses, domains, hashes, URLs.
MispPart(page, part) ==
    LET bare == OfForm(page, "bare")
        pair == OfForm(page, "pair")
    IN  CASE part = 1 -> ((bare \cup pair) \cap Addresses)
                           \cup (IF pair \cap Domains # {} THEN {"ip"} ELSE {})
          [] part = 2 -> (bare \cup pair) \cap Domains
          [] part = 3 -> bare \cap {"hash"}
          [] part = 4 -> bare \cap {"url"}

-----------------------------------------------------------------------------
(* The goroutine of the feeds. It asks one source after the other, when it *)
(* starts and again at every tick of its timer. A source may fail to       *)
(* answer: the request fails, the status is not 200 or the answer breaks   *)
(* off, and its list stays as it is. So any source may be the next one     *)
(* that answers, and the goroutine's place between answers is left out.    *)

NoAnswer == [at |-> 0, page |-> {}, part |-> 0]

runAll ==
    /\ feed = NoAnswer /\ Event
    /\ \E i \in DOMAIN sources, page \in Pages :
         feed' = [at |-> i, page |-> page, part |-> 1]
    /\ UNCHANGED <<sources, lists, appended, replaced>>

\* ingest: the new list takes the old one's place, even if it is empty.
Install ==
    /\ feed # NoAnswer /\ sources[feed.at].type # "misp"
    /\ AddList(sources[feed.at].list, Entries(sources[feed.at].type, feed.page))
    /\ feed' = NoAnswer
    /\ UNCHANGED <<sources, appended, spent>>

\* ingestMISP: one list after the other, and only those that have keys.
InstallMisp ==
    /\ feed # NoAnswer /\ sources[feed.at].type = "misp"
    /\ \/ /\ MispPart(feed.page, feed.part) # {}
          /\ AddList(MispLists[feed.part], MispPart(feed.page, feed.part))
       \/ /\ MispPart(feed.page, feed.part) = {}
          /\ UNCHANGED <<lists, replaced>>
    /\ feed' = IF feed.part = 4 THEN NoAnswer
                                ELSE [feed EXCEPT !.part = @ + 1]
    /\ UNCHANGED <<sources, appended, spent>>

\* POST /cdb: the request's entries become the list.
PostList ==
    /\ Event
    /\ \E l \in Lists, keys \in Posts : AddList(l, keys)
    /\ UNCHANGED <<sources, appended, feed>>

WatchNext == runAll \/ Install \/ InstallMisp \/ PostList

\* The manager has just been started.
WatchInit ==
    /\ sources \in Configs
    /\ appended = [l \in Lists |-> {}]
    /\ lists = [l \in Lists |-> [ver |-> 1, keys |-> Reread(Shipped[l])]]
    /\ feed = NoAnswer /\ spent = 0
    /\ replaced = {}

WatchRestart ==
    /\ Event /\ Load /\ feed' = NoAnswer
    /\ UNCHANGED <<sources, appended>>

WatchTypeOK ==
    /\ sources \in Configs
    /\ lists \in [Lists -> [ver : Nat, keys : SUBSET Keys]]
    /\ appended \in [Lists -> SUBSET Keys]
    /\ feed.at \in 0..Len(sources) /\ feed.part \in 0..4
    /\ feed.page \subseteq Lines
    /\ spent \in 0..MaxEvents
    /\ replaced \subseteq Lists
=============================================================================
