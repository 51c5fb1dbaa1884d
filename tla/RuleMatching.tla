----------------------------- MODULE RuleMatching -----------------------------
(***************************************************************************)
(* The rules of the engine: loading from files, the index by event type,   *)
(* the fields of an event that decoders, collectors and tags give, and     *)
(* rules that the API adds while workers match. And the conversion of      *)
(* Sigma detections into the field matches of a rule.                      *)
(*                                                                         *)
(* What a field match demands is the set of values that it admits: one for *)
(* `equals', those with the text for `contains', those that it matches for *)
(* a regular expression. A converted rule has the type "field", which no   *)
(* event has, so only its field matches are compared here.                 *)
(***************************************************************************)
EXTENDS Integers, Sequences, FiniteSets, SequencesExt, FiniteSetsExt

CONSTANTS
    EventTypes, NoType,   \* types of events; none, or a rule for any
    Fields, Values,       \* of events
    NoValue, Absent,      \* the empty text; a field that is not there
    InList,               \* values that match a key list
    Adders, Matchers,     \* requests that add a rule, workers that match
    Selections, Capital,  \* names in a detection, and those that may have capital letters
    Timeframe, Message,   \* the name beside them that is none; the field of keywords
    Pattern,              \* a text that means all values and is none: `*', a network
    MaxLiterals           \* of a condition

ASSUME MatchingAssumption ==
    /\ NoType \notin EventTypes /\ NoValue \notin Values /\ Absent \notin Values
    /\ InList \subseteq Values /\ Capital \subseteq Selections /\ MaxLiterals \in Nat
    /\ Timeframe \notin Selections /\ Message \in Fields /\ Pattern \notin Values \cup {NoValue}

AllValues == Values \cup {NoValue}
AnyValue == [admits |-> AllValues, compiles |-> TRUE]
Broken == [admits |-> {}, compiles |-> FALSE]
Equals(v) == [admits |-> {v}, compiles |-> TRUE]
Unlimited == [f \in {} |-> AnyValue]    \* a match without fields

-----------------------------------------------------------------------------
(* Events, decoders, rules                                                 *)

\* Decode: decoders in load order, the later over the earlier. `of' are the types of
\* events that match a decoder's type and tags, `finds' is what its expression finds in
\* the message.
DecodersOf(decoders, event) == SelectSeq(decoders, LAMBDA d : event.type \in d.of)
Decoded(decoders, event) ==
    [f \in Fields |->
       LET hits == SelectSeq(DecodersOf(decoders, event),
                             LAMBDA d : d.field = f /\ d.finds # Absent)
       IN  IF hits = <<>> THEN Absent ELSE Last(hits).finds]

\* getFieldValue: what decoders found, then the collector's field, then the tag.
ValueOf(decoders, event, f) ==
    LET decoded == Decoded(decoders, event)[f]
    IN  CASE decoded # Absent -> decoded
          [] decoded = Absent /\ event.fields[f] # Absent -> event.fields[f]
          [] decoded = Absent /\ event.fields[f] = Absent /\ event.tags[f] # Absent ->
               event.tags[f]
          [] OTHER -> NoValue

\* compileRule: `value' is the old spelling of `equals'; an empty text demands nothing.
Demand(spec) ==
    LET equal == IF spec.equals # NoValue THEN spec.equals ELSE spec.value
    IN  IF ~spec.regex.compiles THEN Broken
        ELSE [admits |-> spec.regex.admits
                           \cap (IF equal = NoValue THEN AllValues ELSE {equal}),
              compiles |-> TRUE]

Compile(rule) == [rule EXCEPT !.match = [f \in DOMAIN rule.match |-> Demand(rule.match[f])]]
Compiles(rule) == \A f \in DOMAIN rule.match : rule.match[f].regex.compiles

Specs == [equals : Values \cup {NoValue}, value : Values \cup {NoValue}, regex : {AnyValue, Broken}]

\* matchRule on a compiled rule. A list that does not exist has no keys.
Admits(rule, decoders, event) ==
    /\ \A f \in DOMAIN rule.match : ValueOf(decoders, event, f) \in rule.match[f].admits
    /\ rule.lookup # Absent =>
         rule.listed /\ ValueOf(decoders, event, rule.lookup) \in InList

\* loadRulesFromDir: files in order; what is disabled or does not compile is left out. The
\* two shapes of a file, a map with `rules' and a bare list, read the same; one that is
\* neither has none.
FromFiles(ruleFiles) ==
    LET enabled(rule) == rule.enabled /\ Compiles(rule)
        content(file) == IF file.readable THEN SelectSeq(file.rules, enabled) ELSE <<>>
    IN  FlattenSeq([i \in DOMAIN ruleFiles |->
                     [j \in DOMAIN content(ruleFiles[i]) |-> Compile(content(ruleFiles[i])[j])]])

\* rebuildIndex
Index(rules) ==
    [t \in EventTypes \cup {NoType} |-> SelectSeq(rules, LAMBDA rule : rule.type = t)]

-----------------------------------------------------------------------------
(* Matchers match while the API adds                                        *)

VARIABLES
    ruleFiles, decoders, \* what the manager started with
    ruleList, byType,    \* Matcher.rules, Matcher.byType
    adding,              \* [Adders -> [step, rule, list, bucket]]
    matching,            \* [Matchers -> [step, event, matched]]
    accepted,            \* history: rules the API answered 201 to since the start
    unsure,              \* history: those whose addition overlapped another
    raced,               \* history: workers whose event was matched during an addition
    conversion           \* a detection and what it became

matchVars == <<ruleFiles, decoders, ruleList, byType, adding, matching, accepted,
               unsure, raced>>
ruleVars == <<matchVars, conversion>>

NotAdding == [step |-> "none"]
NotMatching == [step |-> "none"]

AddersIn(steps) == {a \in Adders : adding[a].step \in steps}

\* Add: append copies the header of a slice and stores it again; nothing locks.
\* Meanwhile other additions store theirs.
BeginAdd(a) ==
    /\ adding[a] = NotAdding
    /\ \E type \in EventTypes \cup {NoType} :
         LET rule == [id |-> a, type |-> type, match |-> Unlimited, lookup |-> Absent,
                      listed |-> FALSE, enabled |-> TRUE]
             others == {adding[b].rule : b \in AddersIn({"list", "index"})}
         IN  /\ adding' = [adding EXCEPT ![a] =
                             [step |-> "list", rule |-> rule, list |-> ruleList, bucket |-> <<>>]]
             /\ unsure' = IF others = {} THEN unsure ELSE unsure \cup others \cup {rule}
    /\ raced' = raced \cup {w \in Matchers : matching[w].step = "typed"}
    /\ UNCHANGED <<ruleFiles, decoders, ruleList, byType, matching, accepted, conversion>>

AddToList(a) ==
    /\ adding[a].step = "list"
    /\ ruleList' = Append(adding[a].list, adding[a].rule)
    /\ adding' = [adding EXCEPT ![a].step = "index", ![a].bucket = byType[adding[a].rule.type]]
    /\ UNCHANGED <<ruleFiles, decoders, byType, matching, accepted, unsure, raced, conversion>>

AddToIndex(a) ==
    /\ adding[a].step = "index"
    /\ byType' = [byType EXCEPT ![adding[a].rule.type] = Append(adding[a].bucket, adding[a].rule)]
    /\ adding' = [adding EXCEPT ![a] = [step |-> "answered", rule |-> adding[a].rule]]
    /\ accepted' = accepted \cup {adding[a].rule}
    /\ UNCHANGED <<ruleFiles, decoders, ruleList, matching, unsure, raced, conversion>>

\* A read of a map that another goroutine writes may find nothing.
BucketSeen(type) ==
    IF AddersIn({"index"}) = {} THEN {byType[type]} ELSE {byType[type], <<>>}

\* Match, first the rules of the event's type ...
MatchTyped(w) ==
    /\ matching[w].step = "none"
    /\ \E type \in EventTypes \cup {NoType}, own, tag \in AllValues \cup {Absent} :
         LET event == [type |-> type, fields |-> [f \in Fields |-> own],
                       tags |-> [f \in Fields |-> tag]]
         IN  \E bucket \in BucketSeen(type) :
               matching' = [matching EXCEPT ![w] =
                 [step |-> "typed", event |-> event, known |-> accepted \ unsure,
                  matched |-> SelectSeq(bucket, LAMBDA r : Admits(r, decoders, event))]]
    /\ raced' = IF AddersIn({"list", "index"}) = {} THEN raced ELSE raced \cup {w}
    /\ UNCHANGED <<ruleFiles, decoders, ruleList, byType, adding, accepted, unsure, conversion>>

\* Mutant: also when the bucket of all types was the first.
MatchAnyTwice(w) ==
    /\ matching[w].step = "typed"
    /\ \E bucket \in BucketSeen(NoType) :
         matching' = [matching EXCEPT ![w] = [step |-> "done", event |-> @.event, known |-> @.known,
           matched |-> @.matched
             \o SelectSeq(bucket, LAMBDA r : Admits(r, decoders, matching[w].event))]]
    /\ UNCHANGED <<ruleFiles, decoders, ruleList, byType, adding, accepted, unsure, raced, conversion>>

\* ... then those for any type, unless these were the first.
MatchAny(w) ==
    /\ matching[w].step = "typed"
    /\ \E bucket \in BucketSeen(NoType) :
         matching' = [matching EXCEPT ![w] = [step |-> "done", event |-> @.event, known |-> @.known,
           matched |-> IF @.event.type = NoType THEN @.matched
             ELSE @.matched
               \o SelectSeq(bucket, LAMBDA r : Admits(r, decoders, matching[w].event))]]
    /\ UNCHANGED <<ruleFiles, decoders, ruleList, byType, adding, accepted, unsure, raced, conversion>>

\* The runtime ends a process in which it sees a map read or written during a write.
\* The rules that were added are gone with it.
MapRace ==
    /\ AddersIn({"index"}) # {}
    /\ ruleList' = FromFiles(ruleFiles) /\ byType' = Index(ruleList')
    /\ adding' = [a \in Adders |-> NotAdding]
    /\ matching' = [w \in Matchers |-> NotMatching]
    /\ accepted' = {} /\ unsure' = {} /\ raced' = {}
    /\ UNCHANGED <<ruleFiles, decoders, conversion>>

MatchStep ==
    \/ \E a \in Adders : BeginAdd(a) \/ AddToList(a) \/ AddToIndex(a)
    \/ \E w \in Matchers : MatchTyped(w) \/ MatchAny(w)
    \/ MapRace

\* How often a rule's alert is due for an event
Times(rules, rule) == Cardinality({i \in DOMAIN rules : rules[i] = rule})
Started == FromFiles(ruleFiles)

\* A rule in the files is applied exactly once to each event whose type and values it is for, and
\* to no other; so is one that the API accepted before the event, unless another
\* addition overlapped its own. What is read while an addition stores its map may
\* lack rules, but has none too much. What the API lists is what is applied.
RulesApplied ==
    /\ \A w \in Matchers : matching[w].step = "done" =>
         LET event == matching[w].event
             due(r) == r.type \in {NoType, event.type} /\ Admits(r, decoders, event)
         IN  \A r \in ToSet(Started) \cup accepted :
               LET expected == IF ~due(r) THEN 0
                               ELSE IF r \in accepted THEN 1 ELSE Times(Started, r)
               IN  /\ Times(matching[w].matched, r) <= expected
                   /\ (w \notin raced /\ r \in ToSet(Started) \cup matching[w].known) =>
                        Times(matching[w].matched, r) = expected
    /\ AddersIn({"list", "index"}) = {} =>
         \A r \in accepted \ unsure : /\ Times(ruleList, r) = 1
                                      /\ Times(byType[r.type], r) = 1
    /\ \A r \in ToSet(Started) : Times(ruleList, r) = Times(byType[r.type], r)

-----------------------------------------------------------------------------
(* Sigma. A selection is written as a map of fields to texts, any of which *)
(* will do (equal, contained, at the begin or end, or an expression), or   *)
(* as a list of maps; keywords are texts of the field of the message. A    *)
(* condition is literals with an operator between each two, or `1 of' or   *)
(* `all of' a pattern of names, with more behind it or not. It is read in  *)
(* small letters, while the names of the selections stay as they are       *)
(* (`capital'). A time frame stands among the selections.                *)

Maps(fields, texts) == UNION {[S -> SUBSET texts \ {{}}] : S \in SUBSET fields \ {{}}}
PlainMaps == Maps(Fields, Values)

PlainSelection == [list : {FALSE}, maps : {{m} : m \in PlainMaps}]
OddSelection ==
    LET items == UNION {Maps({f}, AllValues \cup {Pattern}) : f \in Fields}
    IN  [list : {FALSE}, maps : {{m} : m \in items}]
          \cup [list : {TRUE}, maps : {{m, n} : m, n \in items \cap PlainMaps}]
Duration == [list |-> FALSE, maps |-> {}]

\* What the texts of a field mean, and what buildFieldMatch has of them: a pattern is
\* a text like any other, whatever its modifier, and one that is empty demands nothing.
Meant(texts) == (texts \cap AllValues) \cup (IF Pattern \in texts THEN Values ELSE {})
Read(texts) == IF texts = {NoValue} THEN AllValues ELSE texts \cap AllValues

\* parseSelection: a list is taken for one of keywords and a time frame for a keyword,
\* texts that are in no message.
ParseSelection(sel) ==
    IF sel.list \/ sel = Duration
    THEN [f \in {Message} |-> [admits |-> {}, compiles |-> TRUE]]
    ELSE LET map == CHOOSE m \in sel.maps : TRUE
         IN  [f \in DOMAIN map |-> [admits |-> Read(map[f]), compiles |-> TRUE]]

Literals == [neg : BOOLEAN, name : Selections]
Expressions ==
    UNION {[kind : {"expression"}, lits : [1..n -> Literals], ops : [1..n - 1 -> {"and", "or"}]] :
             n \in 1..MaxLiterals}
Patterns == [kind : {"1 of", "all of"}, them : BOOLEAN, names : SUBSET Selections, more : BOOLEAN]
Conditions == Expressions \cup Patterns

\* resolveSimple: a name alone; whatever else there is has no fields.
Simple(detection, lits) ==
    IF Len(lits) = 1 /\ ~lits[1].neg /\ lits[1].name \notin detection.capital
      THEN ParseSelection(detection.sels[lits[1].name]) ELSE Unlimited

\* globSelections: a pattern has no capital letters any more.
Named(detection) ==
    IF detection.cond.them THEN DOMAIN detection.sels
                           ELSE detection.cond.names \ detection.capital

\* mergeAnd: the later map's fields over the earlier's.
MergeAnd(maps) == FoldLeft(LAMBDA merged, m : m @@ merged, Unlimited, maps)

\* Mutant: a field that only some of the alternatives have stays as well.
MergeOrAll(maps) ==
    [f \in UNION {DOMAIN maps[i] : i \in DOMAIN maps} |->
       [admits |-> UNION {maps[i][f].admits : i \in {j \in DOMAIN maps : f \in DOMAIN maps[j]}},
        compiles |-> TRUE]]

\* mergeOr: fields that every map has, with the alternatives of all; a single map as it is.
MergeOr(maps) ==
    [f \in {g \in Fields : \A i \in DOMAIN maps : g \in DOMAIN maps[i]} |->
       [admits |-> UNION {maps[i][f].admits : i \in DOMAIN maps}, compiles |-> TRUE]]

\* negateFields puts what Go's regular expressions do not have.
Negated(map) == [f \in DOMAIN map |-> Broken]
MergeAndNot(left, right) == left @@ Negated(right)

Rejected == [f \in Fields |-> Broken]

FirstAt(n, Test(_)) ==
    LET found == {i \in 1..n : Test(i)} IN IF found = {} THEN 0 ELSE Min(found)

\* resolveCondition splits at the first ` and not ', else at the first ` and ', else at
\* the first ` or '. The names that a pattern matches come in any order.
Resolve(detection, order) ==
    LET cond == detection.cond
        sels == [s \in DOMAIN detection.sels |-> ParseSelection(detection.sels[s])]
    IN  IF cond.kind # "expression"
        THEN LET named == SelectSeq(order, LAMBDA n : n \in Named(detection))
                 maps  == [i \in DOMAIN named |-> sels[named[i]]]
             IN  CASE cond.more \/ named = <<>> -> Rejected
                   [] ~(cond.more \/ named = <<>>) /\ cond.kind = "1 of" -> MergeOr(maps)
                   [] ~(cond.more \/ named = <<>>) /\ cond.kind = "all of" -> MergeAnd(maps)
        ELSE LET lits == cond.lits
                 n    == Len(lits)
                 andNot == FirstAt(n - 1, LAMBDA i : cond.ops[i] = "and" /\ lits[i + 1].neg)
                 and    == FirstAt(n - 1, LAMBDA i : cond.ops[i] = "and")
                 left(i) == Simple(detection, SubSeq(lits, 1, i))
                 right(i) == Simple(detection, SubSeq(lits, i + 1, n))
                 plain(i) == [SubSeq(lits, i, n) EXCEPT ![1].neg = FALSE]
             IN  CASE n = 1 /\ ~lits[1].neg ->
                        IF lits[1].name \in detection.capital THEN Rejected
                                                              ELSE sels[lits[1].name]
                   [] n = 1 /\ lits[1].neg -> Negated(Simple(detection, plain(1)))
                   [] n > 1 /\ andNot # 0 ->
                        MergeAndNot(left(andNot), Simple(detection, plain(andNot + 1)))
                   [] n > 1 /\ andNot = 0 /\ and # 0 -> MergeAnd(<<left(and), right(and)>>)
                   [] OTHER -> MergeOr(<<left(1), right(1)>>)

\* What the detection means: `not' before `and' before `or'
Selected(map, values) == \A f \in DOMAIN map : values[f] \in map[f].admits
Means(detection, values) ==
    LET cond    == detection.cond
        true(s) == \E map \in detection.sels[s].maps :
                     \A f \in DOMAIN map : values[f] \in Meant(map[f])
        named   == IF cond.them THEN Selections ELSE cond.names
        n       == Len(cond.lits)
        holds(i) == true(cond.lits[i].name) # cond.lits[i].neg
    IN  CASE cond.kind = "1 of" -> \E s \in named : true(s)
          [] cond.kind = "all of" -> \A s \in named : true(s)
          [] cond.kind = "expression" ->
               \E i \in 1..n, j \in 1..n :
                 /\ i <= j /\ (i = 1 \/ cond.ops[i - 1] = "or") /\ (j = n \/ cond.ops[j] = "or")
                 /\ \A k \in i..j - 1 : cond.ops[k] = "and"
                 /\ \A k \in i..j : holds(k)

NoConversion == [detection |-> <<>>, result |-> Rejected]

\* Selections are plain; or under a shorter condition one is odd, or a time frame is
\* there as well.
FirstSelection == CHOOSE s \in Selections : TRUE
PlainSelections == [Selections -> PlainSelection]
Short == {cond \in Conditions : cond.kind = "expression" => Len(cond.lits) < MaxLiterals}

\* A pattern is of one prefix.
OnePrefix(cond, capital) ==
    (cond.kind # "expression" /\ ~cond.them) =>
       cond.names \subseteq capital \/ cond.names \cap capital = {}

\* Parse and the compilation in Matcher.Add
Convert(detection) ==
    /\ OnePrefix(detection.cond, detection.capital)
    /\ \E order \in SetToSeqs(DOMAIN detection.sels) :
         conversion' = [detection |-> detection, result |-> Resolve(detection, order)]

ConvertSigma ==
    /\ conversion = NoConversion
    /\ \/ \E sels \in PlainSelections, cond \in Conditions, capital \in {{}, Capital} :
            Convert([sels |-> sels, cond |-> cond, capital |-> capital])
       \/ \E sel \in OddSelection, cond \in Short,
             others \in [Selections \ {FirstSelection} -> PlainSelection] :
            Convert([sels |-> others @@ (FirstSelection :> sel), cond |-> cond, capital |-> {}])
       \/ \E sels \in PlainSelections, cond \in Short :
            Convert([sels |-> sels @@ (Timeframe :> Duration), cond |-> cond, capital |-> {}])
    /\ UNCHANGED matchVars

Mixed(cond) == cond.kind = "expression" /\ \E i, j \in DOMAIN cond.ops : cond.ops[i] # cond.ops[j]

\* What the converter has another reading of: patterns, lists of maps, and a time frame
\* where all selections are asked for.
Misread(detection) ==
    \/ \E s \in Selections : LET sel == detection.sels[s] IN
         sel.list \/ \E map \in sel.maps : \E f \in DOMAIN map : Pattern \in map[f]
    \/ Timeframe \in DOMAIN detection.sels /\ detection.cond.kind = "all of"

Alone(cond) == cond.kind = "expression" /\ Len(cond.lits) = 1 /\ ~cond.lits[1].neg
MissesNothing(detection, result) ==
    \A values \in [Fields -> AllValues] : Means(detection, values) => Selected(result, values)

\* A detection whose condition does not mix `and' with `or' becomes a match that misses
\* nothing the detection means, or is refused, unless a part of it is Misread
\* (mergeOr: "dropped to avoid false negatives"). A selection alone, in whatever form,
\* matches nothing that it does not mean, except for texts that are empty.
SigmaMissesNothing ==
    conversion # NoConversion =>
        LET detection == conversion.detection
            cond   == detection.cond
            result == conversion.result
            compiled == \A f \in DOMAIN result : result[f].compiles
            empty(sel) == \E map \in sel.maps : \E f \in DOMAIN map : map[f] = {NoValue}
        IN  /\ (compiled /\ ~Mixed(cond) /\ ~Misread(detection)) =>
                 MissesNothing(detection, result)
            /\ (compiled /\ Alone(cond) /\ ~empty(detection.sels[cond.lits[1].name])) =>
                 \A values \in [Fields -> AllValues] :
                   Selected(result, values) => Means(detection, values)

\* What parser.go:192 says of a selection, "keyword list, map, or list of maps", that it
\* is converted. Not so: a list of maps (198-205), a text with a wildcard (286-289) or of
\* a modifier such as `cidr' (297-303) becomes a literal text, and the time frame
\* (170-179) a selection.
SigmaFormsRead ==
    conversion # NoConversion =>
        LET result == conversion.result
        IN  ((\A f \in DOMAIN result : result[f].compiles) /\ ~Mixed(conversion.detection.cond)) =>
                MissesNothing(conversion.detection, result)

-----------------------------------------------------------------------------

\* Files with a rule of any kind, on one field, and one that matches any event
OneField == CHOOSE f \in Fields : TRUE
RuleKinds ==
    {r \in [id : {1}, type : EventTypes \cup {NoType},
            match : UNION {[S -> Specs] : S \in SUBSET {OneField}},
            lookup : {OneField, Absent}, listed : BOOLEAN, enabled : BOOLEAN] :
       /\ r.lookup = Absent => ~r.listed
       /\ ~r.enabled => DOMAIN r.match = {} /\ r.lookup = Absent}
PlainRule == [id |-> 2, type |-> NoType, match |-> Unlimited, lookup |-> Absent,
              listed |-> FALSE, enabled |-> TRUE]
DecoderKinds == [of : {EventTypes}, field : {OneField}, finds : AllValues \cup {Absent}]

FilesWith(rule, readable) ==
    <<[readable |-> readable, rules |-> <<rule>>], [readable |-> TRUE, rules |-> <<PlainRule>>]>>
PlainFiles == FilesWith([PlainRule EXCEPT !.id = 1], TRUE)
RuleFiles == {FilesWith(rule, TRUE) : rule \in RuleKinds}
               \cup {FilesWith([PlainRule EXCEPT !.id = 1], FALSE)}
DecoderSeqs ==
    {s \in UNION {[1..n -> DecoderKinds] : n \in 0..2} : Len(s) = 2 => s[1].finds \in Values}

MatchInit(fileSets, decoderSeqs) ==
    /\ ruleFiles \in fileSets /\ decoders \in decoderSeqs
    /\ ruleList = FromFiles(ruleFiles) /\ byType = Index(ruleList)
    /\ adding = [a \in Adders |-> NotAdding]
    /\ matching = [w \in Matchers |-> NotMatching]
    /\ accepted = {} /\ unsure = {} /\ raced = {}
    /\ conversion = NoConversion
=============================================================================
