------------------------------ MODULE SyslogInput -----------------------------
(***************************************************************************)
(* The syslog receiver and its decoders. Decoders come from files that are *)
(* shipped and from a directory of custom ones, which the API writes, each *)
(* in a file of its own, and a watcher polls. Messages come over UDP and   *)
(* over TCP connections, whose lines are handed to the engine one by one.  *)
(*                                                                         *)
(* A decoder's name is a number, in the order of the files. A file holds   *)
(* one decoder; the names in SameFile become the same file name when they  *)
(* are sanitised. A program pattern either matches one program or is one   *)
(* of those that isCatchAllProgram knows; prematch and regex are the set   *)
(* of messages they match.                                                 *)
(***************************************************************************)
EXTENDS Integers, Sequences, FiniteSets, SequencesExt, FiniteSetsExt

CONSTANTS
    ShippedNames, CustomNames, SameFile,  \* names of decoders
    Parents,                              \* those that others may have for a parent
    Programs, NoProgram, AnyProgram,      \* names of programs, none, and no pattern
    Messages, Hard,                       \* messages, and those few decoders match
    ApiClients,                           \* concurrent requests
    Longest,                              \* maxSize: the most cells of a line
    MaxRequests, MaxSyslogFaults, MaxLines  \* bounds

ASSUME SyslogAssumption ==
    /\ ShippedNames \cup CustomNames \subseteq Nat \ {0}
    /\ SameFile \subseteq CustomNames /\ Parents \subseteq ShippedNames \cup CustomNames
    /\ Hard \subseteq Messages
    /\ {NoProgram, AnyProgram} \cap Programs = {}
    /\ {Longest, MaxRequests, MaxSyslogFaults, MaxLines} \subseteq Nat

NoParent == 0
Names == ShippedNames \cup CustomNames

\* A child's program pattern is never looked at.
Decoders ==
    { d \in [name : Names, parent : Parents \cup {NoParent},
             program : Programs \cup {AnyProgram}, matches : {Messages, Hard}] :
        /\ d.parent = NoParent => d.matches = Messages
        /\ d.parent # NoParent => d.program = AnyProgram }

PlainDecoder(n) == [name |-> n, parent |-> NoParent, program |-> AnyProgram, matches |-> Messages]

VARIABLES
    shipped,     \* the decoders that are shipped, in the order of their files
    files,       \* [file -> the decoder in it, Missing or Cut]
    touched,     \* files whose modification time the watcher has not seen
    loaded,      \* rules and byName: the decoders, in load order
    watcher,     \* "waits" or "reloads"
    request,     \* [ApiClients -> [step, decoder]]
    requests, syslogFaults,
    kept         \* history: decoders that are accepted and neither replaced nor deleted

decoderVars == <<shipped, files, touched, loaded, watcher, request, requests,
                 syslogFaults, kept>>

Missing == [name |-> 0]
Cut == [name |-> -1]    \* an empty file: it parses, and holds no decoder
NoRequest == [step |-> "none", decoder |-> Missing]

\* saveCustomRule's path
File(name) == IF name \in SameFile THEN Min(SameFile) ELSE name
Files == {File(n) : n \in CustomNames}

-----------------------------------------------------------------------------
(* Loading                                                                 *)

\* The decoders of the custom directory in the order of their files
CustomDecoders ==
    LET present == {f \in Files : files[f] \notin {Missing, Cut}}
    IN  [i \in 1..Cardinality(present) |->
           files[CHOOSE f \in present : Cardinality({g \in present : g <= f}) = i]]

\* Mutant: a custom decoder takes the place of a shipped one.
CustomWins ==
    LET named(d) == \E i \in DOMAIN CustomDecoders : CustomDecoders[i].name = d.name
    IN  SelectSeq(shipped, LAMBDA d : ~named(d)) \o CustomDecoders

\* loadLocked: the shipped directory first; a name that is there is skipped.
LoadedFrom ==
    LET known(d) == \E i \in DOMAIN shipped : shipped[i].name = d.name
    IN  shipped \o SelectSeq(CustomDecoders, LAMBDA d : ~known(d))

\* The files are read one by one under the engine's lock, which their writers do not
\* take. It is one step here: each writer loads again when it has written.
Load == loaded' = LoadedFrom

Known(name) == \E i \in DOMAIN loaded : loaded[i].name = name
ByName(name) == loaded[CHOOSE i \in DOMAIN loaded : loaded[i].name = name]

IsRoot(d) == d.parent = NoParent \/ ~Known(d.parent)

\* Mutant: the roots stay in load order.
RootsAsLoaded == SelectSeq(loaded, IsRoot)

\* The roots, those for any program last
Roots ==
    SelectSeq(loaded, LAMBDA d : IsRoot(d) /\ d.program # AnyProgram)
        \o SelectSeq(loaded, LAMBDA d : IsRoot(d) /\ d.program = AnyProgram)

Children(d) == SelectSeq(loaded, LAMBDA c : ~IsRoot(c) /\ c.parent = d.name)

First(seq, Test(_)) ==
    LET found == SelectSeq(seq, Test) IN IF found = <<>> THEN Missing ELSE found[1]

MatchesRoot(d, program, message) ==
    d.program \in {AnyProgram, program} /\ message \in d.matches

\* Decode: the decoders whose fields the message gets, the child's over the root's.
\* Children of children are not tried.
Decode(program, message) ==
    LET root  == First(Roots, LAMBDA d : MatchesRoot(d, program, message))
        child == IF root = Missing THEN Missing
                 ELSE First(Children(root), LAMBDA c : message \in c.matches)
    IN  [root |-> root, child |-> child]

\* parse: RFC 5424, RFC 3164, or a text of unknown form, which has no program. What goes
\* to the engine has the type that the rules know, whatever the form.
Forms == {"rfc5424", "rfc3164", "other"}
Parse(form, program, message) ==
    LET name == IF form = "other" THEN NoProgram ELSE program
    IN  [type |-> "logs.syslog", program |-> name, decoder |-> Decode(name, message)]

-----------------------------------------------------------------------------
(* Requests to the API                                                     *)

FailingIo == syslogFaults < MaxSyslogFaults /\ syslogFaults' = syslogFaults + 1

Goes(c, step) == request' = [request EXCEPT ![c].step = step]
Ends(c) == request' = [request EXCEPT ![c] = NoRequest]

\* Create: AddCustom has checked the name and compiled the patterns.
CreateDecoder(c) ==
    /\ request[c] = NoRequest /\ requests < MaxRequests
    /\ requests' = requests + 1
    /\ \E d \in Decoders :
         /\ d.name \in CustomNames
         /\ request' = [request EXCEPT ![c] = [step |-> "truncate", decoder |-> d]]
    /\ UNCHANGED <<shipped, files, touched, loaded, watcher, syslogFaults, kept>>

\* saveCustomRule: os.WriteFile truncates the file, then writes it.
TruncateFile(c) ==
    LET f == File(request[c].decoder.name)
    IN  /\ request[c].step = "truncate"
        /\ \/ /\ files' = [files EXCEPT ![f] = Cut] /\ touched' = touched \cup {f}
              /\ kept' = kept \ {files[f]}
              /\ Goes(c, "write") /\ UNCHANGED syslogFaults
           \/ FailingIo /\ Ends(c) /\ UNCHANGED <<files, touched, kept>>
        /\ UNCHANGED <<shipped, loaded, watcher, requests>>

\* If another request wrote since the truncation, the longer text shows behind the
\* shorter one, and the file may not parse.
WriteFile(c) ==
    LET f == File(request[c].decoder.name)
        d == request[c].decoder
    IN  /\ request[c].step = "write"
        /\ \/ /\ \E content \in IF files[f] = Cut THEN {d} ELSE {d, Cut} :
                   /\ files' = [files EXCEPT ![f] = content]
                   /\ kept' = (kept \ {files[f]}) \cup ({content} \ {Cut})
              /\ touched' = touched \cup {f}
              /\ Goes(c, "load") /\ UNCHANGED syslogFaults
           \/ FailingIo /\ Ends(c) /\ UNCHANGED <<files, touched, kept>>
        /\ UNCHANGED <<shipped, loaded, watcher, requests>>

\* The file has been removed meanwhile: what is written goes nowhere, without error.
WriteNowhere(c) ==
    /\ request[c].step = "write nowhere" /\ Goes(c, "load")
    /\ UNCHANGED <<shipped, files, touched, loaded, watcher, requests, syslogFaults, kept>>

LoadAgain(c) ==
    /\ request[c].step = "load" /\ Load /\ Ends(c)
    /\ UNCHANGED <<shipped, files, touched, watcher, requests, syslogFaults, kept>>

\* DeleteCustom looks the decoder up, and removes the file its name stands for.
DeleteDecoder(c) ==
    /\ request[c] = NoRequest /\ requests < MaxRequests
    /\ requests' = requests + 1
    /\ \E n \in CustomNames :
         /\ Known(n) /\ \A i \in DOMAIN shipped : shipped[i].name # n
         /\ request' = [request EXCEPT ![c] = [step |-> "remove", decoder |-> ByName(n)]]
    /\ UNCHANGED <<shipped, files, touched, loaded, watcher, syslogFaults, kept>>

\* A file that is not there is no error.
RemoveFile(c) ==
    LET f == File(request[c].decoder.name)
    IN  /\ request[c].step = "remove"
        /\ \/ /\ files' = [files EXCEPT ![f] = Missing] /\ touched' = touched \ {f}
              /\ kept' = kept \ {files[f]}
              /\ request' = [d \in ApiClients |->
                   IF d = c THEN [request[d] EXCEPT !.step = "load"]
                   ELSE IF request[d].step = "write" /\ File(request[d].decoder.name) = f
                     THEN [request[d] EXCEPT !.step = "write nowhere"]
                     ELSE request[d]]
              /\ UNCHANGED syslogFaults
           \/ FailingIo /\ Ends(c) /\ UNCHANGED <<files, touched, kept>>
        /\ UNCHANGED <<shipped, loaded, watcher, requests>>

ReloadDecoders(c) ==
    /\ request[c] = NoRequest /\ requests < MaxRequests
    /\ requests' = requests + 1 /\ Load
    /\ UNCHANGED <<shipped, files, touched, watcher, request, syslogFaults, kept>>

\* StartWatcher: a file is newer than the newest of the last tick.
WatcherLooks ==
    /\ watcher = "waits" /\ touched # {}
    /\ touched' = {} /\ watcher' = "reloads"
    /\ UNCHANGED <<shipped, files, loaded, request, requests, syslogFaults, kept>>

WatcherReloads ==
    /\ watcher = "reloads" /\ Load /\ watcher' = "waits"
    /\ UNCHANGED <<shipped, files, touched, request, requests, syslogFaults, kept>>

\* LoadFromDir at the start of the next process; the watcher's time starts at zero.
RestartDecoders ==
    /\ FailingIo /\ Load
    /\ request' = [c \in ApiClients |-> NoRequest] /\ watcher' = "waits"
    /\ touched' = {f \in Files : files[f] # Missing}
    /\ UNCHANGED <<shipped, files, requests, kept>>

\* Shipped children are special.
ShippedSeqs ==
    {s \in [1..Cardinality(ShippedNames) -> Decoders] :
       \A i \in DOMAIN s :
          /\ s[i].name = i /\ s[i].parent < i
          /\ s[i].parent # NoParent => s[i].matches = Hard}

DecodersInit(starts) ==
    /\ shipped \in starts
    /\ files = [f \in Files |-> Missing] /\ touched = {} /\ loaded = shipped
    /\ watcher = "waits" /\ request = [c \in ApiClients |-> NoRequest]
    /\ requests = 0 /\ syslogFaults = 0 /\ kept = {}

DecoderStep ==
    \/ \E c \in ApiClients :
         \/ CreateDecoder(c) \/ TruncateFile(c) \/ WriteFile(c) \/ WriteNowhere(c)
         \/ LoadAgain(c)
         \/ DeleteDecoder(c) \/ RemoveFile(c) \/ ReloadDecoders(c)
    \/ WatcherLooks \/ WatcherReloads \/ RestartDecoders

NoneUnderWay == \A c \in ApiClients : request[c] = NoRequest

\* When no request is under way and the watcher has seen every change, the decoders
\* in use are those on disk. One that was accepted is among them, unless its name is
\* that of a shipped one, and until somebody deletes it or writes to its file;
\* requests, failures, the watcher and restarts may come in any order.
DecodersKept ==
    (NoneUnderWay /\ touched = {} /\ watcher = "waits") =>
        /\ loaded = LoadedFrom
        /\ \A d \in kept : d.name \notin ShippedNames => d \in ToSet(loaded)
        /\ \A i \in DOMAIN shipped : loaded[i] = shipped[i]

\* "Catch-all roots must be evaluated LAST so a specific decoder always wins": a message
\* of a program goes to a decoder for any program only if no root is for its own;
\* among equals the shipped one wins. Files that come and go make roots of children
\* whose parent is gone.
SpecificWins ==
    \A form \in Forms, program \in Programs, message \in Messages :
        LET event == Parse(form, program, message)
            root  == event.decoder.root
            fits(d) == IsRoot(d) /\ MatchesRoot(d, event.program, message)
            better(d) == \/ root = Missing
                         \/ root.program = AnyProgram /\ d.program # AnyProgram
                         \/ /\ root.program = d.program
                            /\ root.name \notin ShippedNames /\ d.name \in ShippedNames
        IN  \A i \in DOMAIN loaded : ~(fits(loaded[i]) /\ better(loaded[i]))

-----------------------------------------------------------------------------
(* The receiver. A sender writes lines of some cells to its connection; a   *)
(* line of no cells is blank. A datagram is a line of its own.              *)

VARIABLES
    wire,        \* the lines a connection carries: their cells
    next,        \* the next line to read
    connection,  \* "open", "cut" or "refused" (a line was too long)
    handled,     \* history: what went to the engine: [line, cells]
    datagrams    \* history: the same for datagrams: [sent, cells]

receiverVars == <<wire, next, connection, handled, datagrams>>

Wires == UNION {[1..n -> 0..Longest + 1] : n \in 0..MaxLines}

ReceiverInit(wires) ==
    /\ wire \in wires
    /\ next = 1 /\ connection = "open" /\ handled = <<>> /\ datagrams = {}

\* handle drops what is blank.
Handled(line, cells) ==
    IF cells = 0 THEN handled ELSE Append(handled, [line |-> line, cells |-> cells])

\* handleTCPConn: the scanner finds a line, or its buffer is full before the line ends.
ScanLine ==
    /\ connection = "open" /\ next <= Len(wire)
    /\ IF wire[next] <= Longest
         THEN /\ next' = next + 1 /\ handled' = Handled(next, wire[next])
              /\ UNCHANGED connection
         ELSE connection' = "refused" /\ UNCHANGED <<next, handled>>
    /\ UNCHANGED <<wire, datagrams>>

\* The deadline of sixty seconds, or the sender's end: the scanner's last token is
\* what has arrived of a line.
CutConnection ==
    /\ connection = "open" /\ connection' = "cut"
    /\ \E cells \in 0..(IF next <= Len(wire) /\ wire[next] <= Longest THEN wire[next] ELSE 0) :
         handled' = Handled(next, cells)
    /\ UNCHANGED <<wire, next, datagrams>>

\* serveUDP: what exceeds the buffer is lost.
ReceiveDatagram ==
    /\ datagrams = {}
    /\ \E cells \in 1..Longest + 2 :
         datagrams' = {[sent |-> cells, cells |-> IF cells > Longest + 1 THEN Longest + 1 ELSE cells]}
    /\ UNCHANGED <<wire, next, connection, handled>>

ReceiverStep == ScanLine \/ CutConnection \/ ReceiveDatagram

\* The engine gets every line that is not blank once, in order, without a gap, up to
\* where the connection ended; what is incomplete is the last of a connection that
\* was cut.
LinesInOrder ==
    /\ \A i \in DOMAIN handled :
         /\ i > 1 => handled[i - 1].line < handled[i].line
         /\ handled[i].cells # wire[handled[i].line] =>
              i = Len(handled) /\ connection = "cut" /\ handled[i].line = next
    /\ \A line \in 1..next - 1 : wire[line] \in 1..Longest =>
         \E i \in DOMAIN handled : handled[i] = [line |-> line, cells |-> wire[line]]
    /\ connection = "refused" => \A i \in DOMAIN handled : handled[i].line < next
=============================================================================
