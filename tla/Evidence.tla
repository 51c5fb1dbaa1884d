----------------------------- MODULE Evidence -----------------------------
(***************************************************************************)
(* What an analyst keeps as evidence: files that the agent moves into its  *)
(* quarantine directory, and the forensic bundles that it uploads and the  *)
(* manager stores.  Both choose a name from the time in seconds.           *)
(*                                                                         *)
(* Two commands may be under way in one agent (see ActiveResponse), and    *)
(* the manager serves every upload in a goroutine of its own.              *)
(***************************************************************************)
EXTENDS Integers, FiniteSets

CONSTANTS
    Files,          \* the contents of suspicious files, all of one base name
    Bundles,        \* collected bundles, all of one agent
    Oversized,      \* the bundles above maxArtifactBytes
    MaxSecond,      \* bound: the seconds that pass
    MaxEvidenceFaults \* bound: failing calls, lost responses, manager exits

Seconds == 0 .. MaxSecond
Never   == -1
Nothing == "nothing"
Torn    == "torn"       \* a file of which only a part was written

ASSUME EvidenceAssumption ==
    /\ {MaxSecond, MaxEvidenceFaults} \subseteq Nat /\ Oversized \subseteq Bundles
    /\ {Nothing, Torn} \cap (Files \cup Bundles) = {}

VARIABLES
    second,         \* time.Now().Unix()
    source,         \* where each file was found: there, or moved away
    quarantine,     \* <second>_<base>.quar in the quarantine directory
    move,           \* runQuarantineFile, for each file
    moveName,       \* the second in the name it chose
    store,          \* <agent>_<second>.zip in the manager's directory
    upload,         \* gatherArtifacts, the request and its handler, for each bundle
    uploadName,
    rows,           \* forensic_artifacts: the bundles that have a row
    told,           \* collect-artifact commands reported as executed
    overwritten,    \* history: what was written over
    evidenceFaults  \* history: bound

evidenceVars == <<second, source, quarantine, move, moveName, store, upload,
                  uploadName, rows, told, overwritten, evidenceFaults>>

EvidenceInit ==
    /\ second = 0
    /\ source = Files
    /\ quarantine = [s \in Seconds |-> Nothing]
    /\ move = [f \in Files |-> "none"] /\ moveName = [f \in Files |-> Never]
    /\ store = [s \in Seconds |-> Nothing]
    /\ upload = [b \in Bundles |-> "none"] /\ uploadName = [b \in Bundles |-> Never]
    /\ rows = {} /\ told = {}
    /\ overwritten = {} /\ evidenceFaults = 0

Clock ==
    /\ second < MaxSecond /\ second' = second + 1
    /\ UNCHANGED <<source, quarantine, move, moveName, store, upload,
                   uploadName, rows, told, overwritten, evidenceFaults>>

EvidenceFault == evidenceFaults < MaxEvidenceFaults /\ evidenceFaults' = evidenceFaults + 1

----------------------------------------------------------------------------
(* quarantine-file.  The path exists and is no system path; the name of    *)
(* the copy is chosen.                                                     *)
QuarantineFile(f) ==
    /\ move[f] \in {"none", "failed"} /\ f \in source
    /\ move' = [move EXCEPT ![f] = "rename"]
    /\ moveName' = [moveName EXCEPT ![f] = second]
    /\ UNCHANGED <<second, source, quarantine, store, upload, uploadName, rows, told,
                   overwritten, evidenceFaults>>

(* A file of that name is lost when another takes the name. *)
Take(f) == overwritten' = overwritten \cup ({quarantine[moveName[f]]} \ {Nothing, Torn, f})

(* moveFile: the rename, *)
Rename(f) ==
    /\ move[f] = "rename"
    /\ quarantine' = [quarantine EXCEPT ![moveName[f]] = f]
    /\ Take(f)
    /\ source' = source \ {f}
    /\ move' = [move EXCEPT ![f] = "executed"]
    /\ UNCHANGED <<second, moveName, store, upload, uploadName, rows, told, evidenceFaults>>

(* or, on another device, a new file, *)
CreateCopy(f) ==
    /\ move[f] = "rename"
    /\ quarantine' = [quarantine EXCEPT ![moveName[f]] = Torn]
    /\ Take(f)
    /\ move' = [move EXCEPT ![f] = "copy"]
    /\ UNCHANGED <<second, source, moveName, store, upload, uploadName, rows, told,
                   evidenceFaults>>

(* the bytes (a failure leaves both files; when another file was renamed   *)
(* to the name meanwhile, they go to a file without a name),               *)
Copy(f) ==
    /\ move[f] = "copy"
    /\ \/ /\ quarantine' = [quarantine EXCEPT ![moveName[f]] = f]
          /\ Take(f)
          /\ move' = [move EXCEPT ![f] = "remove"] /\ UNCHANGED evidenceFaults
       \/ /\ quarantine[moveName[f]] # Torn
          /\ overwritten' = overwritten \cup {f}
          /\ move' = [move EXCEPT ![f] = "remove"] /\ UNCHANGED <<quarantine, evidenceFaults>>
       \/ /\ move' = [move EXCEPT ![f] = "failed"]
          /\ EvidenceFault /\ UNCHANGED <<quarantine, overwritten>>
    /\ UNCHANGED <<second, source, moveName, store, upload, uploadName, rows, told>>

(* and the end of the original. *)
RemoveSource(f) ==
    /\ move[f] = "remove"
    /\ \/ /\ source' = source \ {f}
          /\ move' = [move EXCEPT ![f] = "executed"] /\ UNCHANGED evidenceFaults
       \/ /\ move' = [move EXCEPT ![f] = "failed"]
          /\ EvidenceFault /\ UNCHANGED source
    /\ UNCHANGED <<second, quarantine, moveName, store, upload, uploadName, rows,
                   told, overwritten>>

(* The agent is killed in the middle. *)
AgentKilled ==
    /\ EvidenceFault
    /\ move' = [f \in Files |-> IF move[f] \in {"rename", "copy", "remove"}
                                THEN "failed" ELSE move[f]]
    /\ UNCHANGED <<second, source, quarantine, moveName, store, upload,
                   uploadName, rows, told, overwritten>>

----------------------------------------------------------------------------
(* collect-artifact: gather, zip, and post. *)
CollectArtifact(b) ==
    /\ upload[b] = "none"
    /\ upload' = [upload EXCEPT ![b] = "posted"]
    /\ UNCHANGED <<second, source, quarantine, move, moveName, store,
                   uploadName, rows, told, overwritten, evidenceFaults>>

TakeName(b, s) == overwritten' = overwritten \cup ({store[s]} \ {Nothing, Torn, b})

(* Upload, in the manager: the whole body is read, and os.WriteFile        *)
(* truncates the file of the name                                          *)
OpenArtifact(b) ==
    /\ upload[b] = "posted"
    /\ \/ /\ upload' = [upload EXCEPT ![b] = "write"]
          /\ uploadName' = [uploadName EXCEPT ![b] = second]
          /\ store' = [store EXCEPT ![second] = Torn]
          /\ TakeName(b, second) /\ UNCHANGED evidenceFaults
       \/ /\ EvidenceFault
          /\ upload' = [upload EXCEPT ![b] = "failed"]
          /\ UNCHANGED <<uploadName, store, overwritten>>
    /\ UNCHANGED <<second, source, quarantine, move, moveName, rows, told>>

(* Mutant of WriteArtifact: its error is not looked at. *)
WriteUnchecked(b) ==
    /\ upload[b] = "write"
    /\ upload' = [upload EXCEPT ![b] = "insert"]
    /\ \/ /\ store' = [store EXCEPT ![uploadName[b]] = IF b \in Oversized THEN Torn ELSE b]
          /\ TakeName(b, uploadName[b]) /\ UNCHANGED evidenceFaults
       \/ EvidenceFault /\ UNCHANGED <<store, overwritten>>
    /\ UNCHANGED <<second, source, quarantine, move, moveName, uploadName, rows, told>>

(* and writes; what is above the limit was cut off without an error.       *)
WriteArtifact(b) ==
    /\ upload[b] = "write"
    /\ \/ /\ store' = [store EXCEPT ![uploadName[b]] = IF b \in Oversized THEN Torn ELSE b]
          /\ upload' = [upload EXCEPT ![b] = "insert"]
          /\ TakeName(b, uploadName[b]) /\ UNCHANGED evidenceFaults
       \/ /\ EvidenceFault
          /\ upload' = [upload EXCEPT ![b] = "failed"]
          /\ UNCHANGED <<store, overwritten>>
    /\ UNCHANGED <<second, source, quarantine, move, moveName, uploadName, rows, told>>

(* InsertArtifact; *)
InsertArtifact(b) ==
    /\ upload[b] = "insert"
    /\ \/ rows' = rows \cup {b} /\ upload' = [upload EXCEPT ![b] = "created"]
          /\ UNCHANGED evidenceFaults
       \/ /\ EvidenceFault /\ UNCHANGED rows
          /\ upload' = [upload EXCEPT ![b] = "failed"]
    /\ UNCHANGED <<second, source, quarantine, move, moveName, store,
                   uploadName, told, overwritten>>

(* the response, which the agent may have stopped waiting for.             *)
Respond(b) ==
    /\ upload[b] = "created"
    /\ upload' = [upload EXCEPT ![b] = "answered"]
    /\ \/ told' = told \cup {b} /\ UNCHANGED evidenceFaults
       \/ EvidenceFault /\ UNCHANGED told
    /\ UNCHANGED <<second, source, quarantine, move, moveName, store,
                   uploadName, rows, overwritten>>

(* The manager is killed in the middle. *)
ManagerKilled ==
    /\ EvidenceFault
    /\ upload' = [b \in Bundles |-> IF upload[b] \in {"posted", "write", "insert", "created"}
                                    THEN "failed" ELSE upload[b]]
    /\ UNCHANGED <<second, source, quarantine, move, moveName, store,
                   uploadName, rows, told, overwritten>>

FilesNext == Clock \/ AgentKilled
             \/ \E f \in Files : \/ QuarantineFile(f) \/ Rename(f) \/ CreateCopy(f)
                                 \/ Copy(f) \/ RemoveSource(f)

BundlesNext == Clock \/ ManagerKilled
               \/ \E b \in Bundles : \/ CollectArtifact(b) \/ OpenArtifact(b) \/ WriteArtifact(b)
                                     \/ InsertArtifact(b) \/ Respond(b)

----------------------------------------------------------------------------
(* Evidence is preserved whatever fails half way (runQuarantineFile,       *)
(* moveFile, Upload).  The content of a quarantined file is where it was   *)
(* found or whole in the quarantine directory, unless another of its name  *)
(* took its place within the same second.  A row of forensic_artifacts     *)
(* names the whole bundle it was inserted for, unless a bundle of the same *)
(* second took its place or it was above the limit; and a collection       *)
(* reported as executed has a row.                                         *)
EvidenceKept ==
    /\ \A f \in Files : \/ f \in source \cup overwritten
                       \/ \E s \in Seconds : quarantine[s] = f
    /\ \A b \in rows : \/ store[uploadName[b]] = b
                       \/ b \in overwritten \cup Oversized
    /\ told \subseteq rows
=============================================================================
