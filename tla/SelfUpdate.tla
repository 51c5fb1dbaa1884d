---------------------------- MODULE SelfUpdate ----------------------------
(***************************************************************************)
(* The agent watches over itself: the updater replaces the agent's binary  *)
(* and executes it, the integrity checker compares the configuration file  *)
(* with a hash that it keeps in memory and in a file beside it.            *)
(***************************************************************************)
EXTENDS Integers, FiniteSets

CONSTANTS
    Releases,       \* versions that the release server may offer
    Prereleases,    \* which of them are pre-releases
    AllowPrerelease,\* auto_update.allow_prerelease
    ConfigTexts,    \* contents of the configuration file
    MaxEdits,       \* bound: changes of the configuration file
    MaxExits        \* bound: restarts and failing steps

ASSUME UpdateAssumption ==
    /\ Releases \subseteq Nat /\ Prereleases \subseteq Releases
    /\ AllowPrerelease \in BOOLEAN
    /\ {MaxEdits, MaxExits} \subseteq Nat

(* Version is a constant of the source, whatever build runs.               *)
Version == 0

Part     == -1      \* a download that broke off, or is not what was announced
NoFile   == -2

VARIABLES
    offer,          \* version.json on the release server
    manifest,       \* what fetchManifest returned
    tmpFile,        \* .watchnode-update-*
    installed,      \* the binary at os.Executable()
    upAt,           \* where checkAndApply is
    exits           \* history: bound

updateVars == <<offer, manifest, tmpFile, installed, upAt, exits>>

UpdateInit ==
    /\ offer \in Releases /\ manifest = Version
    /\ tmpFile = NoFile /\ installed = Version
    /\ upAt = "start" /\ exits = 0

(* The release server (external) offers something else. *)
Publish ==
    /\ offer' \in Releases \ {offer}
    /\ UNCHANGED <<manifest, tmpFile, installed, upAt, exits>>

ExitLeft == exits < MaxExits /\ exits' = exits + 1

(* The agent exits and is started again: the updater checks at once.  Its  *)
(* temporary file stays behind, under a name that nobody uses again.       *)
UpdateRestart ==
    /\ ExitLeft
    /\ upAt' = "start" /\ tmpFile' = NoFile
    /\ UNCHANGED <<offer, manifest, installed>>

(* Start: the next tick. *)
CheckAgain ==
    /\ upAt = "wait" /\ upAt' = "start"
    /\ UNCHANGED <<offer, manifest, tmpFile, installed, exits>>

(* fetchManifest. *)
FetchManifest ==
    /\ upAt = "start"
    /\ \/ manifest' = offer /\ upAt' = "compare" /\ UNCHANGED exits
       \/ ExitLeft /\ upAt' = "wait" /\ UNCHANGED manifest
    /\ UNCHANGED <<offer, tmpFile, installed>>

(* Releases are numbered in the order of their major, minor and patch      *)
(* numbers; no two have the same.                                          *)
isNewer(candidate, version) == candidate > version

(* checkAndApply: pre-releases only when allowed, and only what is newer   *)
(* than Version.                                                           *)
CheckOffer ==
    /\ upAt = "compare"
    /\ upAt' = IF /\ manifest \in Prereleases => AllowPrerelease
                  /\ isNewer(manifest, Version)
               THEN "download" ELSE "wait"
    /\ UNCHANGED <<offer, manifest, tmpFile, installed, exits>>

(* downloadBinary, into a temporary file: what is at the URL by now, a     *)
(* part of it, or nothing.                                                 *)
Download ==
    /\ upAt = "download"
    /\ \/ tmpFile' \in {offer, manifest} /\ upAt' = "verify" /\ UNCHANGED exits
       \/ tmpFile' = Part /\ upAt' = "verify" /\ ExitLeft
       \/ tmpFile' = NoFile /\ upAt' = "wait" /\ ExitLeft
    /\ UNCHANGED <<offer, manifest, installed>>

(* Mutant of Verify: the digest is logged and not acted on. *)
VerifyLogs ==
    /\ upAt = "verify" /\ upAt' = "rename"
    /\ UNCHANGED <<offer, manifest, tmpFile, installed, exits>>

(* The digest of the file against the one of the manifest; the file is     *)
(* removed on every failure.                                               *)
Verify ==
    /\ upAt = "verify"
    /\ IF tmpFile = manifest THEN upAt' = "rename" /\ UNCHANGED tmpFile
                             ELSE upAt' = "wait" /\ tmpFile' = NoFile
    /\ UNCHANGED <<offer, manifest, installed, exits>>

(* chmod and rename over the running binary. *)
Swap ==
    /\ upAt = "rename" /\ tmpFile' = NoFile
    /\ \/ installed' = tmpFile /\ upAt' = "exec" /\ UNCHANGED exits
       \/ ExitLeft /\ upAt' = "wait" /\ UNCHANGED installed
    /\ UNCHANGED <<offer, manifest>>

(* execReplace: the new build starts, or the old one goes on. *)
ExecReplace ==
    /\ upAt = "exec"
    /\ \/ upAt' = "start" /\ UNCHANGED exits
       \/ upAt' = "wait" /\ ExitLeft
    /\ UNCHANGED <<offer, manifest, tmpFile, installed>>

UpdateNext ==
    \/ Publish \/ UpdateRestart \/ CheckAgain \/ FetchManifest \/ CheckOffer
    \/ Download \/ Verify \/ Swap \/ ExecReplace

----------------------------------------------------------------------------
VARIABLES
    config,         \* the configuration file
    hashFile,       \* config.sha256: the file whose hash it holds
    storedHash,     \* the same, in memory
    current,        \* what a check has read
    checkAt,        \* where the checker is
    alerted,        \* history: contents warned about since the last baseline
    baselineLost,   \* history: a restart found the hash file empty
    edits, downs    \* history: bounds

integrityVars == <<config, hashFile, storedHash, current, checkAt, alerted,
                   baselineLost, edits, downs>>

NoHash == "no hash"

IntegrityInit ==
    /\ config \in ConfigTexts
    /\ hashFile = NoHash /\ storedHash = NoHash /\ current = NoHash
    /\ checkAt = "new" /\ alerted = {} /\ baselineLost = FALSE
    /\ edits = 0 /\ downs = 0

(* Somebody (external) changes the file. *)
Edit ==
    /\ edits < MaxEdits /\ edits' = edits + 1
    /\ config' \in ConfigTexts \ {config}
    /\ UNCHANGED <<hashFile, storedHash, current, checkAt, alerted, baselineLost, downs>>

(* NewConfigIntegrityChecker: hash the file, and compare with the stored   *)
(* hash; without one, this is the baseline.                                *)
NewChecker ==
    /\ checkAt = "new"
    /\ current' = config
    /\ IF hashFile = NoHash
       THEN /\ storedHash' = config /\ checkAt' = "save"
            /\ baselineLost' = (downs > 0) /\ UNCHANGED alerted
       ELSE /\ storedHash' = hashFile /\ checkAt' = "wait"
            /\ alerted' = IF config = hashFile THEN alerted ELSE alerted \cup {config}
            /\ UNCHANGED baselineLost
    /\ UNCHANGED <<config, hashFile, edits, downs>>

(* RunPeriodicCheck: hash, compare, warn, *)
Check ==
    /\ checkAt = "wait"
    /\ current' = config
    /\ IF config = storedHash THEN UNCHANGED <<alerted, checkAt>>
       ELSE alerted' = alerted \cup {config} /\ checkAt' = "keep"
    /\ UNCHANGED <<config, hashFile, storedHash, baselineLost, edits, downs>>

(* Mutant of Keep: the file is hashed again for the new baseline. *)
KeepRehashed ==
    /\ checkAt = "keep" /\ checkAt' = "save"
    /\ storedHash' = config /\ current' = config
    /\ alerted' = {current}
    /\ UNCHANGED <<config, hashFile, baselineLost, edits, downs>>

(* and keep what was read as the new baseline, so as to warn once,         *)
Keep ==
    /\ checkAt = "keep" /\ checkAt' = "save"
    /\ storedHash' = current /\ alerted' = {current}
    /\ UNCHANGED <<config, hashFile, current, baselineLost, edits, downs>>

(* saveHashFile: truncate, *)
SaveOpen ==
    /\ checkAt = "save" /\ checkAt' = "write"
    /\ hashFile' = NoHash
    /\ UNCHANGED <<config, storedHash, current, alerted, baselineLost, edits, downs>>

(* write. *)
SaveWrite ==
    /\ checkAt = "write" /\ checkAt' = "wait"
    /\ hashFile' = current
    /\ UNCHANGED <<config, storedHash, current, alerted, baselineLost, edits, downs>>

(* A failure of either is ignored.                                        *)
SaveFails ==
    /\ downs < MaxExits /\ downs' = downs + 1
    /\ checkAt \in {"save", "write"} /\ checkAt' = "wait"
    /\ UNCHANGED <<config, hashFile, storedHash, current, alerted, baselineLost, edits>>

IntegrityRestart ==
    /\ downs < MaxExits /\ downs' = downs + 1
    /\ checkAt' = "new" /\ storedHash' = NoHash /\ current' = NoHash
    /\ UNCHANGED <<config, hashFile, alerted, baselineLost, edits>>

Checker == NewChecker \/ Check \/ Keep \/ SaveOpen \/ SaveWrite
IntegrityNext == Edit \/ SaveFails \/ IntegrityRestart \/ Checker

----------------------------------------------------------------------------
(* The binary on disk is whole and is a release, a pre-release only when   *)
(* those are allowed: at whatever step the agent is killed, the download   *)
(* breaks off or the server changes its offer between the manifest and the *)
(* download (downloadAndApply).                                            *)
BinaryWhole == installed \in {Version} \cup {r \in Releases : r \in Prereleases => AllowPrerelease}

(* Every change of the configuration file against the baseline, in memory  *)
(* and on disk, is warned about, unless it is changed again first: although*)
(* the file may change between a check and the new baseline it sets, and   *)
(* the agent may be killed between any two of its steps; unless it was     *)
(* killed while the hash file was empty, or could not write it             *)
(* (RunPeriodicCheck, saveHashFile).                                       *)
TamperNoticed ==
    \A c \in ConfigTexts :
        (config = c /\ storedHash \notin {NoHash, c} /\ hashFile # c)
          ~> (c \in alerted \/ config # c \/ baselineLost)

(* What the agent watches over itself: its binary is always one that may be *)
(* installed (BinaryWhole), and a change of its configuration is noticed in  *)
(* the end (TamperNoticed).                                                 *)
SelfKept == []BinaryWhole /\ TamperNoticed
=============================================================================
