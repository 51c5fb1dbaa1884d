--------------------------- MODULE MCDiskQueue ----------------------------
(***************************************************************************)
(* Instances of DiskQueue for TLC.  Records of two cells and compaction    *)
(* from half of the file on: after one is acknowledged and two are written,*)
(* tryCompact copies while another may still be admitted, and two more may *)
(* follow in the new file, which is what it takes to exceed the limit.     *)
(***************************************************************************)
EXTENDS DiskQueue

Even     == <<2, 2, 2>>
FiveEven == <<2, 2, 2, 2, 2>>

\* One mishap per behaviour: a shutdown, then perhaps a new process, or a crash
\* and a new process, or a failing system call.
OneMishap == restarts + faults + (IF up = "stopping" THEN 1 ELSE 0) <= 1
=============================================================================
