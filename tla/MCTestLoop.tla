------------------------------ MODULE MCTestLoop ------------------------------
(***************************************************************************)
(* The test loop for three rounds over two crash states, with the fsck    *)
(* statuses that take each branch (exit 0, exit 1 = errors corrected,      *)
(* exit 4 = errors left, killed by SIGKILL) and the outcomes of            *)
(* generic_090's check_test (src/code/tests/generic_090.cpp): -1 with no   *)
(* kind when the last checkpoint was not reached, 0 with kClean, and 0     *)
(* with kOther or kFileDataCorrupted when the file is short or differs.    *)
(***************************************************************************)
EXTENDS TestLoop

CONSTANTS c1, c2

MCCrashStateIds == {c1, c2}

MCFsckStatuses == {0, 1 * 256, 4 * 256, 9}

MCDataKinds == {"kClean", "kOldFilePersisted", "kFileMissing", "kFileDataCorrupted",
                "kFileMetadataCorrupted", "kOther"}

Generic090Outcomes ==
    {[ret |-> -1, kind |-> "kClean"],
     [ret |-> 0,  kind |-> "kClean"],
     [ret |-> 0,  kind |-> "kOther"],
     [ret |-> 0,  kind |-> "kFileDataCorrupted"]}
=============================================================================
