------------------------------- MODULE TestLoop -------------------------------
(***************************************************************************)
(* The crash-state test loop, Tester::test_check_random_permutations       *)
(* (src/code/harness/Tester.cpp), with what it calls: the permuter,        *)
(* clone_device_restore, test_write_data, mount_device / umount_device,    *)
(* fsck, the workload's check_test and TestSuiteResult::AddCompletedTest.  *)
(*                                                                         *)
(* One step per system call or external program of a round.  Every call   *)
(* may fail the way its return value check says it can; what the outcome  *)
(* is depends on the kernel modules and on the crash state, so it is a     *)
(* nondeterministic choice.                                                *)
(*                                                                         *)
(* The snapshot device's content is kept abstractly as the sequence of     *)
(* crash states written to it since the last successful restore; a write  *)
(* that fails part way leaves Partial at the end.                          *)
(***************************************************************************)
EXTENDS Integers, Sequences, FiniteSets
LOCAL INSTANCE SequencesExt

CONSTANTS
    NumRounds,          \* num_rounds
    CrashStateIds,      \* the crash states the permuter may hand out
    FsckStatuses,       \* raw wait statuses system("fsck ...") may return
    WorkloadOutcomes,   \* [ret, kind] pairs the workload's check_test may produce
    DataKinds,          \* DataTestResult error kinds
    UmountMayFail,      \* whether umount(2) may fail (EBUSY)
    Partial             \* model value: a crash state written only in part

ASSUME NumRounds \in Nat \ {0}
ASSUME WorkloadOutcomes \subseteq [ret : Int, kind : DataKinds]
ASSUME "kClean" \in DataKinds

\* FileSystemTestResult error kinds.
FsKinds == {"kClean", "kSnapshotRestore", "kBioWrite", "kKernelMount",
            "kCheck", "kFixed", "kUnmountable"}

\* WEXITSTATUS of a raw wait status.
WExitStatus(st) == (st \div 256) % 256

\* A fresh SingleTestInfo; check and checked are history fields for the
\* properties, the value check_test returned and whether it ran.
NewInfo == [fs |-> "kClean", fsck |-> 0, data |-> "kClean", check |-> 0, checked |-> FALSE]

VARIABLES
    pc,             \* where the loop is in the current round
    rounds,         \* the loop counter
    permutes,       \* the crash state of this round
    test_info,      \* this round's SingleTestInfo
    suite,          \* test_suite.completed_
    test_results,   \* test_results_, the suites pushed at the end
    disk,           \* the snapshot device, as the crash states written since the restore
    mounted,        \* the kernel has a file system mounted on /mnt/snapshot
    disk_mounted    \* the harness's flag

vars == <<pc, rounds, permutes, test_info, suite, test_results, disk,
          mounted, disk_mounted>>

Init ==
    /\ pc = "permute"
    /\ rounds = 0
    /\ permutes = CHOOSE s \in CrashStateIds : TRUE
    /\ test_info = NewInfo
    /\ suite = << >>
    /\ test_results = << >>
    /\ disk = << >>
    /\ mounted = FALSE
    /\ disk_mounted = FALSE

(***************************************************************************)
(* mount_device and umount_device: the flag follows the return value of    *)
(* the system call.  mount(2) fails with EBUSY on a mount point where the  *)
(* same file system is mounted, and may fail on a damaged one.             *)
(***************************************************************************)
MountDevice(ok) ==
    /\ ok => ~mounted
    /\ mounted' = (mounted \/ ok)
    /\ disk_mounted' = ok

UmountDevice ==
    IF disk_mounted
    THEN \E ok \in IF UmountMayFail THEN BOOLEAN ELSE {TRUE} :
            /\ mounted' = (mounted /\ ~ok)
            /\ disk_mounted' = ~ok
    ELSE UNCHANGED <<mounted, disk_mounted>>

\* Mutant: the loop test is rounds <= num_rounds.
NextRoundOffByOne ==
    /\ rounds' = rounds + 1
    /\ pc' = IF rounds + 1 <= NumRounds THEN "permute" ELSE "finish"
    /\ test_info' = NewInfo

\* The end of a round (the for loop's increment and test).
NextRound ==
    /\ rounds' = rounds + 1
    /\ pc' = IF rounds + 1 < NumRounds THEN "permute" ELSE "finish"
    /\ test_info' = NewInfo

\* `continue` after recording this round's result.
Record(info) ==
    /\ suite' = Append(suite, info)
    /\ NextRound

(***************************************************************************)
(* Ask the permuter for a crash state; none means no new state: break.     *)
(***************************************************************************)
Permute ==
    /\ pc = "permute"
    /\ \/ /\ \E s \in CrashStateIds : permutes' = s
          /\ pc' = "wipe"
       \/ /\ pc' = "finish"
          /\ UNCHANGED permutes
    /\ UNCHANGED <<rounds, test_info, suite, test_results, disk, mounted, disk_mounted>>

(***************************************************************************)
(* Open the snapshot and wipe it (COW_BRD_WIPE); a failure returns -1 from *)
(* the whole loop, before the suite is pushed to test_results_.            *)
(***************************************************************************)
Wipe ==
    /\ pc = "wipe"
    /\ \/ pc' = "open"
       \/ pc' = "aborted"
    /\ UNCHANGED <<rounds, permutes, test_info, suite, test_results,
                   disk, mounted, disk_mounted>>

\* open(SNAPSHOT_PATH, O_WRONLY): a failure marks kSnapshotRestore and
\* continues without AddCompletedTest, so the round is not recorded.
OpenSnapshot ==
    /\ pc = "open"
    /\ \/ pc' = "restore" /\ UNCHANGED <<rounds, test_info>>
       \/ NextRound
    /\ UNCHANGED <<permutes, suite, test_results, disk, mounted, disk_mounted>>

\* Mutant: the result of clone_device_restore is not checked.
RestoreSnapshotIgnoringFailure ==
    /\ pc = "restore"
    /\ disk' \in {<< >>, disk}
    /\ pc' = "write"
    /\ UNCHANGED <<rounds, test_info, suite>>
    /\ UNCHANGED <<permutes, test_results, mounted, disk_mounted>>

\* clone_device_restore(fd, false): COW_BRD_RESTORE_SNAPSHOT puts the
\* post-setup image back.  reread is false at its only call, so the
\* BLKRRPART retry loop is never entered.
CloneDeviceRestore(ok) == disk' = IF ok THEN << >> ELSE disk

\* The loop restores the snapshot; a failure records kSnapshotRestore.
RestoreSnapshot ==
    /\ pc = "restore"
    /\ \E ok \in BOOLEAN :
         /\ CloneDeviceRestore(ok)
         /\ IF ok
            THEN pc' = "write" /\ UNCHANGED <<rounds, test_info, suite>>
            ELSE Record([test_info EXCEPT !.fs = "kSnapshotRestore"])
    /\ UNCHANGED <<permutes, test_results, mounted, disk_mounted>>

\* test_write_data: every op with the write flag is written in order; a
\* failed lseek or write stops part way and returns false.
TestWriteData(ok) == disk' = Append(disk, IF ok THEN permutes ELSE Partial)

\* The loop writes the crash state to the snapshot; a failure records
\* kBioWrite and continues.
WriteData ==
    /\ pc = "write"
    /\ \E ok \in BOOLEAN :
         /\ TestWriteData(ok)
         /\ IF ok
            THEN pc' = "recover" /\ UNCHANGED <<rounds, test_info, suite>>
            ELSE Record([test_info EXCEPT !.fs = "kBioWrite"])
    /\ UNCHANGED <<permutes, test_results, mounted, disk_mounted>>

\* Mount with errors=remount-ro so the kernel replays its journal, then
\* unmount; a mount failure marks kKernelMount and the round goes on.
RecoveryMount ==
    /\ pc = "recover"
    /\ \E ok \in BOOLEAN :
         /\ MountDevice(ok)
         /\ test_info' = IF ok THEN test_info ELSE [test_info EXCEPT !.fs = "kKernelMount"]
    /\ pc' = "recover_umount"
    /\ UNCHANGED <<rounds, permutes, suite, test_results, disk>>

RecoveryUmount ==
    /\ pc = "recover_umount"
    /\ UmountDevice
    /\ pc' = "fsck"
    /\ UNCHANGED <<rounds, permutes, test_info, suite, test_results, disk>>

\* Mutant: the failed-fsck branch records the test without setting kCheck.
FsckForgetsCheckError ==
    /\ pc = "fsck"
    /\ \E st \in FsckStatuses :
         LET info == [test_info EXCEPT !.fsck = st]
         IN  IF st = 0 \/ WExitStatus(st) = 1
             THEN pc' = "mount" /\ test_info' = info /\ UNCHANGED <<rounds, suite>>
             ELSE Record(info)
    /\ UNCHANGED <<permutes, test_results, disk, mounted, disk_mounted>>

\* fsck -yf: an exit status other than 0 or 1 records kCheck and continues.
Fsck ==
    /\ pc = "fsck"
    /\ \E st \in FsckStatuses :
         LET info == [test_info EXCEPT !.fsck = st]
         IN  IF st = 0 \/ WExitStatus(st) = 1
             THEN pc' = "mount" /\ test_info' = info /\ UNCHANGED <<rounds, suite>>
             ELSE Record([info EXCEPT !.fs = "kCheck"])
    /\ UNCHANGED <<permutes, test_results, disk, mounted, disk_mounted>>

\* Mount read/write for the workload's check; a failure records kUnmountable.
MountForCheck ==
    /\ pc = "mount"
    /\ \E ok \in BOOLEAN :
         /\ MountDevice(ok)
         /\ IF ok
            THEN pc' = "check" /\ UNCHANGED <<rounds, test_info, suite>>
            ELSE Record([test_info EXCEPT !.fs = "kUnmountable"])
    /\ UNCHANGED <<permutes, test_results, disk>>

(***************************************************************************)
(* check_test fills in the DataTestResult and returns; a clean check after *)
(* an fsck that returned non-zero is kFixed.  The result is recorded and   *)
(* the file system unmounted.                                              *)
(***************************************************************************)
CheckTest ==
    /\ pc = "check"
    /\ \E w \in WorkloadOutcomes :
         LET info == [test_info EXCEPT !.data = w.kind, !.check = w.ret, !.checked = TRUE]
         IN  Record(IF w.ret = 0 /\ test_info.fsck # 0
                    THEN [info EXCEPT !.fs = "kFixed"] ELSE info)
    /\ UmountDevice
    /\ UNCHANGED <<permutes, test_results, disk>>

\* After the loop: the suite goes to test_results_.
Finish ==
    /\ pc = "finish"
    /\ test_results' = Append(test_results, suite)
    /\ pc' = "done"
    /\ UNCHANGED <<rounds, permutes, test_info, suite, disk, mounted, disk_mounted>>

\* The loop has returned.
Returned ==
    /\ pc \in {"done", "aborted"}
    /\ UNCHANGED vars

Next ==
    \/ Permute
    \/ Wipe
    \/ OpenSnapshot
    \/ RestoreSnapshot
    \/ WriteData
    \/ RecoveryMount
    \/ RecoveryUmount
    \/ Fsck
    \/ MountForCheck
    \/ CheckTest
    \/ Finish
    \/ Returned

\* The harness is one thread and every call returns: the loop keeps going.
Spec == Init /\ [][Next]_vars /\ WF_vars(Next)

-----------------------------------------------------------------------------
Info == [fs : FsKinds, fsck : FsckStatuses \cup {0}, data : DataKinds,
         check : {w.ret : w \in WorkloadOutcomes} \cup {0}, checked : BOOLEAN]

TypeOK ==
    /\ pc \in {"permute", "wipe", "open", "restore", "write", "recover",
               "recover_umount", "fsck", "mount", "check", "finish", "done", "aborted"}
    /\ rounds \in 0..NumRounds
    /\ permutes \in CrashStateIds
    /\ test_info \in Info
    /\ suite \in Seq(Info)
    /\ test_results \in Seq(Seq(Info))
    /\ disk \in Seq(CrashStateIds \cup {Partial})
    /\ mounted \in BOOLEAN
    /\ disk_mounted \in BOOLEAN

\* TestSuiteResult::PrintResults counts a test as passed (cleanly or fixed).
Passed(t) == t.fs \in {"kClean", "kFixed"} /\ t.data = "kClean"

-----------------------------------------------------------------------------
(***************************************************************************)
(* TestSuiteResult::PrintResults: one pass over completed_ with nine       *)
(* counters; the text it writes is left out, the counts are what it says.  *)
(***************************************************************************)
Counters == [passed |-> 0, passed_fixed |-> 0, failed |-> 0,
             old_file_persisted |-> 0, file_missing |-> 0, file_data_corrupted |-> 0,
             file_metadata_corrupted |-> 0, other |-> 0]

\* The switch on the data error: the counter each case increments.
KindCounter == [kOldFilePersisted |-> "old_file_persisted",
                kFileMissing |-> "file_missing",
                kFileDataCorrupted |-> "file_data_corrupted",
                kFileMetadataCorrupted |-> "file_metadata_corrupted",
                kOther |-> "other"]

\* A switch with the break after case kFileDataCorrupted left out.
CountResultFallThrough(c, t) ==
    CASE t.fs = "kClean" /\ t.data = "kClean" -> [c EXCEPT !.passed = @ + 1]
      [] t.fs = "kFixed" /\ t.data = "kClean" -> [c EXCEPT !.passed_fixed = @ + 1]
      [] t.data = "kFileDataCorrupted" ->
             [c EXCEPT !.failed = @ + 1, !.file_data_corrupted = @ + 1,
                       !.file_metadata_corrupted = @ + 1]
      [] t.data \in DOMAIN KindCounter ->
             [c EXCEPT !.failed = @ + 1, ![KindCounter[t.data]] = @ + 1]
      [] OTHER -> [c EXCEPT !.failed = @ + 1]

\* One iteration of the loop: passed cleanly, passed fixed, or failed and
\* counted under its data error, if that has a case in the switch.
CountResult(c, t) ==
    CASE t.fs = "kClean" /\ t.data = "kClean" -> [c EXCEPT !.passed = @ + 1]
      [] t.fs = "kFixed" /\ t.data = "kClean" -> [c EXCEPT !.passed_fixed = @ + 1]
      [] t.data \in DOMAIN KindCounter ->
             [c EXCEPT !.failed = @ + 1, ![KindCounter[t.data]] = @ + 1]
      [] OTHER -> [c EXCEPT !.failed = @ + 1]

PrintResults(s) == FoldLeft(CountResult, Counters, s)

(***************************************************************************)
(* From the recovery mount to check_test, the snapshot holds the post-     *)
(* setup image with exactly this round's crash state written in full:      *)
(* nothing of an earlier round's crash state, nothing written in part.     *)
(***************************************************************************)
CheckSeesOnlyThisCrashState ==
    pc \in {"recover", "recover_umount", "fsck", "mount", "check"} =>
        disk = << permutes >>

(***************************************************************************)
(* A test the summary counts as passed went the whole way: fsck exited 0   *)
(* or 1, the file system mounted and the workload's check ran (spec 8,     *)
(* invariant 7).                                                           *)
(***************************************************************************)
PassedOnlyAfterCheck ==
    \A k \in DOMAIN suite :
        Passed(suite[k]) =>
            /\ suite[k].checked
            /\ suite[k].fsck = 0 \/ WExitStatus(suite[k].fsck) = 1

(***************************************************************************)
(* Spec 7: a workload whose check returns a negative value with no kind    *)
(* set is recorded as Other; so a failed check is never counted as passed. *)
(***************************************************************************)
FailedCheckNeverPasses ==
    \A k \in DOMAIN suite :
        suite[k].checked /\ suite[k].check < 0 => ~Passed(suite[k])

(***************************************************************************)
(* Spec 4.6 step 2: the wipe is best effort; the loop always ends by       *)
(* handing its suite to test_results_.                                     *)
(***************************************************************************)
SuiteAlwaysReported == <>(pc = "done")

\* The number of tests of s that satisfy P.
Among(s, P(_)) == Cardinality({k \in DOMAIN s : P(s[k])})

(***************************************************************************)
(* Spec 4 (TestSuiteResult): the summary counts passed-clean, passed-fixed *)
(* and failed, and within failed each DataTestResult kind.  The counts     *)
(* PrintResults prints for the suite built so far are exactly those of the *)
(* suite's tests, whatever the order and the mix of fs and data errors the *)
(* rounds produced; passed, fixed and failed add up to the suite's size.   *)
(***************************************************************************)
SummaryCountsSuite ==
    LET c == PrintResults(suite)
    IN  /\ c.passed = Among(suite, LAMBDA t : t.fs = "kClean" /\ t.data = "kClean")
        /\ c.passed_fixed = Among(suite, LAMBDA t : t.fs = "kFixed" /\ t.data = "kClean")
        /\ c.failed = Among(suite, LAMBDA t : ~Passed(t))
        /\ c.passed + c.passed_fixed + c.failed = Len(suite)
        /\ \A kind \in DOMAIN KindCounter :
               c[KindCounter[kind]] = Among(suite, LAMBDA t : ~Passed(t) /\ t.data = kind)
=============================================================================
