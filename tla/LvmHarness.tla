------------------------------ MODULE LvmHarness ------------------------------
(***************************************************************************)
(* The older, LVM-based harness (src/Tester.cpp): the physical volume,     *)
(* volume group, logical volume and snapshot it creates with the LVM       *)
(* commands, the mount on /mnt/snapshot, the hellow wrapper module, its    *)
(* cleanup_harness, and its test loop, which replays every prefix of the   *)
(* log onto a fresh LVM snapshot, runs fsck and the test's check_test, and *)
(* counts each outcome in test_test_stats.                                 *)
(*                                                                         *)
(* The LVM side is what the commands do: pvcreate fails on a PV that is in *)
(* a VG, vgcreate / lvcreate need what they are made on, lvremove and      *)
(* vgremove -f fail while a volume they remove is mounted (vgremove takes  *)
(* the VG's LVs with it), and pvremove -f fails on a PV still in a VG.     *)
(* With Faults any command, mount, umount, open or write may also fail.   *)
(* The driver program is not part of the sources: any function may be     *)
(* called whenever no other is running.                                    *)
(***************************************************************************)
EXTENDS Integers

CONSTANTS
    Faults,         \* whether commands and system calls may fail
    NumRounds,      \* num_rounds
    LogLen,         \* log_data.size()
    FsckStatuses,   \* raw wait statuses system(TEST_CASE_FSCK) may return
    CheckResults,   \* the values test->check_test() may return
    Partial,        \* model value: a snapshot written only in part
    MaxOpenFds      \* bound on the fds open on /dev/hwm

Volumes == {"pv", "vg", "lv", "sn"}
Devices == {"lv", "sn", "wrapper"}      \* MNT_LVM_LV_DEV, MNT_LVM_SN_DEV, MNT_WRAPPER_DEV
Stats   == {"RUN", "ERR", "FSCK_FAIL", "BAD_DATA", "FSCK_FIX", "PASS"}

\* A test: the round and the prefix length end_itr - start_itr it replays.
Tests == (0..NumRounds - 1) \X (0..LogLen - 1)

\* What a snapshot holds when lvcreate -s has just made it: the LV's data.
Base == << >>

VARIABLES
    \* LVM and kernel
    lvm,            \* the volumes that exist
    mount,          \* "none" or the device mounted on /mnt/snapshot
    wrapper_loaded, \* hellow.ko is loaded
    hwm_open,       \* fds open on /dev/hwm; each holds a reference on hellow.ko
    sn_data,        \* what the snapshot holds: Base (as created) or a test's prefix
    \* harness (Tester members)
    active,         \* the volumes whose lvm_*_active flag is set ("pv", "vg", "sn")
    disk_mounted, wrapper_inserted,
    ioctl_fd,       \* ioctl_fd != -1
    \* test_check_random_permutations
    pc, rounds, end_itr, fsck_res, stats, ret,
    \* history
    checked         \* the last check_test: the test it belongs to, whether the
                    \* snapshot was mounted, and what the snapshot held

lvm_vars  == <<lvm, mount, wrapper_loaded, hwm_open, sn_data>>
flag_vars == <<active, disk_mounted, wrapper_inserted, ioctl_fd>>
loop_vars == <<pc, rounds, end_itr, fsck_res, stats, ret, checked>>
vars      == <<lvm_vars, flag_vars, loop_vars>>

Outcomes(cond) == IF Faults THEN {FALSE, cond} ELSE {cond}

\* What pvcreate / vgcreate / lvcreate / lvcreate -s need.
Creatable(v) ==
    CASE v = "pv" -> "vg" \notin lvm
      [] v = "vg" -> "pv" \in lvm /\ v \notin lvm
      [] v = "lv" -> "vg" \in lvm /\ v \notin lvm
      [] v = "sn" -> "lv" \in lvm /\ v \notin lvm

\* What lvremove / vgremove -f / pvremove -f remove, and when they can.
Removed(v) == CASE v = "vg" -> {"vg", "lv", "sn"} [] OTHER -> {v}
Removable(v) ==
    /\ v \in lvm
    /\ mount \notin Removed(v)
    /\ v = "pv" => "vg" \notin lvm

Init ==
    /\ lvm = {} /\ mount = "none" /\ wrapper_loaded = FALSE /\ hwm_open = 0 /\ sn_data = Base
    /\ active = {} /\ disk_mounted = FALSE /\ wrapper_inserted = FALSE /\ ioctl_fd = FALSE
    /\ pc = "idle" /\ rounds = 0 /\ end_itr = 0 /\ fsck_res = 0
    /\ stats = [s \in Stats |-> 0] /\ ret = "SUCCESS"
    /\ checked = [test |-> <<0, 0>>, mounted |-> TRUE, data |-> <<0, 0>>]

-----------------------------------------------------------------------------
\* Mutant: the undo after a failed lvcreate leaves lvm_vg_active set.
LvmInitKeepsVgFlag(ok) ==
    /\ \E pvc \in Outcomes(Creatable("pv")), vgc \in Outcomes(TRUE), lvc \in Outcomes(TRUE),
          vgr \in Outcomes(TRUE), pvr \in Outcomes(TRUE) :
         CASE ~pvc -> ~ok /\ UNCHANGED <<lvm, active>>
           [] ~vgc -> /\ ~ok
                      /\ lvm' = IF pvr THEN lvm \ {"pv"} ELSE lvm \cup {"pv"}
                      /\ active' = IF pvr THEN active \ {"pv", "vg"} ELSE active \cup {"pv"}
           [] ~lvc -> /\ ~ok
                      /\ lvm' = CASE ~vgr -> lvm \cup {"pv", "vg"} [] ~pvr -> lvm \cup {"pv"}
                                  [] OTHER -> lvm \ {"pv"}
                      /\ active' = CASE ~vgr -> active \cup {"pv", "vg"} [] ~pvr -> active \cup {"pv", "vg"}
                                     [] OTHER -> active \ {"pv", "vg"}
           [] OTHER -> ok /\ lvm' = lvm \cup {"pv", "vg", "lv"} /\ active' = active \cup {"pv", "vg"}
    /\ UNCHANGED <<mount, wrapper_loaded, hwm_open, sn_data, disk_mounted, wrapper_inserted, ioctl_fd>>

(***************************************************************************)
(* lvm_init: pvcreate, vgcreate, lvcreate.  A failed vgcreate undoes the   *)
(* PV, a failed lvcreate the VG and then the PV; a failed undo returns at  *)
(* once with its flag still set.                                           *)
(***************************************************************************)
LvmInit(ok) ==
    /\ \E pvc \in Outcomes(Creatable("pv")), vgc \in Outcomes(TRUE), lvc \in Outcomes(TRUE),
          vgr \in Outcomes(TRUE), pvr \in Outcomes(TRUE) :
         CASE ~pvc ->
                ~ok /\ UNCHANGED <<lvm, active>>
           [] ~vgc ->
                /\ ~ok
                /\ lvm' = IF pvr THEN lvm \ {"pv"} ELSE lvm \cup {"pv"}
                /\ active' = IF pvr THEN active \ {"pv", "vg"} ELSE active \cup {"pv"}
           [] ~lvc ->
                /\ ~ok
                /\ lvm' = CASE ~vgr -> lvm \cup {"pv", "vg"}
                            [] ~pvr -> lvm \cup {"pv"}
                            [] OTHER -> lvm \ {"pv"}
                /\ active' = CASE ~vgr -> active \cup {"pv", "vg"}
                               [] ~pvr -> (active \cup {"pv"}) \ {"vg"}
                               [] OTHER -> active \ {"pv", "vg"}
           [] OTHER ->
                ok /\ lvm' = lvm \cup {"pv", "vg", "lv"} /\ active' = active \cup {"pv", "vg"}
    /\ UNCHANGED <<mount, wrapper_loaded, hwm_open, sn_data, disk_mounted, wrapper_inserted, ioctl_fd>>

(***************************************************************************)
(* lvm_destroy: vgremove -f if lvm_vg_active, then pvremove -f if          *)
(* lvm_pv_active; a failure returns with its flag set.  lvm_sn_active is   *)
(* left as it is, though vgremove took the snapshot with the VG.           *)
(***************************************************************************)
LvmDestroy(ok) ==
    /\ \E vgr \in IF "vg" \in active THEN Outcomes(Removable("vg")) ELSE {TRUE} :
         IF ~vgr
         THEN ~ok /\ UNCHANGED <<lvm, active>>
         ELSE LET lvm1 == IF "vg" \in active THEN lvm \ Removed("vg") ELSE lvm
              IN  \E pvr \in IF "pv" \in active
                             THEN Outcomes("pv" \in lvm1 /\ "vg" \notin lvm1) ELSE {TRUE} :
                    /\ ok = pvr
                    /\ lvm' = IF pvr /\ "pv" \in active THEN lvm1 \ {"pv"} ELSE lvm1
                    /\ active' = IF pvr THEN active \ {"pv", "vg"} ELSE active \ {"vg"}
    /\ UNCHANGED <<mount, wrapper_loaded, hwm_open, sn_data, disk_mounted, wrapper_inserted, ioctl_fd>>

\* init_snapshot: lvcreate -s unless lvm_sn_active, which is an error.
InitSnapshot(ok) ==
    /\ \E c \in IF "sn" \in active THEN {FALSE} ELSE Outcomes(Creatable("sn")) :
         /\ ok = c
         /\ lvm' = IF c THEN lvm \cup {"sn"} ELSE lvm
         /\ sn_data' = IF c THEN Base ELSE sn_data
         /\ active' = IF c THEN active \cup {"sn"} ELSE active
    /\ UNCHANGED <<mount, wrapper_loaded, hwm_open, disk_mounted, wrapper_inserted, ioctl_fd>>

\* destroy_snapshot: lvremove -f if lvm_sn_active; a failure keeps the flag.
DestroySnapshot(ok) ==
    /\ \E r \in IF "sn" \in active THEN Outcomes(Removable("sn")) ELSE {TRUE} :
         /\ ok = r
         /\ lvm' = IF r /\ "sn" \in active THEN lvm \ {"sn"} ELSE lvm
         /\ active' = IF r THEN active \ {"sn"} ELSE active
    /\ UNCHANGED <<mount, wrapper_loaded, hwm_open, sn_data, disk_mounted, wrapper_inserted, ioctl_fd>>

\* mount_device: the flag is the result of mount(2).
MountDevice(ok, dev) ==
    /\ \E m \in Outcomes(mount = "none" /\ IF dev = "wrapper" THEN wrapper_loaded ELSE dev \in lvm) :
         /\ ok = m
         /\ mount' = IF m THEN dev ELSE mount
         /\ disk_mounted' = m
    /\ UNCHANGED <<lvm, wrapper_loaded, hwm_open, sn_data, active, wrapper_inserted, ioctl_fd>>

\* umount_device: umount(2) if the flag is set; a failure keeps it set.
UmountDevice(ok) ==
    /\ \E u \in IF disk_mounted THEN Outcomes(mount # "none") ELSE {TRUE} :
         /\ ok = u
         /\ mount' = IF u /\ disk_mounted THEN "none" ELSE mount
         /\ disk_mounted' = ~u
    /\ UNCHANGED <<lvm, wrapper_loaded, hwm_open, sn_data, active, wrapper_inserted, ioctl_fd>>

\* insert_wrapper / remove_wrapper: insmod / rmmod hellow.ko, guarded by the flag.
InsertWrapper(ok) ==
    /\ \E i \in IF wrapper_inserted THEN {TRUE} ELSE Outcomes(~wrapper_loaded) :
         /\ ok = i
         /\ wrapper_loaded' = (wrapper_loaded \/ i)
         /\ wrapper_inserted' = i
    /\ UNCHANGED <<lvm, mount, hwm_open, sn_data, active, disk_mounted, ioctl_fd>>

\* rmmod fails while the module is in use: mounted on, or held by an open fd.
RemoveWrapper(ok) ==
    /\ \E r \in IF wrapper_inserted
                 THEN Outcomes(wrapper_loaded /\ mount # "wrapper" /\ hwm_open = 0)
                 ELSE {TRUE} :
         /\ ok = r
         /\ wrapper_loaded' = (wrapper_loaded /\ ~(r /\ wrapper_inserted))
         /\ wrapper_inserted' = ~r
    /\ UNCHANGED <<lvm, mount, hwm_open, sn_data, active, disk_mounted, ioctl_fd>>

(***************************************************************************)
(* get_wrapper_ioctl: open /dev/hwm, which exists while hellow.ko is      *)
(* loaded, and store the fd in ioctl_fd, or -1 on failure, whatever        *)
(* ioctl_fd held before.                                                   *)
(***************************************************************************)
GetWrapperIoctl(ok) ==
    /\ \E opn \in Outcomes(wrapper_loaded) :
         /\ ok = opn
         /\ hwm_open' = IF opn THEN hwm_open + 1 ELSE hwm_open
         /\ ioctl_fd' = opn
    /\ UNCHANGED <<lvm, mount, wrapper_loaded, sn_data, active, disk_mounted, wrapper_inserted>>

\* put_wrapper_ioctl: close ioctl_fd if it is not -1.
PutWrapperIoctl ==
    /\ hwm_open' = IF ioctl_fd THEN hwm_open - 1 ELSE hwm_open
    /\ ioctl_fd' = FALSE
    /\ UNCHANGED <<lvm, mount, wrapper_loaded, sn_data, active, disk_mounted, wrapper_inserted>>

-----------------------------------------------------------------------------
\* WEXITSTATUS of a raw wait status.
WExitStatus(st) == (st \div 256) % 256

Count(s) == stats' = [stats EXCEPT ![s] = @ + 1]

\* test_write_data's results: an lseek or write of some bio may fail part way.
TestWriteData == Outcomes(TRUE)

\* test_check_random_permutations returns r.
Return(r) == pc' = "idle" /\ ret' = r

\* Mutant: end_itr is not reset when a round ends.
NextTestNoReset ==
    IF end_itr + 1 < LogLen
    THEN end_itr' = end_itr + 1 /\ pc' = "begin" /\ UNCHANGED <<rounds, ret>>
    ELSE /\ end_itr' = end_itr + 1 /\ rounds' = rounds + 1
         /\ IF rounds + 1 < NumRounds THEN pc' = "begin" /\ UNCHANGED ret ELSE Return("SUCCESS")

\* The for loops' increments: the next prefix, or the next round (after
\* permute_random, which only reorders log_data), or the loop's end.
NextTest ==
    IF end_itr + 1 < LogLen
    THEN end_itr' = end_itr + 1 /\ pc' = "begin" /\ UNCHANGED <<rounds, ret>>
    ELSE /\ end_itr' = 0 /\ rounds' = rounds + 1
         /\ IF rounds + 1 < NumRounds THEN pc' = "begin" /\ UNCHANGED ret ELSE Return("SUCCESS")

\* test_check_random_permutations is called: the stats are zeroed.
TestCheck ==
    /\ pc = "idle"
    /\ pc' = "begin" /\ rounds' = 0 /\ end_itr' = 0 /\ stats' = [s \in Stats |-> 0]
    /\ UNCHANGED <<lvm_vars, flag_vars, fsck_res, ret, checked>>

\* A test begins: count it, and destroy the last test's snapshot if the flag is set.
BeginTest ==
    /\ pc = "begin"
    /\ Count("RUN")
    /\ \E ok \in BOOLEAN :
         /\ DestroySnapshot(ok)
         /\ IF ok THEN pc' = "init" /\ UNCHANGED ret ELSE Return("LVM_SN_REMOVE_ERR")
    /\ UNCHANGED <<rounds, end_itr, fsck_res, checked>>

\* Create the test's snapshot of the logical volume.
MakeSnapshot ==
    /\ pc = "init"
    /\ \E ok \in BOOLEAN :
         /\ InitSnapshot(ok)
         /\ IF ok THEN pc' = "write" /\ UNCHANGED ret ELSE Return("LVM_SN_INIT_ERR")
    /\ UNCHANGED <<rounds, end_itr, fsck_res, stats, checked>>

\* Mutant: a failed write goes on to fsck instead of to the next prefix.
WriteDataFailGoesOn ==
    /\ pc = "write"
    /\ \E opn \in Outcomes("sn" \in lvm), w \in TestWriteData :
         CASE ~opn -> Return("TEST_CASE_FILE_ERR") /\ UNCHANGED <<sn_data, rounds, end_itr, stats>>
           [] w    -> sn_data' = <<rounds, end_itr>> /\ pc' = "fsck" /\ UNCHANGED <<rounds, end_itr, stats, ret>>
           [] OTHER -> sn_data' \in {sn_data, Partial} /\ Count("ERR") /\ pc' = "fsck"
                       /\ UNCHANGED <<rounds, end_itr, ret>>
    /\ UNCHANGED <<lvm, mount, wrapper_loaded, hwm_open, flag_vars, fsck_res, checked>>

(***************************************************************************)
(* open the snapshot (a failure returns) and test_write_data the prefix;   *)
(* a write that fails, possibly part way, is counted as an error and the   *)
(* loop goes on to the next prefix.                                        *)
(***************************************************************************)
WriteData ==
    /\ pc = "write"
    /\ \E opn \in Outcomes("sn" \in lvm), w \in TestWriteData :
         CASE ~opn -> Return("TEST_CASE_FILE_ERR") /\ UNCHANGED <<sn_data, rounds, end_itr, stats>>
           [] w    -> sn_data' = <<rounds, end_itr>> /\ pc' = "fsck"
                      /\ UNCHANGED <<rounds, end_itr, stats, ret>>
           [] OTHER -> sn_data' \in {sn_data, Partial} /\ Count("ERR") /\ NextTest
    /\ UNCHANGED <<lvm, mount, wrapper_loaded, hwm_open, flag_vars, fsck_res, checked>>

\* fsck the snapshot: a status other than 0 or exit 1 is counted as a failure.
Fsck ==
    /\ pc = "fsck"
    /\ \E st \in FsckStatuses :
         /\ fsck_res' = st
         /\ IF st = 0 \/ WExitStatus(st) = 1
            THEN pc' = "mount" /\ UNCHANGED <<rounds, end_itr, stats, ret>>
            ELSE Count("FSCK_FAIL") /\ NextTest
    /\ UNCHANGED <<lvm_vars, flag_vars, checked>>

\* Mount the snapshot; a failure is counted, and the loop goes on to check_test.
MountForCheck ==
    /\ pc = "mount"
    /\ \E ok \in BOOLEAN :
         /\ MountDevice(ok, "sn")
         /\ IF ok THEN UNCHANGED stats ELSE Count("FSCK_FAIL")
    /\ pc' = "check"
    /\ UNCHANGED <<rounds, end_itr, fsck_res, ret, checked>>

(***************************************************************************)
(* check_test, its result counted by the first branch that matches, then  *)
(* umount_device, whose result is ignored.                                 *)
(***************************************************************************)
CheckTest ==
    /\ pc = "check"
    /\ \E r \in CheckResults :
         /\ Count(CASE r < 0 -> "BAD_DATA"
                     [] r = 0 /\ fsck_res # 0 -> "FSCK_FIX"
                     [] r = 0 -> "PASS"
                     [] OTHER -> "ERR")
         /\ checked' = [test |-> <<rounds, end_itr>>, mounted |-> mount = "sn", data |-> sn_data]
    /\ \E ok \in BOOLEAN : UmountDevice(ok)
    /\ NextTest
    /\ UNCHANGED <<lvm, wrapper_loaded, hwm_open, sn_data, active, wrapper_inserted, ioctl_fd, fsck_res>>

-----------------------------------------------------------------------------
(***************************************************************************)
(* cleanup_harness: umount_device, remove_wrapper, lvm_destroy, returning  *)
(* at the first that fails.                                                *)
(***************************************************************************)
CleanupHarness ==
    /\ pc = "idle"
    /\ \E ok \in BOOLEAN : UmountDevice(ok) /\ pc' = IF ok THEN "cl_wrapper" ELSE "idle"
    /\ UNCHANGED <<rounds, end_itr, fsck_res, stats, ret, checked>>

CleanupWrapper ==
    /\ pc = "cl_wrapper"
    /\ \E ok \in BOOLEAN : RemoveWrapper(ok) /\ pc' = IF ok THEN "cl_lvm" ELSE "idle"
    /\ UNCHANGED <<rounds, end_itr, fsck_res, stats, ret, checked>>

CleanupLvm ==
    /\ pc = "cl_lvm"
    /\ \E ok \in BOOLEAN : LvmDestroy(ok)
    /\ pc' = "idle"
    /\ UNCHANGED <<rounds, end_itr, fsck_res, stats, ret, checked>>

\* The driver calls one of the harness's functions while none is running.
Call(F) == pc = "idle" /\ F /\ UNCHANGED loop_vars

DriverCall ==
    \/ Call(\E ok \in BOOLEAN : LvmInit(ok))
    \/ Call(\E ok \in BOOLEAN : LvmDestroy(ok))
    \/ Call(\E ok \in BOOLEAN : InitSnapshot(ok))
    \/ Call(\E ok \in BOOLEAN : DestroySnapshot(ok))
    \/ Call(\E ok \in BOOLEAN, dev \in Devices : MountDevice(ok, dev))
    \/ Call(\E ok \in BOOLEAN : UmountDevice(ok))
    \/ Call(\E ok \in BOOLEAN : InsertWrapper(ok))
    \/ Call(\E ok \in BOOLEAN : RemoveWrapper(ok))
    \/ Call(\E ok \in BOOLEAN : hwm_open < MaxOpenFds /\ GetWrapperIoctl(ok))
    \/ Call(PutWrapperIoctl)
    \/ TestCheck
    \/ CleanupHarness

\* The steps of a running function.
HarnessStep ==
    \/ BeginTest \/ MakeSnapshot \/ WriteData \/ Fsck \/ MountForCheck \/ CheckTest
    \/ CleanupWrapper \/ CleanupLvm

Next == DriverCall \/ HarnessStep

\* The harness is one thread and each call it makes returns.
Spec == Init /\ [][Next]_vars /\ WF_vars(HarnessStep)

-----------------------------------------------------------------------------
TypeOK ==
    /\ lvm \subseteq Volumes /\ active \subseteq {"pv", "vg", "sn"}
    /\ mount \in Devices \cup {"none"}
    /\ sn_data \in Tests \cup {Base, Partial}
    /\ {wrapper_loaded, disk_mounted, wrapper_inserted, ioctl_fd} \subseteq BOOLEAN
    /\ hwm_open \in 0..MaxOpenFds
    /\ pc \in {"idle", "begin", "init", "write", "fsck", "mount", "check", "cl_wrapper", "cl_lvm"}
    /\ rounds \in 0..NumRounds /\ end_itr \in 0..LogLen - 1
    /\ fsck_res \in FsckStatuses \cup {0}
    /\ stats \in [Stats -> 0..NumRounds * LogLen]
    /\ checked \in [test : Tests, mounted : BOOLEAN, data : Tests \cup {Base, Partial}]

(***************************************************************************)
(* Through every failure and undo path of lvm_init and lvm_destroy, the    *)
(* lvm_pv_active and lvm_vg_active flags name exactly the PV and VG that   *)
(* exist, and a snapshot that exists has lvm_sn_active set (so that the    *)
(* next destroy_snapshot removes it).                                      *)
(***************************************************************************)
LvmFlagsTrackVolumes ==
    /\ active \cap {"pv", "vg"} = lvm \cap {"pv", "vg"}
    /\ "sn" \in lvm => "sn" \in active

(***************************************************************************)
(* fsck and the mount of test_check_random_permutations run on a snapshot  *)
(* that exists and holds exactly the prefix of this test: never the        *)
(* previous test's, a fresh one, or one left half written.  And a          *)
(* check_test that ran with the snapshot mounted read exactly the prefix   *)
(* of the test it is counted for.  Whether check_test ran mounted at all   *)
(* is not claimed: after a failed mount (lines 445-447) it runs on the     *)
(* empty mount point, and checked.mounted is then FALSE.                   *)
(***************************************************************************)
CheckSeesThisTest ==
    /\ pc \in {"fsck", "mount"} =>
           /\ "sn" \in lvm
           /\ sn_data = <<rounds, end_itr>>
    /\ checked.mounted => checked.data = checked.test
=============================================================================
