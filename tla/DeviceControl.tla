---------------------------- MODULE DeviceControl ----------------------------
(***************************************************************************)
(* The harness's hold on its kernel resources (src/code/harness/          *)
(* Tester.cpp): the cow_brd module and its fd, the disk_wrapper module,    *)
(* the /dev/hwm ioctl fd, the mount on /mnt/snapshot, and the teardown in *)
(* cleanup_harness.                                                        *)
(*                                                                         *)
(* The kernel side is what insmod, rmmod, open, mount and umount do: a     *)
(* module cannot be loaded twice, nor removed while an open fd, a mount or *)
(* the wrapper stacked on it holds it; a device can only be opened or      *)
(* mounted while its module is loaded, and one file system is mounted on   *)
(* /mnt/snapshot at a time.  With EnvFaults, any of these calls may also   *)
(* fail for reasons of its own (udev not done creating /dev/cow_ram0, a    *)
(* transient EBUSY, a damaged file system).                                *)
(*                                                                         *)
(* Each harness function is an operator F(ok, ...) where ok is whether it  *)
(* returns SUCCESS.  The driver program that calls them is not part of    *)
(* the sources, so any of them may be called at any time.                *)
(***************************************************************************)
EXTENDS Naturals

CONSTANTS
    EnvFaults,      \* whether the driver's calls may fail beyond what the kernel dictates
    CleanupFaults,  \* the same for the calls cleanup_harness makes
    MaxOpenFds      \* bound on the fds open on one device

Devices == {"snapshot", "wrapper"}

VARIABLES
    \* kernel
    cow_loaded, wrapper_loaded,
    cow_open,       \* fds open on /dev/cow_ram0
    hwm_open,       \* fds open on /dev/hwm
    mount,          \* "none" or the device mounted on /mnt/snapshot
    \* harness (Tester members)
    cow_brd_fd,     \* cow_brd_fd >= 0
    cow_brd_inserted, wrapper_inserted,
    ioctl_fd,       \* ioctl_fd != -1
    disk_mounted,
    pc,             \* "idle" or the step cleanup_harness is at
    \* history
    cleanup_ok,     \* the last call was a cleanup_harness that reached its end
    cleanups,       \* cleanup_harness calls since the last other call, capped at 2
    first_kernel    \* the kernel state the first of those calls left

kernel  == <<cow_loaded, wrapper_loaded, cow_open, hwm_open, mount>>
harness == <<cow_brd_fd, cow_brd_inserted, wrapper_inserted, ioctl_fd, disk_mounted>>
history == <<cleanup_ok, cleanups, first_kernel>>
vars    == <<kernel, harness, pc, history>>

\* The outcomes of a call the kernel allows exactly when cond holds.
Outcomes(cond) ==
    IF (pc = "idle" /\ EnvFaults) \/ (pc # "idle" /\ CleanupFaults)
    THEN {FALSE, cond} ELSE {cond}

Init ==
    /\ cow_loaded = FALSE /\ wrapper_loaded = FALSE
    /\ cow_open = 0 /\ hwm_open = 0 /\ mount = "none"
    /\ cow_brd_fd = FALSE /\ cow_brd_inserted = FALSE /\ wrapper_inserted = FALSE
    /\ ioctl_fd = FALSE /\ disk_mounted = FALSE
    /\ pc = "idle"
    /\ cleanup_ok = FALSE
    /\ cleanups = 0
    /\ first_kernel = kernel

(***************************************************************************)
(* insert_cow_brd: insmod unless the fd is already open, then open         *)
(* /dev/cow_ram0 (an fd already open is overwritten, not closed); if the   *)
(* open fails, rmmod.  A failed rmmod clears both flags and returns an     *)
(* error; a successful one leaves cow_brd_inserted set and returns         *)
(* SUCCESS.                                                                *)
(***************************************************************************)
InsertCowBrd(ok) ==
    \E ins \in IF cow_brd_fd THEN {TRUE} ELSE Outcomes(~cow_loaded) :
      IF ~ins
      THEN ~ok /\ UNCHANGED <<kernel, harness>>
      ELSE \E opn \in Outcomes(TRUE) :
           IF opn
           THEN /\ ok
                /\ cow_loaded' = TRUE /\ cow_open' = cow_open + 1
                /\ cow_brd_fd' = TRUE /\ cow_brd_inserted' = TRUE
                /\ UNCHANGED <<wrapper_loaded, hwm_open, mount,
                               wrapper_inserted, ioctl_fd, disk_mounted>>
           ELSE \E rm \in Outcomes(~wrapper_loaded /\ cow_open = 0 /\ mount = "none") :
                /\ ok = rm
                /\ cow_loaded' = ~rm
                /\ cow_brd_fd' = FALSE
                /\ cow_brd_inserted' = rm
                /\ UNCHANGED <<wrapper_loaded, cow_open, hwm_open, mount,
                               wrapper_inserted, ioctl_fd, disk_mounted>>

(***************************************************************************)
(* remove_cow_brd: if the flag is set, close the fd (clearing the flag     *)
(* only then) and rmmod; a failed rmmod sets the flag again.               *)
(***************************************************************************)
RemoveCowBrd(ok) ==
    IF ~cow_brd_inserted
    THEN ok /\ UNCHANGED <<kernel, harness>>
    ELSE LET open == IF cow_brd_fd THEN cow_open - 1 ELSE cow_open
         IN  \E rm \in Outcomes(cow_loaded /\ ~wrapper_loaded /\ open = 0 /\ mount = "none") :
               /\ ok = rm
               /\ cow_open' = open
               /\ cow_brd_fd' = FALSE
               /\ cow_loaded' = (cow_loaded /\ ~rm)
               /\ cow_brd_inserted' = (~rm \/ ~cow_brd_fd)
               /\ UNCHANGED <<wrapper_loaded, hwm_open, mount, wrapper_inserted,
                              ioctl_fd, disk_mounted>>

\* insert_wrapper: insmod disk_wrapper on the cow snapshot unless the flag is set.
InsertWrapper(ok) ==
    /\ \E ins \in IF wrapper_inserted THEN {TRUE} ELSE Outcomes(cow_loaded /\ ~wrapper_loaded) :
         /\ ok = ins
         /\ wrapper_loaded' = (wrapper_loaded \/ ins)
         /\ wrapper_inserted' = ins
    /\ UNCHANGED <<cow_loaded, cow_open, hwm_open, mount, cow_brd_fd, cow_brd_inserted,
                   ioctl_fd, disk_mounted>>

\* Mutant: a failed rmmod does not set the flag again.
RemoveWrapperDropsFlag(ok) ==
    /\ \E rm \in IF wrapper_inserted
                 THEN Outcomes(wrapper_loaded /\ hwm_open = 0 /\ mount # "wrapper")
                 ELSE {TRUE} :
         /\ ok = rm
         /\ wrapper_loaded' = (wrapper_loaded /\ ~(rm /\ wrapper_inserted))
         /\ wrapper_inserted' = FALSE
    /\ UNCHANGED <<cow_loaded, cow_open, hwm_open, mount, cow_brd_fd, cow_brd_inserted,
                   ioctl_fd, disk_mounted>>

\* remove_wrapper: rmmod disk_wrapper if the flag is set; a failure keeps it set.
RemoveWrapper(ok) ==
    /\ \E rm \in IF wrapper_inserted
                 THEN Outcomes(wrapper_loaded /\ hwm_open = 0 /\ mount # "wrapper")
                 ELSE {TRUE} :
         /\ ok = rm
         /\ wrapper_loaded' = (wrapper_loaded /\ ~(rm /\ wrapper_inserted))
         /\ wrapper_inserted' = ~rm
    /\ UNCHANGED <<cow_loaded, cow_open, hwm_open, mount, cow_brd_fd, cow_brd_inserted,
                   ioctl_fd, disk_mounted>>

\* get_wrapper_ioctl: open /dev/hwm into ioctl_fd (an fd already open is overwritten).
GetWrapperIoctl(ok) ==
    /\ \E opn \in Outcomes(wrapper_loaded) :
         /\ ok = opn
         /\ hwm_open' = IF opn THEN hwm_open + 1 ELSE hwm_open
         /\ ioctl_fd' = opn
    /\ UNCHANGED <<cow_loaded, wrapper_loaded, cow_open, mount, cow_brd_fd,
                   cow_brd_inserted, wrapper_inserted, disk_mounted>>

\* Mutant: the fd is closed without testing that it is open.
PutWrapperIoctlUnguarded ==
    /\ hwm_open' = hwm_open - 1
    /\ ioctl_fd' = FALSE
    /\ UNCHANGED <<cow_loaded, wrapper_loaded, cow_open, mount, cow_brd_fd,
                   cow_brd_inserted, wrapper_inserted, disk_mounted>>

\* put_wrapper_ioctl: close ioctl_fd if it is open.
PutWrapperIoctl ==
    /\ ioctl_fd
    /\ hwm_open' = hwm_open - 1
    /\ ioctl_fd' = FALSE
    /\ UNCHANGED <<cow_loaded, wrapper_loaded, cow_open, mount, cow_brd_fd,
                   cow_brd_inserted, wrapper_inserted, disk_mounted>>

MountDevice(ok, dev) ==
    /\ \E m \in Outcomes(mount = "none" /\ IF dev = "snapshot" THEN cow_loaded ELSE wrapper_loaded) :
         /\ ok = m
         /\ mount' = IF m THEN dev ELSE mount
         /\ disk_mounted' = m
    /\ UNCHANGED <<cow_loaded, wrapper_loaded, cow_open, hwm_open, cow_brd_fd,
                   cow_brd_inserted, wrapper_inserted, ioctl_fd>>

\* umount_device: umount(2) if the flag is set; a failure keeps it set.
UmountDevice(ok) ==
    /\ \E u \in IF disk_mounted THEN Outcomes(mount # "none") ELSE {TRUE} :
         /\ ok = u
         /\ mount' = IF u /\ disk_mounted THEN "none" ELSE mount
         /\ disk_mounted' = ~u
    /\ UNCHANGED <<cow_loaded, wrapper_loaded, cow_open, hwm_open, cow_brd_fd,
                   cow_brd_inserted, wrapper_inserted, ioctl_fd>>

-----------------------------------------------------------------------------
\* A harness function called by the driver, outside cleanup_harness.
Call(F) ==
    /\ pc = "idle"
    /\ F
    /\ cleanup_ok' = FALSE /\ cleanups' = 0
    /\ UNCHANGED <<pc, first_kernel>>

DriverCall ==
    \/ Call(\E ok \in BOOLEAN : cow_open < MaxOpenFds /\ InsertCowBrd(ok))
    \/ Call(\E ok \in BOOLEAN : RemoveCowBrd(ok))
    \/ Call(\E ok \in BOOLEAN : InsertWrapper(ok))
    \/ Call(\E ok \in BOOLEAN : RemoveWrapper(ok))
    \/ Call(\E ok \in BOOLEAN : hwm_open < MaxOpenFds /\ GetWrapperIoctl(ok))
    \/ Call(PutWrapperIoctl)
    \/ Call(\E ok \in BOOLEAN, dev \in Devices : MountDevice(ok, dev))
    \/ Call(\E ok \in BOOLEAN : UmountDevice(ok))

\* cleanup_harness returns: record whether it reached its end, and the kernel state.
CleanupReturns(reached_end) ==
    /\ pc' = "idle"
    /\ cleanup_ok' = reached_end
    /\ cleanups' = IF cleanups < 2 THEN cleanups + 1 ELSE 2
    /\ first_kernel' = IF cleanups = 0 THEN kernel' ELSE first_kernel

(***************************************************************************)
(* cleanup_harness: umount_device, remove_wrapper, remove_cow_brd, a       *)
(* failure of any of them returning early (after unloading the plug-ins,   *)
(* whose loader is not part of the sources).                               *)
(***************************************************************************)
CleanupStep(from, F(_), to) ==
    /\ pc = from
    /\ \E ok \in BOOLEAN :
         /\ F(ok)
         /\ IF ok /\ to # "idle"
            THEN pc' = to /\ UNCHANGED history
            ELSE CleanupReturns(ok)

CleanupHarness ==
    \/ pc = "idle" /\ pc' = "umount" /\ UNCHANGED <<kernel, harness, history>>
    \/ CleanupStep("umount", UmountDevice, "wrapper")
    \/ CleanupStep("wrapper", RemoveWrapper, "cow")
    \/ CleanupStep("cow", RemoveCowBrd, "idle")

Next == DriverCall \/ CleanupHarness

Spec == Init /\ [][Next]_vars

-----------------------------------------------------------------------------
TypeOK ==
    /\ cow_loaded \in BOOLEAN /\ wrapper_loaded \in BOOLEAN
    /\ cow_open \in 0..MaxOpenFds /\ hwm_open \in 0..MaxOpenFds
    /\ mount \in {"none"} \cup Devices
    /\ harness \in BOOLEAN \X BOOLEAN \X BOOLEAN \X BOOLEAN \X BOOLEAN
    /\ pc \in {"idle", "umount", "wrapper", "cow"}
    /\ cleanup_ok \in BOOLEAN
    /\ cleanups \in 0..2

CleanupIdempotent ==
    pc = "idle" /\ cleanups = 2 => kernel = first_kernel

(***************************************************************************)
(* When cleanup_harness reaches its end without reporting an error, the    *)
(* harness has released what it acquired (spec 4.4 and 5): no module is    *)
(* loaded, nothing is mounted and no fd is left open.                      *)
(***************************************************************************)
CleanupReleasesAll ==
    cleanup_ok =>
        /\ ~cow_loaded /\ ~wrapper_loaded /\ mount = "none"
        /\ cow_open = 0 /\ hwm_open = 0
=============================================================================
