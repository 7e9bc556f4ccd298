---------------------------- MODULE WrapperSession ----------------------------
(***************************************************************************)
(* The harness's resource control (DeviceControl) and its drain of the     *)
(* wrapper's log (LogDrain) in one Tester object: the logging functions    *)
(* act only through the /dev/hwm fd that get_wrapper_ioctl opens, and the  *)
(* wrapper's log lives as long as the disk_wrapper module is loaded, so an *)
(* rmmod or insmod of the wrapper starts it empty with logging off.        *)
(*                                                                         *)
(* The harness is one thread: a harness function runs only while no other *)
(* is part way through (neither cleanup_harness nor a drain).  The         *)
(* wrapper's recording of bios is the kernel's, and may happen at any      *)
(* time.                                                                   *)
(***************************************************************************)
CONSTANTS EnvFaults, CleanupFaults, MaxOpenFds, MaxEntries, MetaErrs, DataErrs, NextErrs

VARIABLES
    \* DeviceControl
    cow_loaded, wrapper_loaded, cow_open, hwm_open, mount,
    cow_brd_fd, cow_brd_inserted, wrapper_inserted, ioctl_fd, disk_mounted,
    dc_pc, cleanup_ok, cleanups, first_kernel,
    \* LogDrain
    logging, klog, recorded, ld_pc, meta, log_data, ret, log0, taken

DC == INSTANCE DeviceControl WITH pc <- dc_pc
LD == INSTANCE LogDrain WITH pc <- ld_pc

dc_vars == <<cow_loaded, wrapper_loaded, cow_open, hwm_open, mount, cow_brd_fd,
             cow_brd_inserted, wrapper_inserted, ioctl_fd, disk_mounted,
             dc_pc, cleanup_ok, cleanups, first_kernel>>
ld_vars == <<logging, klog, recorded, ld_pc, meta, log_data, ret, log0, taken>>
vars    == <<dc_vars, ld_vars>>

Init == DC!Init /\ LD!DrainInit

\* A DeviceControl step; loading or removing the wrapper module replaces its log.
ControlStep ==
    /\ ld_pc = "idle"
    /\ DC!Next
    /\ IF wrapper_loaded' # wrapper_loaded
       THEN logging' = FALSE /\ klog' = << >>
       ELSE UNCHANGED <<logging, klog>>
    /\ UNCHANGED <<recorded, ld_pc, meta, log_data, ret, log0, taken>>

\* A LogDrain step, on the ioctl_fd DeviceControl holds.
DrainStep ==
    /\ dc_pc = "idle" \/ LD!Record
    /\ LD!DrainStep
    /\ UNCHANGED dc_vars

Next == ControlStep \/ DrainStep

\* The steps of a harness function part way through: the drain's ioctls and
\* cleanup_harness's calls.  The harness is one thread, and each ioctl and
\* system call it makes returns.
HarnessStep ==
    \/ ld_pc # "idle" /\ (LD!GetLogMeta \/ LD!GetLogData \/ LD!NextEnt) /\ UNCHANGED dc_vars
    \/ dc_pc # "idle" /\ ControlStep

Spec == Init /\ [][Next]_vars /\ WF_vars(HarnessStep)

-----------------------------------------------------------------------------
TypeOK == DC!TypeOK

CleanupIdempotent == DC!CleanupIdempotent

(***************************************************************************)
(* get_wrapper_log's while (1) loop ends, on every errno it meets, once    *)
(* the wrapper has stopped logging: each iteration either leaves the loop  *)
(* or moves the wrapper's head on with NEXT_ENT.  cleanup_harness returns  *)
(* too.                                                                    *)
(***************************************************************************)
HarnessCallsReturn ==
    ((ld_pc # "idle" /\ ~logging) \/ dc_pc # "idle") ~> (ld_pc = "idle" /\ dc_pc = "idle")
=============================================================================
