------------------------------- MODULE LogDrain -------------------------------
(***************************************************************************)
(* Draining the disk_wrapper's write log into the harness                  *)
(* (Tester::get_wrapper_log and the logging ioctls, src/code/harness/     *)
(* Tester.cpp), with the wrapper module on the other side of /dev/hwm.     *)
(*                                                                         *)
(* The wrapper's log is a queue of recorded bios, named by their order of  *)
(* arrival (1, 2, ...); the payload is abstracted away.  The wrapper       *)
(* module is not part of the sources, so its side is modelled from the     *)
(* ioctl table of the spec (section 6): GET_LOG_META and NEXT_ENT answer   *)
(* ENODATA on an empty log, GET_LOG_DATA copies the head's payload, and a *)
(* call on a non-empty log may also fail with an errno of the sets         *)
(* MetaErrs, DataErrs, NextErrs (EFAULT when copy_to_user faults).  Bios   *)
(* are recorded while logging is on, by the kernel's own threads, so they  *)
(* may arrive in the middle of a drain.                                    *)
(*                                                                         *)
(* ioctl_fd is opened and closed by DeviceControl; here it stays open, and *)
(* WrapperSession composes the two.  With it closed, the logging functions *)
(* do nothing and get_wrapper_log returns SUCCESS at once.                 *)
(***************************************************************************)
EXTENDS Naturals, Sequences

CONSTANTS
    MaxEntries,     \* bound on the bios the wrapper records
    MetaErrs,       \* errnos GET_LOG_META may fail with besides ENODATA
    DataErrs,       \* the same for GET_LOG_DATA
    NextErrs        \* the same for NEXT_ENT

\* A garbage value of an uninitialized meta or data buffer, naming no
\* recorded bio.
Uninitialized == 0

VARIABLES
    logging,        \* the wrapper records bios (HWM_LOG_ON / HWM_LOG_OFF)
    klog,           \* the wrapper's log, head first
    recorded,       \* bios recorded so far
    pc,             \* "idle" or the ioctl get_wrapper_log is about to make
    meta,           \* get_wrapper_log's local meta
    log_data,       \* Tester::log_data: <<meta, payload>> pairs, each naming a bio
    ret,            \* what the last get_wrapper_log returned
    \* history
    log0,           \* log_data when the current drain began
    taken,          \* the entries NEXT_ENT removed from klog during this drain
    ioctl_fd        \* Tester::ioctl_fd != -1, read here and never changed

vars == <<logging, klog, recorded, pc, meta, log_data, ret, log0, taken, ioctl_fd>>

DrainInit ==
    /\ logging = FALSE /\ klog = << >> /\ recorded = 0
    /\ pc = "idle" /\ meta = Uninitialized /\ log_data = << >> /\ ret = "SUCCESS"
    /\ log0 = << >> /\ taken = << >>

Init == DrainInit /\ ioctl_fd = TRUE

\* The wrapper records a bio (spec 6; the wrapper's code is not in the sources).
Record ==
    /\ logging /\ recorded < MaxEntries
    /\ recorded' = recorded + 1
    /\ klog' = Append(klog, recorded + 1)
    /\ UNCHANGED <<logging, pc, meta, log_data, ret, log0, taken>>

\* begin_wrapper_logging / end_wrapper_logging / clear_wrapper_log; with
\* ioctl_fd closed they change nothing.
BeginWrapperLogging ==
    pc = "idle" /\ ioctl_fd /\ logging' = TRUE /\ UNCHANGED <<klog, recorded, pc, meta, log_data, ret, log0, taken>>

EndWrapperLogging ==
    pc = "idle" /\ ioctl_fd /\ logging' = FALSE /\ UNCHANGED <<klog, recorded, pc, meta, log_data, ret, log0, taken>>

ClearWrapperLog ==
    pc = "idle" /\ ioctl_fd /\ klog' = << >> /\ UNCHANGED <<logging, recorded, pc, meta, log_data, ret, log0, taken>>

\* get_wrapper_log is called; log_data is not cleared first.  With ioctl_fd
\* closed it returns SUCCESS having drained nothing.
GetWrapperLog ==
    /\ pc = "idle"
    /\ log0' = log_data /\ taken' = << >>
    /\ \/ ioctl_fd /\ pc' = "meta" /\ UNCHANGED ret
       \/ ~ioctl_fd /\ ret' = "SUCCESS" /\ UNCHANGED pc
    /\ UNCHANGED <<logging, klog, recorded, meta, log_data>>

\* get_wrapper_log returns r, after clearing log_data if asked to.
Return(r, clear) ==
    /\ pc' = "idle" /\ ret' = r
    /\ log_data' = IF clear THEN << >> ELSE log_data

(***************************************************************************)
(* HWM_GET_LOG_META.  ENODATA ends the drain, EFAULT discards the log and  *)
(* fails; any other errno is not tested for, and the loop goes on with     *)
(* meta uninitialized: it holds what its stack slot held, the previous     *)
(* iteration's meta, or garbage.                                           *)
(***************************************************************************)
GetLogMeta ==
    /\ pc = "meta"
    /\ \/ klog = << >> /\ Return("SUCCESS", FALSE) /\ UNCHANGED meta
       \/ klog # << >> /\ meta' = Head(klog) /\ pc' = "data" /\ UNCHANGED <<log_data, ret>>
       \/ klog # << >> /\ "EFAULT" \in MetaErrs
          /\ Return("WRAPPER_DATA_ERR", TRUE) /\ UNCHANGED meta
       \/ klog # << >> /\ MetaErrs \ {"EFAULT"} # {}
          /\ meta' \in {meta, Uninitialized} /\ pc' = "data" /\ UNCHANGED <<log_data, ret>>
    /\ UNCHANGED <<logging, klog, recorded, log0, taken>>

\* Mutant: an errno other than EFAULT from GET_LOG_DATA retries the entry.
GetLogDataRetry ==
    /\ pc = "data"
    /\ \/ klog # << >> /\ log_data' = Append(log_data, <<meta, Head(klog)>>) /\ pc' = "next" /\ UNCHANGED ret
       \/ klog # << >> /\ "EFAULT" \in DataErrs /\ Return("WRAPPER_MEM_ERR", TRUE)
       \/ klog # << >> /\ DataErrs \ {"EFAULT"} # {} /\ pc' = "meta" /\ UNCHANGED <<log_data, ret>>
    /\ UNCHANGED <<logging, klog, recorded, meta, log0, taken>>

(***************************************************************************)
(* HWM_GET_LOG_DATA into a new char[meta.size], then                       *)
(* log_data.emplace_back(meta, data) unless it returned: on success the    *)
(* head's payload, on an errno other than EFAULT the buffer as new left it *)
(* (uninitialized).  Its ENODATA branch, like NEXT_ENT's, is unreachable:  *)
(* only the drain removes entries, and the head it just read is still      *)
(* there.                                                                  *)
(***************************************************************************)
GetLogData ==
    /\ pc = "data"
    /\ \/ klog # << >> /\ log_data' = Append(log_data, <<meta, Head(klog)>>) /\ pc' = "next" /\ UNCHANGED ret
       \/ klog # << >> /\ "EFAULT" \in DataErrs /\ Return("WRAPPER_MEM_ERR", TRUE)
       \/ klog # << >> /\ DataErrs \ {"EFAULT"} # {}
          /\ log_data' = Append(log_data, <<meta, Uninitialized>>) /\ pc' = "next" /\ UNCHANGED ret
    /\ UNCHANGED <<logging, klog, recorded, meta, log0, taken>>

\* HWM_NEXT_ENT: an errno other than ENODATA discards the log and breaks.
NextEnt ==
    /\ pc = "next"
    /\ \/ klog # << >>
          /\ klog' = Tail(klog) /\ taken' = Append(taken, Head(klog))
          /\ pc' = "meta" /\ UNCHANGED <<log_data, ret>>
       \/ klog # << >> /\ NextErrs # {}
          /\ Return("SUCCESS", TRUE) /\ UNCHANGED <<klog, taken>>
    /\ UNCHANGED <<logging, recorded, meta, log0>>

DrainStep ==
    \/ Record
    \/ BeginWrapperLogging \/ EndWrapperLogging \/ ClearWrapperLog
    \/ GetWrapperLog \/ GetLogMeta \/ GetLogData \/ NextEnt

Next == DrainStep /\ UNCHANGED ioctl_fd

Spec == Init /\ [][Next]_vars

-----------------------------------------------------------------------------
(***************************************************************************)
(* A drain that get_wrapper_log reports as successful lost nothing and     *)
(* invented nothing: log_data is what it held before, followed by exactly  *)
(* the entries the drain removed from the wrapper's log with NEXT_ENT,     *)
(* each with its own meta and payload, in the order the wrapper recorded   *)
(* them, even with bios arriving while it drains and with ioctls failing   *)
(* (spec 4.5 and 7: a drain error discards the partial log and is          *)
(* reported).                                                              *)
(***************************************************************************)
DrainKeepsEveryEntry ==
    pc = "idle" /\ ret = "SUCCESS" =>
        log_data = log0 \o [k \in DOMAIN taken |-> <<taken[k], taken[k]>>]
=============================================================================
