---------------------------- MODULE SnapshotImage ----------------------------
(***************************************************************************)
(* Saving and restoring a raw image of the test device                     *)
(* (Tester::clone_device, log_snapshot_save, log_snapshot_load in          *)
(* src/code/harness/Tester.cpp).                                           *)
(*                                                                         *)
(* The device /dev/cow_ram0 is DeviceSize bytes, each holding a value of   *)
(* Data; snapshot is what the cow_brd snapshot holds.  read(2) and         *)
(* write(2) may transfer fewer bytes than asked; with Faults they, open(2) *)
(* and the ioctls may also fail.  bytes_written is an unsigned int to      *)
(* which write's result, possibly -1, is added: it is kept modulo 2^Bits.  *)
(***************************************************************************)
EXTENDS Integers

CONSTANTS
    DeviceSize,     \* device_size, in bytes
    Data,           \* the values a byte may hold
    Faults,         \* whether system calls may fail
    Bits            \* width of unsigned int (32 in the build)

ASSUME DeviceSize < 2^Bits - 1

Bytes == 1..DeviceSize
Garbage == "garbage"            \* an uninitialized byte of device_clone
Truncated == << >>              \* an image file short of device_size (its write failed)
NoSnapshot == << >>             \* no snapshot content (after COW_BRD_WIPE)

\* The outcomes of a call that succeeds unless it faults.
Ok == IF Faults THEN BOOLEAN ELSE {TRUE}

VARIABLES
    device,         \* content of /dev/cow_ram0
    snapshot,       \* content the cow_brd snapshot holds
    file,           \* the image file
    pc,             \* "idle" or the loop a save / load is in
    buf,            \* device_clone
    off,            \* bytes_read / bytes_written
    fd_ok,          \* device_fd >= 0 in log_snapshot_load
    pos,            \* device_fd's file offset
    \* history
    op, ret,        \* the last function called and what it returned
    faulted         \* a system call of that function failed

vars == <<device, snapshot, file, pc, buf, off, fd_ok, pos, op, ret, faulted>>

Init ==
    /\ device \in [Bytes -> Data]
    /\ snapshot = NoSnapshot
    /\ file = Truncated
    /\ pc = "idle" /\ buf = [b \in Bytes |-> Garbage] /\ off = 0 /\ fd_ok = TRUE /\ pos = 0
    /\ op = "none" /\ ret = "SUCCESS" /\ faulted = FALSE

\* The test writes the device (setup, run, or a restored crash state).
Scribble ==
    /\ pc = "idle"
    /\ device' \in [Bytes -> Data]
    /\ op' = "none"
    /\ UNCHANGED <<snapshot, file, pc, buf, off, fd_ok, pos, ret, faulted>>

\* clone_device: COW_BRD_SNAPSHOT.
CloneDevice ==
    /\ pc = "idle"
    /\ \E ok \in Ok :
         /\ snapshot' = IF ok THEN device ELSE snapshot
         /\ ret' = IF ok THEN "SUCCESS" ELSE "DRIVE_CLONE_ERR"
    /\ op' = "clone"
    /\ UNCHANGED <<device, file, pc, buf, off, fd_ok, pos, faulted>>

\* b with its bytes from+1 .. from+n taken from src's bytes at+1 .. at+n.
CopyIn(b, from, n, src, at) ==
    [k \in Bytes |-> IF k > from /\ k <= from + n THEN src[at + k - from] ELSE b[k]]

\* log_snapshot_save: read the device into device_clone (on the stack,
\* uninitialized) until device_size bytes are in or read fails.
LogSnapshotSave ==
    /\ pc = "idle"
    /\ pc' = "save_read" /\ off' = 0 /\ buf' = [b \in Bytes |-> Garbage]
    /\ op' = "save" /\ faulted' = FALSE
    /\ UNCHANGED <<device, snapshot, file, fd_ok, pos, ret>>

\* One read(2) of the rest of the device into device_clone + to; an error
\* breaks out of the loop.
ReadChunk(to) ==
    /\ pc = "save_read"
    /\ \/ \E n \in 1..(DeviceSize - off) :
            /\ buf' = CopyIn(buf, to, n, device, off)
            /\ off' = off + n
            /\ pc' = IF off + n < DeviceSize THEN "save_read" ELSE "save_write"
            /\ UNCHANGED faulted
       \/ Faults /\ pc' = "save_write" /\ faulted' = TRUE /\ UNCHANGED <<buf, off>>
    /\ UNCHANGED <<device, snapshot, file, fd_ok, pos, op, ret>>

\* Mutant: every chunk is read to the start of device_clone.
SaveReadNoOffset == ReadChunk(0)

SaveRead == ReadChunk(off)

\* Write all device_size bytes of device_clone to the file; only the
\* stream's failure is an error.
SaveWrite ==
    /\ pc = "save_write"
    /\ \E ok \in Ok :
         /\ file' = IF ok THEN buf ELSE Truncated
         /\ ret' = IF ok THEN "SUCCESS" ELSE "LOG_CLONE_ERR"
         /\ faulted' = (faulted \/ ~ok)
    /\ pc' = "idle"
    /\ UNCHANGED <<device, snapshot, buf, off, fd_ok, pos, op>>

(***************************************************************************)
(* log_snapshot_load: COW_BRD_WIPE (a failure is only printed), read the  *)
(* image (a short file is an error), open /dev/cow_ram0 and seek to 0      *)
(* (neither checked but for a message), then the write loop.               *)
(***************************************************************************)
LogSnapshotLoad ==
    /\ pc = "idle"
    /\ op' = "load"
    /\ \E wiped \in Ok, opened \in Ok :
         /\ snapshot' = IF wiped THEN NoSnapshot ELSE snapshot
         /\ IF file = Truncated
            THEN /\ ret' = "LOG_CLONE_ERR" /\ faulted' = ~wiped
                 /\ UNCHANGED <<pc, buf, off, fd_ok, pos>>
            ELSE /\ buf' = file /\ fd_ok' = opened /\ faulted' = ~(wiped /\ opened)
                 /\ off' = 0 /\ pos' = 0
                 /\ pc' = "load_write"
                 /\ UNCHANGED ret
    /\ UNCHANGED <<device, file>>

\* Mutant: bytes_written taken as a signed int.
UAddSigned(u, n) == u + n

\* Unsigned addition of a (possibly negative) int, as `bytes_written += res`.
UAdd(u, n) == (u + n + 2^Bits) % 2^Bits

(***************************************************************************)
(* One write(2) of device_clone + from at the fd's offset; its result is   *)
(* added to bytes_written whatever it is, and the loop runs while that is  *)
(* short.  A failed write (EBADF on an fd that did not open, ENOSPC at the *)
(* end of the device, EIO) adds back to bytes_written and leaves the      *)
(* offset alone.                                                           *)
(***************************************************************************)
WriteChunk(from, back) ==
    /\ pc = "load_write"
    /\ \/ /\ fd_ok /\ pos < DeviceSize
          /\ \E n \in 1..(IF off > pos THEN DeviceSize - off ELSE DeviceSize - pos) :
               /\ device' = CopyIn(device, pos, n, buf, from)
               /\ off' = off + n /\ pos' = pos + n
          /\ UNCHANGED faulted
       \/ /\ ~fd_ok \/ pos = DeviceSize \/ Faults
          /\ off' = UAdd(off, back)
          /\ faulted' = TRUE
          /\ UNCHANGED <<device, pos>>
    /\ pc' = IF off' < DeviceSize THEN "load_write" ELSE "load_done"
    /\ UNCHANGED <<snapshot, file, buf, fd_ok, op, ret>>

\* Mutant: every write starts from the beginning of device_clone.
LoadWriteNoOffset == WriteChunk(0, -1)

\* Mutant: a failed write adds nothing to bytes_written.
LoadWriteFailureAddsZero == WriteChunk(off, 0)

LoadWrite == WriteChunk(off, -1)

\* fsync, close, COW_BRD_SNAPSHOT (a failure is only printed), SUCCESS.
LoadDone ==
    /\ pc = "load_done"
    /\ \E ok \in Ok :
         /\ snapshot' = IF ok THEN device ELSE snapshot
         /\ faulted' = (faulted \/ ~ok)
    /\ pc' = "idle" /\ ret' = "SUCCESS"
    /\ UNCHANGED <<device, file, buf, off, fd_ok, pos, op>>

Next ==
    \/ Scribble \/ CloneDevice
    \/ LogSnapshotSave \/ SaveRead \/ SaveWrite
    \/ LogSnapshotLoad \/ LoadWrite \/ LoadDone

\* The harness is one thread and each system call returns: its loops go on.
Spec ==
    /\ Init /\ [][Next]_vars
    /\ WF_vars(SaveRead) /\ WF_vars(SaveWrite) /\ WF_vars(LoadWrite) /\ WF_vars(LoadDone)

-----------------------------------------------------------------------------
TypeOK ==
    /\ device \in [Bytes -> Data \cup {Garbage}]
    /\ snapshot \in [Bytes -> Data \cup {Garbage}] \cup {NoSnapshot}
    /\ file \in [Bytes -> Data \cup {Garbage}] \cup {Truncated}
    /\ pc \in {"idle", "save_read", "save_write", "load_write", "load_done"}
    /\ buf \in [Bytes -> Data \cup {Garbage}]
    /\ off \in 0..(2^Bits - 1) /\ pos \in 0..DeviceSize /\ fd_ok \in BOOLEAN
    /\ op \in {"none", "clone", "save", "load"}
    /\ ret \in {"SUCCESS", "DRIVE_CLONE_ERR", "LOG_CLONE_ERR"}
    /\ faulted \in BOOLEAN

(***************************************************************************)
(* A log_snapshot_save in which no call failed leaves the image file       *)
(* holding the device's content byte for byte, however read(2) split the  *)
(* transfer.                                                               *)
(***************************************************************************)
SavedImageIsDevice ==
    pc = "idle" /\ op = "save" /\ ~faulted => file = device

(***************************************************************************)
(* A log_snapshot_load in which no call failed leaves the device holding   *)
(* the image and the new cow_brd snapshot taken of it, however write(2)    *)
(* split the transfer.                                                     *)
(***************************************************************************)
FaultFreeLoadIsDevice ==
    pc = "idle" /\ op = "load" /\ ret = "SUCCESS" /\ ~faulted =>
        device = file /\ snapshot = device

(***************************************************************************)
(* log_snapshot_load returns SUCCESS only when the device holds the image  *)
(* and the new cow_brd snapshot was taken of it, so that a restore brings  *)
(* the image back (spec 4.5 "restoring a raw image"; spec 7: I/O failures  *)
(* surface).                                                               *)
(***************************************************************************)
LoadedImageIsDevice ==
    pc = "idle" /\ op = "load" /\ ret = "SUCCESS" => device = file /\ snapshot = device

(***************************************************************************)
(* log_snapshot_load always returns, even when every write fails: its loop *)
(* ends once bytes_written reaches device_size, and a failed write, which  *)
(* moves it back by one, takes it from 0 round to UINT_MAX.                *)
(***************************************************************************)
LoadTerminates == pc = "load_write" ~> pc = "idle"
=============================================================================
