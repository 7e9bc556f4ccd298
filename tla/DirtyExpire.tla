----------------------------- MODULE DirtyExpire -----------------------------
(***************************************************************************)
(* The harness's handling of /proc/sys/vm/dirty_expire_centisecs           *)
(* (Tester::update_dirty_expire_time and its read and write loops), and    *)
(* the scope the spec puts around a run: set the knob on entry, restore    *)
(* the prior value on exit (spec sections 5 and 8).  The driver that opens *)
(* and closes the scope is not in src/: it restores with the value         *)
(* update_dirty_expire_time returned, the only prior value the harness     *)
(* hands out, which is a pointer to its own dirty_expire_time buffer.      *)
(*                                                                         *)
(* The sysctl file: a read at offset 0 returns the value's text, a read    *)
(* past it returns 0, and a write of a whole value sets the knob.  With    *)
(* Strict (sysctl_writes_strict = 1, the default since Linux 4.5) a write  *)
(* at a non-zero offset is ignored and returns 0.  With Faults the open,   *)
(* a read or a write may fail.                                             *)
(***************************************************************************)
EXTENDS Naturals

CONSTANTS
    Values,     \* settings of the knob
    Initial,    \* the knob's setting when the harness starts
    New,        \* the setting the harness asks for
    Strict,     \* sysctl_writes_strict = 1
    Faults      \* open, read and write may fail

ASSUME Initial \in Values /\ New \in Values /\ Initial # New

VARIABLES
    knob,       \* the kernel's dirty_expire_centisecs
    buf,        \* the member char dirty_expire_time[]: "none" or a setting read
    fd,         \* expire_fd is open
    off,        \* its file offset is past the start
    pc,         \* "idle" | "read" (read loop) | "write" | "undo" (write loops)
    arg,        \* update's time argument: a setting, or "buf" for the member
    ret,        \* update's result: "buf" (the member) or "null"
    phase,      \* the driver's scope: "out" | "in" | "restoring" | "done"
    prior       \* history: the knob's setting when the scope was entered

vars == <<knob, buf, fd, off, pc, arg, ret, phase, prior>>

Outcomes(cond) == IF Faults THEN {FALSE, cond} ELSE {cond}

\* What a char* argument points to when it is read.
Text(a) == IF a = "buf" THEN buf ELSE a

Init ==
    /\ knob = Initial /\ buf = "none" /\ fd = FALSE /\ off = FALSE
    /\ pc = "idle" /\ arg = New /\ ret = "null"
    /\ phase = "out" /\ prior = Initial

-----------------------------------------------------------------------------
\* update_dirty_expire_time(t) is called: it opens the sysctl file O_RDWR.
UpdateDirtyExpireTime(t) ==
    /\ pc = "idle"
    /\ \E ok \in Outcomes(TRUE) : fd' = ok
    /\ off' = FALSE /\ arg' = t /\ pc' = "read"
    /\ UNCHANGED <<knob, buf, ret>>

(***************************************************************************)
(* One iteration of read_dirty_expire_time: the text is read into the      *)
(* member buffer; a read of 0 ends the loop and update goes on to write;   *)
(* a failed read makes update close the fd and return NULL.                *)
(***************************************************************************)
ReadDirtyExpireTime ==
    /\ pc = "read"
    /\ \E r \in IF ~fd THEN {"err"} ELSE IF Faults THEN {"err", "data"} ELSE {"data"} :
         CASE r = "err" -> pc' = "idle" /\ ret' = "null" /\ UNCHANGED <<buf, off>>
           [] ~off      -> buf' = knob /\ off' = TRUE /\ UNCHANGED <<pc, ret>>
           [] OTHER     -> pc' = "write" /\ UNCHANGED <<buf, off, ret>>
    /\ UNCHANGED <<knob, fd, arg, phase, prior>>

(***************************************************************************)
(* update after write_dirty_expire_time returned ok: on success close and  *)
(* return the member buffer; on a failure write the buffer back (whatever  *)
(* that returns) and return NULL.                                          *)
(***************************************************************************)
WriteDone(ok) ==
    CASE pc = "write" /\ ok  -> pc' = "idle" /\ ret' = "buf"
      [] pc = "write" /\ ~ok -> pc' = "undo" /\ UNCHANGED ret
      [] OTHER               -> pc' = "idle" /\ ret' = "null"

(***************************************************************************)
(* One iteration of write_dirty_expire_time (of time, or of the member     *)
(* buffer when undoing): a write of the whole text sets the knob; a write  *)
(* the kernel ignores returns 0 and the loop tries again; a failed write   *)
(* returns false.                                                          *)
(***************************************************************************)
WriteDirtyExpireTime ==
    /\ pc \in {"write", "undo"}
    /\ LET t == IF pc = "write" THEN Text(arg) ELSE buf
       IN  \E r \in (IF Faults THEN {"err"} ELSE {})
                    \cup {IF Strict /\ off THEN "zero" ELSE "all"} :
             CASE r = "all"  -> knob' = t /\ off' = TRUE /\ WriteDone(TRUE)
               [] r = "err"  -> UNCHANGED <<knob, off>> /\ WriteDone(FALSE)
               [] OTHER      -> UNCHANGED <<knob, off, pc, ret>>
    /\ UNCHANGED <<buf, fd, arg, phase, prior>>

-----------------------------------------------------------------------------
\* The driver enters the scope: update_dirty_expire_time(New).
EnterScope ==
    /\ phase = "out"
    /\ UpdateDirtyExpireTime(New)
    /\ phase' = "in" /\ prior' = knob

\* It leaves the scope: it restores with the pointer update returned, if any.
LeaveScope ==
    /\ phase = "in" /\ pc = "idle"
    /\ IF ret = "buf"
       THEN UpdateDirtyExpireTime("buf") /\ phase' = "restoring"
       ELSE phase' = "done" /\ UNCHANGED <<knob, buf, fd, off, pc, arg>>
    /\ UNCHANGED <<ret, prior>>

ScopeDone ==
    /\ phase = "restoring" /\ pc = "idle"
    /\ phase' = "done"
    /\ UNCHANGED <<knob, buf, fd, off, pc, arg, ret, prior>>

Next ==
    \/ EnterScope \/ LeaveScope \/ ScopeDone
    \/ ReadDirtyExpireTime \/ WriteDirtyExpireTime

\* The harness is one thread, and it runs to its end.
Spec == Init /\ [][Next]_vars /\ WF_vars(Next)

-----------------------------------------------------------------------------
TypeOK ==
    /\ knob \in Values /\ buf \in Values \cup {"none"} /\ prior \in Values
    /\ fd \in BOOLEAN /\ off \in BOOLEAN
    /\ pc \in {"idle", "read", "write", "undo"}
    /\ arg \in Values \cup {"buf"} /\ ret \in {"buf", "null"}
    /\ phase \in {"out", "in", "restoring", "done"}

(***************************************************************************)
(* Spec sections 5 and 8: dirty_expire_centisecs is a scoped acquisition;  *)
(* once the harness has entered the scope it leaves it, with the knob      *)
(* back at the value it read on entry, on every path (error paths of       *)
(* update_dirty_expire_time included).                                     *)
(***************************************************************************)
KnobRestoredOnExit == phase = "in" ~> (phase = "done" /\ knob = prior)
=============================================================================
