------------------------------- MODULE Epochs -------------------------------
(***************************************************************************)
(* The recorded-I/O model and the epoch builder.                           *)
(*                                                                         *)
(* A log is a sequence of recorded bios (disk_write).  Only the attributes *)
(* the permuter and the replay look at are kept: the write flag            *)
(* (has_write_flag()), the barrier flag (is_barrier(): FLUSH, FUA or an    *)
(* explicit barrier) and the sector range [sector, sector + size) written, *)
(* with size counted in sectors.  The payload is abstracted away: two ops  *)
(* are told apart by their index in the log.                               *)
(*                                                                         *)
(* The builder (Permuter::InitDataVector) is not part of this repository's *)
(* sources; it is modelled from the spec, section 4.1.                     *)
(***************************************************************************)
EXTENDS Integers, Sequences, SequencesExt

\* The set of records a recorded bio can be, over a set of sectors and sizes.
DiskWrites(Sectors, Sizes) ==
    [write : BOOLEAN, barrier : BOOLEAN, sector : Sectors, size : Sizes]

HasWriteFlag(op) == op.write

IsBarrier(op) == op.barrier

(***************************************************************************)
(* overlaps of an epoch: the write ranges are sorted by first sector and   *)
(* each range is compared with the next one (spec 4.1).                    *)
(***************************************************************************)
EpochOverlaps(log, ops) ==
    LET writes == SelectSeq(ops, LAMBDA i : HasWriteFlag(log[i]))
        sorted == SortSeq(writes, LAMBDA a, b : log[a].sector <= log[b].sector)
    IN  \E k \in 1..(Len(sorted) - 1) :
            log[sorted[k + 1]].sector < log[sorted[k]].sector + log[sorted[k]].size

\* An epoch over the log indices from..to.
MakeEpoch(log, from, to) ==
    LET ops == [k \in 1..(to - from + 1) |-> from + k - 1]
    IN  [ops         |-> ops,
         has_barrier |-> IsBarrier(log[to]),
         overlaps    |-> EpochOverlaps(log, ops)]

(***************************************************************************)
(* Scan the log left to right; an op with a barrier closes the current     *)
(* epoch, the barrier being its last op.  A trailing run of ops without a  *)
(* barrier forms the last epoch, and no empty epoch is produced.           *)
(***************************************************************************)
RECURSIVE EpochsFrom(_, _)
EpochsFrom(log, from) ==
    IF from > Len(log) THEN << >>
    ELSE LET b  == SelectInSubSeq(log, from, Len(log), IsBarrier)
             to == IF b = 0 THEN Len(log) ELSE b
         IN  << MakeEpoch(log, from, to) >> \o EpochsFrom(log, to + 1)

BuildEpochs(log) == EpochsFrom(log, 1)

=============================================================================
