---------------------------- MODULE RandomPermuter ----------------------------
(***************************************************************************)
(* RandomPermuter::gen_one_state and RandomPermuter::permute_epoch         *)
(* (src/code/permuter/RandomPermuter.cpp), one step per loop iteration.   *)
(*                                                                         *)
(* The draws of the seeded mt19937 are nondeterministic choices: with a    *)
(* fixed seed the program takes one of these behaviours, and which one     *)
(* depends on the log, so every draw is explored.                          *)
(*                                                                         *)
(* res is the caller's output vector (Tester's `permutes`), reused from    *)
(* one call to the next: gen_one_state resizes it and then overwrites it   *)
(* slot by slot, so a slot it fails to write keeps its old content.  An    *)
(* epoch_op is the index of its op in the log; DefaultOp is the value a    *)
(* slot gets when resize grows the vector.                                 *)
(***************************************************************************)
EXTENDS Epochs

CONSTANT Logs            \* the recorded logs the harness may hand over

ASSUME \A l \in Logs : Len(l) > 0

DefaultOp == 0

VARIABLES
    log,            \* the recorded log; GetEpochs() is BuildEpochs(log)
    pc,             \* "idle" | "epoch" (outer loop) | "pick" (permute_epoch loop)
    num_epochs,     \* the epochs included, the last one partially
    num_requests,   \* ops taken from the last included epoch
    i,              \* outer loop index, 1-based
    res,            \* the output vector
    cur,            \* curr_iter / res_start, 1-based position in res
    res_end,        \* res_end of the current permute_epoch call
    empty_slots,    \* permute_epoch's list of unplaced op positions
    crash_state     \* the last crash state handed back to the caller

vars == <<log, pc, num_epochs, num_requests, i, res, cur, res_end,
          empty_slots, crash_state>>

Ep == BuildEpochs(log)

\* std::vector::resize: truncate, or grow with default-constructed elements.
Resize(v, n) ==
    [k \in 1..n |-> IF k <= Len(v) THEN v[k] ELSE DefaultOp]

Init ==
    /\ log \in Logs
    /\ pc = "idle"
    /\ num_epochs = 0
    /\ num_requests = 0
    /\ i = 0
    /\ res = << >>
    /\ cur = 0
    /\ res_end = 0
    /\ empty_slots = << >>
    /\ crash_state = << >>

(***************************************************************************)
(* Draw the number of epochs and of requests in the last one, size the     *)
(* output vector and start the outer loop.                                 *)
(***************************************************************************)
GenOneState ==
    /\ pc = "idle"
    /\ \E ne \in 1..Len(Ep) :
         \E nr \in 1..Len(Ep[ne].ops) :
            LET total == nr + SumFunction([j \in 1..(ne - 1) |-> Len(Ep[j].ops)])
            IN  /\ num_epochs' = ne
                /\ num_requests' = nr
                /\ res' = Resize(res, total)
    /\ i' = 1
    /\ cur' = 1
    /\ pc' = "epoch"
    /\ UNCHANGED <<log, res_end, empty_slots, crash_state>>

\* Mutant: the write position moves one slot too far after a copied epoch.
CopyEpochSkipsSlot ==
    /\ pc = "epoch"
    /\ i <= num_epochs
    /\ ~Ep[i].overlaps /\ i # num_epochs
    /\ LET ops == Ep[i].ops
       IN  /\ res' = [k \in DOMAIN res |->
                        IF k >= cur /\ k < cur + Len(ops) THEN ops[k - cur + 1] ELSE res[k]]
           /\ cur' = cur + Len(ops) + 1
    /\ i' = i + 1
    /\ UNCHANGED <<log, pc, num_epochs, num_requests, res_end, empty_slots, crash_state>>

\* A complete epoch without overlaps is copied in its original order.
CopyEpoch ==
    /\ pc = "epoch"
    /\ i <= num_epochs
    /\ ~Ep[i].overlaps /\ i # num_epochs
    /\ LET ops == Ep[i].ops
       IN  /\ res' = [k \in DOMAIN res |->
                        IF k >= cur /\ k < cur + Len(ops) THEN ops[k - cur + 1] ELSE res[k]]
           /\ cur' = cur + Len(ops)
    /\ i' = i + 1
    /\ UNCHANGED <<log, pc, num_epochs, num_requests, res_end, empty_slots, crash_state>>

\* Mutant: the barrier's position is left among the empty slots.
BeginPermuteEpochKeepBarrierSlot ==
    /\ pc = "epoch"
    /\ i <= num_epochs
    /\ Ep[i].overlaps \/ i = num_epochs
    /\ LET size == IF i # num_epochs THEN Len(Ep[i].ops) ELSE num_requests
       IN  /\ res_end' = cur + size
           /\ empty_slots' = [k \in 1..Len(Ep[i].ops) |-> k]
    /\ pc' = "pick"
    /\ UNCHANGED <<log, num_epochs, num_requests, i, res, cur, crash_state>>

(***************************************************************************)
(* An overlapping epoch, or the last one, goes to permute_epoch: every     *)
(* position but the barrier's is an empty slot.                            *)
(***************************************************************************)
BeginPermuteEpoch ==
    /\ pc = "epoch"
    /\ i <= num_epochs
    /\ Ep[i].overlaps \/ i = num_epochs
    /\ LET size  == IF i # num_epochs THEN Len(Ep[i].ops) ELSE num_requests
           slots == IF Ep[i].has_barrier THEN Len(Ep[i].ops) - 1 ELSE Len(Ep[i].ops)
       IN  /\ res_end' = cur + size
           /\ empty_slots' = [k \in 1..slots |-> k]
    /\ pc' = "pick"
    /\ UNCHANGED <<log, num_epochs, num_requests, i, res, cur, crash_state>>

\* One iteration of the slot-picking loop: place a uniformly drawn free op.
PickSlot ==
    /\ pc = "pick"
    /\ cur # res_end /\ empty_slots # << >>
    /\ \E k \in 1..Len(empty_slots) :
         /\ res' = [res EXCEPT ![cur] = Ep[i].ops[empty_slots[k]]]
         /\ empty_slots' = RemoveAt(empty_slots, k)
    /\ cur' = cur + 1
    /\ UNCHANGED <<log, pc, num_epochs, num_requests, i, res_end, crash_state>>

\* The loop placed as many ops as asked: return (a partial epoch).
ReturnPlaced ==
    /\ pc = "pick"
    /\ cur = res_end
    /\ i' = i + 1
    /\ pc' = "epoch"
    /\ UNCHANGED <<log, num_epochs, num_requests, res, cur, res_end, empty_slots, crash_state>>

\* All other ops are placed and one slot is left: the epoch's last op, its barrier.
PlaceBarrier ==
    /\ pc = "pick"
    /\ cur # res_end /\ empty_slots = << >>
    /\ res' = [res EXCEPT ![cur] = Last(Ep[i].ops)]
    /\ cur' = res_end
    /\ i' = i + 1
    /\ pc' = "epoch"
    /\ UNCHANGED <<log, num_epochs, num_requests, res_end, empty_slots, crash_state>>

\* The outer loop is done: the vector is the new crash state.
Finish ==
    /\ pc = "epoch"
    /\ i > num_epochs
    /\ crash_state' = res
    /\ pc' = "idle"
    /\ UNCHANGED <<log, num_epochs, num_requests, i, res, cur, res_end, empty_slots>>

Next ==
    \/ GenOneState
    \/ CopyEpoch
    \/ BeginPermuteEpoch
    \/ PickSlot
    \/ ReturnPlaced
    \/ PlaceBarrier
    \/ Finish

Spec == Init /\ [][Next]_vars

-----------------------------------------------------------------------------
TypeOK ==
    /\ log \in Logs
    /\ pc \in {"idle", "epoch", "pick"}
    /\ num_epochs \in 0..Len(log)
    /\ num_requests \in 0..Len(log)
    /\ i \in 0..(Len(log) + 1)
    /\ res \in Seq(0..Len(log))
    /\ cur \in 0..(Len(log) + 1)
    /\ res_end \in 0..(Len(log) + 1)
    /\ empty_slots \in Seq(1..Len(log))
    /\ crash_state \in Seq(0..Len(log))

\* The refinement mapping: the abstract log is the permuter's log, and the
\* abstract emitted state is the last crash state gen_one_state returned.
Abstract == INSTANCE CrashStates WITH Logs <- Logs, log <- log, emitted <- crash_state

(***************************************************************************)
(* Refinement: every crash state gen_one_state hands back is a legal       *)
(* crash state of the log (spec 8, invariant 4), with no slot of the       *)
(* reused output vector left over from an earlier call.                    *)
(***************************************************************************)
RefinesCrashStates == Abstract!Spec
=============================================================================
