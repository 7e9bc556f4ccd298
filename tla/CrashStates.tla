----------------------------- MODULE CrashStates -----------------------------
(***************************************************************************)
(* What a permuter promises (spec 3 "CrashState" and 8, invariant 4): each *)
(* crash state it hands out is a prefix of a legal reordering of the log:  *)
(* zero or more complete epochs in their original order, each in any      *)
(* order but with its barrier last, followed by some of the non-barrier    *)
(* ops of the next epoch in any order.                                     *)
(***************************************************************************)
EXTENDS Epochs

CONSTANT Logs            \* the recorded logs the permuter may be given

VARIABLES log, emitted      \* the log, and the last crash state handed out

\* All orderings of a complete epoch that keep its barrier (if any) last.
CompleteOrders(l, ep) ==
    { s \in SetToSeqs(Range(ep.ops)) :
        ep.has_barrier => Last(s) = Last(ep.ops) }

\* Some non-barrier ops of an epoch, in any order.
PartialOrders(l, ep) ==
    UNION { SetToSeqs(T) :
            T \in SUBSET { i \in Range(ep.ops) : ~IsBarrier(l[i]) } }

LegalCrashStates(l) ==
    LET E == BuildEpochs(l)
        Heads(k) == { f \in [1..k -> UNION { CompleteOrders(l, E[j]) : j \in 1..k }] :
                        \A j \in 1..k : f[j] \in CompleteOrders(l, E[j]) }
        Tails(k) == IF k = Len(E) THEN { << >> } ELSE PartialOrders(l, E[k + 1])
    IN  UNION { { FlattenSeq(h) \o t : h \in Heads(k), t \in Tails(k) } : k \in 0..Len(E) }

Init ==
    /\ log \in Logs
    /\ emitted = << >>

Generate ==
    /\ emitted' \in LegalCrashStates(log)
    /\ UNCHANGED log

Spec == Init /\ [][Generate]_<<log, emitted>>
=============================================================================
