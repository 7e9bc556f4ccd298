--------------------------- MODULE MCRandomPermuter ---------------------------
(***************************************************************************)
(* RandomPermuter over every log of up to MaxLogLen ops drawn from a few   *)
(* kinds of bio: plain writes of one or two sectors (two of which          *)
(* overlap), a FUA write (a write that is also a barrier) and a pure       *)
(* FLUSH (a barrier without the write flag).                               *)
(***************************************************************************)
EXTENDS RandomPermuter

MaxLogLen == 3

W0   == [write |-> TRUE,  barrier |-> FALSE, sector |-> 0, size |-> 1]
W01  == [write |-> TRUE,  barrier |-> FALSE, sector |-> 0, size |-> 2]
W1   == [write |-> TRUE,  barrier |-> FALSE, sector |-> 1, size |-> 1]
FUA1 == [write |-> TRUE,  barrier |-> TRUE,  sector |-> 1, size |-> 1]
FL   == [write |-> FALSE, barrier |-> TRUE,  sector |-> 0, size |-> 1]

OpKinds == {W0, W01, W1, FUA1, FL}

MCLogs == UNION { [1..n -> OpKinds] : n \in 1..MaxLogLen }

\* Spec scenario S4: a single epoch of writes that neither overlap nor end in a barrier.
W2   == [write |-> TRUE,  barrier |-> FALSE, sector |-> 2, size |-> 1]

S4Logs == { << W0, W1, W2 >> }

(***************************************************************************)
(* Spec S4: reordering such an epoch is observationally equivalent, so the *)
(* permuter emits at most Len(log) distinct crash states, the prefixes of  *)
(* the log.  Checked against what gen_one_state does with the last         *)
(* (partial) epoch.                                                        *)
(***************************************************************************)
S4CrashStatesArePrefixes == crash_state \in Prefixes([k \in 1..Len(log) |-> k])
=============================================================================
