---------------------------- MODULE SampleSource ----------------------------
(***************************************************************************)
(* What the thread that takes samples out of a Sampler can rely on         *)
(* (GetNextTimestep, GetNextTrajectory, PopNextSample, RunWorker and Close *)
(* in reverb/cc/sampler.cc): samples one by one, none of them twice and    *)
(* not more than MaxSamples.  The source ends with the last sample, with   *)
(* the first error of a worker, or late in Close.  From then on nothing    *)
(* new is begun: a sample that was begun is given out to its end, and      *)
(* every other call gets the one answer that the state determines.         *)
(*                                                                         *)
(* This is less than the comment on Close promises (sampler.h:295, "Any    *)
(* blocking or future call ... will return CancelledError"): the rest of a *)
(* sample that was begun still comes after Close, a sample can be begun    *)
(* until Close has cancelled every worker, and OutOfRange goes first.      *)
(***************************************************************************)
EXTENDS Naturals, Sequences

CONSTANTS MaxSamples, Samples, None

VARIABLES
    delivered,  \* the samples that were handed over
    begun,      \* a sample is being given out
    result,     \* the answer of the last call
    ended,      \* no further sample is begun
    closed,     \* Close was called
    error       \* the first error of a worker

vars == <<delivered, begun, result, ended, closed, error>>

Init ==
    /\ delivered = << >> /\ begun = FALSE /\ result = None
    /\ ended = FALSE /\ closed = FALSE /\ error = "ok"

Call == result' = None /\ UNCHANGED <<delivered, begun, ended, closed, error>>

Begin ==
    /\ ~ended /\ ~begun /\ begun' = TRUE
    /\ UNCHANGED <<delivered, result, ended, closed, error>>

\* The source ends with the last sample.
EndsWithLast == ended' = (ended \/ Len(delivered') = MaxSamples)

\* A sample is handed over, as a whole when it is begun (GetNextTrajectory), or
\* with its last timestep.
Deliver ==
    /\ Len(delivered) < MaxSamples
    /\ \E s \in Samples : /\ \A i \in DOMAIN delivered : delivered[i] # s
                          /\ delivered' = Append(delivered, s)
    /\ \/ /\ ~ended /\ ~begun /\ begun' = TRUE
          /\ UNCHANGED <<result, ended>>
       \/ /\ begun /\ begun' = FALSE
          /\ result' = "ok" /\ EndsWithLast
    /\ UNCHANGED <<closed, error>>

\* A call returns a timestep or a sample, or "invalid" for one that does not
\* match the signature.  Without a sample that was begun before, that takes one
\* more out of the source.
Answer ==
    /\ \/ begun /\ begun' \in BOOLEAN /\ result' \in {"ok", "invalid"}
       \/ ~begun /\ ~ended /\ begun' = FALSE /\ result' = "invalid"
    /\ EndsWithLast
    /\ UNCHANGED <<delivered, closed, error>>

\* A call finds the source ended.
Refuse ==
    /\ ended /\ ~begun
    /\ \/ Len(delivered) = MaxSamples /\ result' = "out_of_range"
       \/ Len(delivered) < MaxSamples /\ closed /\ result' = "cancelled"
       \/ /\ Len(delivered) < MaxSamples /\ ~closed
          /\ error # "ok" /\ result' = error
    /\ UNCHANGED <<delivered, begun, ended, closed, error>>

Close == closed' = TRUE /\ UNCHANGED <<delivered, begun, result, ended, error>>

\* Close has cancelled the workers.
End ==
    /\ closed /\ ended' = TRUE
    /\ UNCHANGED <<delivered, begun, result, closed, error>>

Fail ==
    /\ error = "ok" /\ error' \in {"timeout", "internal"} /\ ended' = TRUE
    /\ UNCHANGED <<delivered, begun, result, closed>>

Next == Call \/ Begin \/ Deliver \/ Answer \/ Refuse \/ Close \/ End \/ Fail

Spec == Init /\ [][Next]_vars
=============================================================================
