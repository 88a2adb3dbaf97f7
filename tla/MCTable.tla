------------------------------ MODULE MCTable -------------------------------
(***************************************************************************)
(* Instances of Table for TLC.                                             *)
(***************************************************************************)
EXTENDS TableProperties, TLC

CONSTANTS k1, k2, e1, e2, p, bad, s1

\* Every item has a chunk of episode e1; k1 has two of them, k2 one of e2 too.
MCChunkCount ==
    [k \in Keys |-> [e \in Episodes |->
        CASE k = k1 /\ e = e1 -> 2
          [] k = k2 /\ e = e2 -> 1
          [] k # k1 /\ e = e1 -> 1
          [] OTHER -> 0]]

MCBatchSize == [s \in SampleRequests |-> IF s = s1 THEN 2 ELSE 1]

Delete(k) == [type |-> "delete", key |-> k, priority |-> p]
Update(k, q) == [type |-> "update", key |-> k, priority |-> q]
Mutate(edits) == [op |-> "mutate", edits |-> edits]
ResetCall == [op |-> "reset", edits |-> << >>]
CloseCall == [op |-> "close", edits |-> << >>]
DestroyCall == [op |-> "destroy", edits |-> << >>]

\* Insert requests differ only in their items, clients only in their calls.
ThreadSymmetry == Permutations(InsertRequests) \cup Permutations(Clients)

MutateCalls == {Mutate(<<Delete(k1), Delete(k2)>>),
                Mutate(<<Delete(k1), Update(k2, p)>>)}
MutateOrResetCalls == {Mutate(<<Delete(k1), Delete(k2)>>), ResetCall}
EditCalls == {Mutate(<<Update(k1, bad)>>), Mutate(<<Update(k1, p)>>),
              Mutate(<<Delete(k1), Delete(k2)>>), ResetCall}
ResetCalls == {ResetCall}
CloseCalls == {CloseCall}
DestroyCalls == {DestroyCall}
MutateOrDestroyCalls == MutateCalls \cup DestroyCalls
=============================================================================
