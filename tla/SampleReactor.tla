--------------------------- MODULE SampleReactor ----------------------------
(***************************************************************************)
(* The server side of one SampleStream (WorkerlessSampleReactor in         *)
(* reverb/cc/reverb_service_impl.cc).  It reads a request for a number of  *)
(* samples, asks the table for batches until it has them all, and packs    *)
(* the chunks of the sampled items into responses.                         *)
(*                                                                         *)
(* A sample is its number.  LargeChunks[s] tells for each chunk of sample  *)
(* s whether it brings a response above kMaxSampleResponseSizeBytes.  A    *)
(* response is a sequence of entries [sample, chunks, end_of_sequence].    *)
(***************************************************************************)
EXTENDS ServerReactor, SequencesExt

CONSTANTS
    LargeChunks,                    \* the chunks of each sample
    MaxQueuedResponses,             \* kMaxQueuedResponses
    InitialGrpcSampleBatchSize      \* kInitialGrpcSampleBatchSize

ASSUME SampleReactorAssumption ==
    /\ MaxQueuedResponses \in Nat \ {0}
    /\ InitialGrpcSampleBatchSize \in Nat \ {0}

Lesser(a, b) == IF a < b THEN a ELSE b

\* requested, fetched, last_batch_size: task_info_.  waiting:
\* waiting_for_enqueued_sample_, and enqueued the size of that request.
\* oversize: current_response_size_bytes_ is above the limit.
NewSampleReactor ==
    MaybeStartRead(
        [read_in_flight |-> FALSE, still_reading |-> TRUE,
         is_finished |-> FALSE, responses |-> << >>, writes |-> 0,
         sending |-> << >>, wire |-> << >>, status |-> None,
         check_failed |-> FALSE, requested |-> 0, fetched |-> 0,
         last_batch_size |-> InitialGrpcSampleBatchSize, waiting |-> FALSE,
         enqueued |-> 0, oversize |-> FALSE])

NextBatchSize(r) == Lesser(2 * r.last_batch_size, r.requested - r.fetched)

MaybeStartSampling(r) ==
    IF \/ NextBatchSize(r) = 0
       \/ r.waiting
       \/ Len(r.responses) >= MaxQueuedResponses
    THEN r
    ELSE [r EXCEPT !.waiting = TRUE, !.enqueued = NextBatchSize(r)]

ProcessSampleRequest(r, num_samples) ==
    MaybeStartSampling([r EXCEPT !.fetched = 0, !.requested = num_samples])

NewResponse(r) ==
    [r EXCEPT !.responses = Append(@, << >>), !.oversize = FALSE]

AddEntry(r, s) ==
    [r EXCEPT !.responses[Len(r.responses)] =
        Append(@, [sample |-> s, chunks |-> 0, end_of_sequence |-> FALSE])]

\* Chunk i of sample s goes into the last entry of the last response, and the
\* rest of the sample into a new response when this one has become too big.
AddChunk(r, s, i) ==
    LET n == Len(r.responses)
        e == Len(r.responses[n])
        final == i = Len(LargeChunks[s])
        t == [r EXCEPT !.responses[n][e].chunks = @ + 1,
                       !.responses[n][e].end_of_sequence = final,
                       !.oversize = @ \/ LargeChunks[s][i]]
    IN  IF ~final /\ t.oversize THEN AddEntry(NewResponse(t), s) ELSE t

\* Mutant: the response being written is filled up.
FaultyNeedsResponse(r, write_in_flight) == r.responses = << >> \/ r.oversize

NeedsResponse(r, write_in_flight) ==
    \/ r.responses = << >>
    \/ Len(r.responses) = 1 /\ write_in_flight
    \/ r.oversize

ProcessSample(r, s, write_in_flight) ==
    LET t == AddEntry(IF NeedsResponse(r, write_in_flight)
                      THEN NewResponse(r) ELSE r, s)
    IN  FoldLeft(LAMBDA q, i : AddChunk(q, s, i), t,
                 [i \in 1 .. Len(LargeChunks[s]) |-> i])

\* The callback sampling_done_ with a batch of samples.
SamplingDone(r, samples) ==
    LET writing == r.responses # << >>
        s == [r EXCEPT !.waiting = FALSE, !.enqueued = 0,
                       !.fetched = @ + Len(samples)]
        t == FoldLeft(LAMBDA q, x : ProcessSample(q, x, writing), s, samples)
        u == IF writing THEN t ELSE MaybeSendNextResponse(t)
    IN  IF u.requested = u.fetched THEN MaybeStartRead(u)
        ELSE MaybeStartSampling([u EXCEPT !.last_batch_size = Len(samples)])

\* The same callback when the table answers with an error.
SamplingFailed(r, status) ==
    LET s == [r EXCEPT !.waiting = FALSE, !.enqueued = 0]
    IN  IF s.is_finished THEN s ELSE SetReactorAsFinished(s, status)

\* The second critical section of OnWriteDone is taken together with the
\* first: it only asks for samples when nothing else will.
OnSampleWriteDone(r, ok) == MaybeStartSampling(OnWriteDone(r, ok))
=============================================================================
