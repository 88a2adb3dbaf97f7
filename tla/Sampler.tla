------------------------------ MODULE Sampler -------------------------------
(***************************************************************************)
(* The Sampler of a client (reverb/cc/sampler.{h,cc}): worker threads that *)
(* fetch samples over gRPC streams, or from a table of the same process,   *)
(* into one Queue, the thread that takes them out, and a thread that calls *)
(* Close.  Each stream ends in a SampleReactor of a server.  The table     *)
(* behind it is a callback that comes at any time with part of the batch,  *)
(* with a rate limiter timeout, or with an error.                          *)
(*                                                                         *)
(* Faults: a stream breaks at any moment (Break); the client then sees     *)
(* UNAVAILABLE and the server a cancellation.  Bounds: Streams limits the  *)
(* streams that are ever opened, Samples the samples that are ever drawn.  *)
(***************************************************************************)
EXTENDS Queue, SampleReactor

CONSTANTS
    Options,                    \* the options of the constructor, one of
                                \* which is chosen: the kind of worker,
                                \* num_workers, max_in_flight_samples_per_worker,
                                \* and the method the consumer plans to call
    MaxSamples,                 \* max_samples_
    MaxSamplesPerStream,        \* max_samples_per_stream_
    InitialSampleBatchSize,     \* kInitialSampleBatchSize
    Streams,                    \* the streams, 1 .. n in the order of opening
    Samples,                    \* the samples, 1 .. n in the order of drawing
    TableErrors,                \* the errors a table answers a stream with
    Timesteps,                  \* the length of a sample
    Incompatible                \* samples that ValidateAgainstOutputSpec rejects

\* Options::Validate, once kUnlimitedMaxSamples and kAutoSelectValue have been
\* replaced by the numbers they stand for.
Validate(o) ==
    /\ MaxSamples >= 1 /\ MaxSamplesPerStream >= 1
    /\ o.max_in_flight >= 1 /\ o.num_workers >= 1

ASSUME SamplerAssumption ==
    /\ MaxSamples \in Nat /\ MaxSamplesPerStream \in Nat
    /\ Options \subseteq [kind : {"grpc", "local"}, num_workers : Nat,
                          max_in_flight : Nat, call : {"timestep", "trajectory"}]
    /\ \A o \in Options : Validate(o)
    /\ InitialSampleBatchSize \in Nat \ {0} /\ Timesteps \in Nat \ {0}
    /\ Streams \subseteq Nat \ {0} /\ Samples \subseteq Nat \ {0}
    /\ \A s \in Samples : 1 .. s \subseteq Samples
    /\ TableErrors \subseteq {"timeout", "internal", "cancelled", "unavailable"}
    /\ None \notin Nat
    /\ DOMAIN LargeChunks = Samples
    /\ \A s \in Samples : LargeChunks[s] \in Seq(BOOLEAN) \ {<< >>}

VARIABLES
    options,    \* the options of the constructor
    queue,      \* samples_
    sampler,    \* requested_, returned_, closed_, worker_status_
    worker,     \* the workers and the locals of RunWorker and FetchSamples
    stream,     \* the streams, each with its reactor
    consumer,   \* the thread that calls GetNextTimestep, GetNextTrajectory
    closer,     \* the thread that calls Close
    drawn       \* the samples that tables have given away, each the worker
                \* it was given to

vars == <<options, queue, sampler, worker, stream, consumer, closer, drawn>>

\* to_stream, got, status: the argument and the result of FetchSamples.
\* request: the size of the request in flight; sampled: the part received.
\* parts: parts_of_next_sample, the numbers of chunks per entry.
NewWorker ==
    [pc |-> "idle", closed |-> FALSE, reserved_slots |-> 0, to_stream |-> 0,
     got |-> 0, request |-> 0, sampled |-> 0, parts |-> << >>,
     prev_batch_size |-> 0, stream |-> 0, status |-> "ok"]

\* worker: the one that opened the stream.  request: on its way to the server,
\* 0 for none.  ended: "no", or how the transport ended the stream,
\* "cancelled" or "unavailable".  gone: OnDone has run.
UnusedStream ==
    [worker |-> None, request |-> 0, ended |-> "no", gone |-> FALSE,
     reactor |-> NewSampleReactor]

\* No more workers than can fetch the samples in their first batches.
GetNumWorkers(o) ==
    LET useful == MaxSamples \div o.max_in_flight
    IN  Lesser(o.num_workers, IF useful > 1 THEN useful ELSE 1)

Workers == 1 .. GetNumWorkers(options)

Init ==
    /\ options \in Options
    /\ queue = EmptyQueue(options.max_in_flight * GetNumWorkers(options))
    /\ sampler = [requested |-> 0, returned |-> 0, closed |-> FALSE,
                  worker_status |-> "ok"]
    /\ worker = [w \in Workers |-> NewWorker]
    /\ stream = [s \in Streams |-> UnusedStream]
    /\ consumer = [pc |-> "idle", active |-> NoSample, left |-> 0,
                   result |-> None, delivered |-> << >>, dropped |-> 0]
    /\ closer = [pc |-> "idle", remaining |-> Workers]
    /\ drawn = << >>

-----------------------------------------------------------------------------
(* Workers: RunWorker *)

ShouldStopWorkers ==
    \/ sampler.closed
    \/ sampler.returned = MaxSamples
    \/ sampler.worker_status # "ok"

WorkerStops(w) ==
    /\ worker[w].pc = "idle" /\ ShouldStopWorkers
    /\ worker' = [worker EXCEPT ![w].pc = "stopped"]
    /\ UNCHANGED <<options, queue, sampler, stream, consumer, closer, drawn>>

WorkerStarts(w) ==
    LET n == Lesser(MaxSamplesPerStream, MaxSamples - sampler.requested)
    IN  /\ worker[w].pc = "idle" /\ ~ShouldStopWorkers
        /\ sampler.requested < MaxSamples
        /\ sampler' = [sampler EXCEPT !.requested = @ + n]
        /\ worker' = [worker EXCEPT ![w].pc = "fetch", ![w].to_stream = n,
                                    ![w].prev_batch_size = InitialSampleBatchSize]
        /\ UNCHANGED <<options, queue, stream, consumer, closer, drawn>>

\* The result of FetchSamples, whose locals end here.
Return(rec, got, status) ==
    [rec EXCEPT !.pc = "report", !.got = got, !.status = status,
                !.request = 0, !.sampled = 0, !.parts = << >>,
                !.prev_batch_size = 0]

\* Mutant: the budget is not given back.
FaultyNotFetched(rec) == 0

\* What a stream that ended early gives back to the budget.
NotFetched(rec) == rec.to_stream - rec.got

Transient(status) == status \in {"cancelled", "unavailable"}

\* After an Unavailable or Cancelled stream the worker waits a while.
WorkerReports(w) ==
    LET fatal == /\ worker[w].status # "ok" /\ ~Transient(worker[w].status)
                 /\ sampler.worker_status = "ok"
    IN  /\ worker[w].pc = "report"
        /\ sampler' = [sampler EXCEPT
                !.requested = @ - NotFetched(worker[w]),
                !.worker_status = IF fatal THEN worker[w].status ELSE @]
        /\ queue' = IF fatal THEN CloseQueue(queue) ELSE queue
        /\ worker' = [worker EXCEPT ![w].pc = IF fatal THEN "stopped" ELSE "idle",
                                    ![w].to_stream = 0, ![w].got = 0,
                                    ![w].status = "ok"]
        /\ UNCHANGED <<options, stream, consumer, closer, drawn>>

-----------------------------------------------------------------------------
(* Workers: FetchSamples of GrpcSamplerWorker *)

Unused == {s \in Streams : stream[s].worker = None}

EndStream(st, how) ==
    [st EXCEPT !.ended = IF @ = "no" THEN how ELSE @,
               !.reactor.wire = << >>]

\* The context of the previous stream is destroyed, which cancels it.
CancelStream(st) == EndStream(st, "cancelled")

\* Mutant: a worker between two streams does not notice Cancel.
FaultyCancelled(w) == FALSE

Cancelled(w) == worker[w].closed

GrpcOpens(w) ==
    /\ options.kind = "grpc" /\ worker[w].pc = "fetch"
    /\ \/ /\ Cancelled(w)
          /\ worker' = [worker EXCEPT ![w] = Return(@, 0, "cancelled")]
          /\ stream' = stream
       \/ /\ ~Cancelled(w)
          /\ \E s \in Unused :
                /\ \A t \in Unused : s <= t
                /\ stream' = [t \in Streams |->
                        IF t = s THEN [stream[s] EXCEPT !.worker = w]
                        ELSE IF t = worker[w].stream THEN CancelStream(stream[t])
                        ELSE stream[t]]
                /\ worker' = [worker EXCEPT ![w].pc = "reserve", ![w].stream = s]
    /\ UNCHANGED <<options, queue, sampler, consumer, closer, drawn>>

GrpcRequestSize(w) ==
    Lesser(options.max_in_flight, worker[w].to_stream - worker[w].got)

\* Mutant: slots kept from an earlier request are forgotten.
FaultySlotsToReserve(w, n) == n

\* Slots reserved earlier and not used count towards the new request, so the
\* reservation may be negative.
SlotsToReserve(w, n) == n - worker[w].reserved_slots

GrpcReserves(w) ==
    LET n == GrpcRequestSize(w)
        count == SlotsToReserve(w, n)
    IN  /\ options.kind = "grpc" /\ worker[w].pc = "reserve"
        /\ worker[w].got < worker[w].to_stream
        /\ CanReserve(queue, count)
        /\ queue' = Reserve(queue, count)
        /\ worker' = [worker EXCEPT ![w] =
                IF queue.closed THEN Return(@, @.got, "cancelled")
                ELSE [@ EXCEPT !.pc = "write", !.reserved_slots = n,
                               !.request = n, !.sampled = 0]]
        /\ UNCHANGED <<options, sampler, stream, consumer, closer, drawn>>

GrpcCompletes(w) ==
    /\ worker[w].pc = "reserve" /\ worker[w].got >= worker[w].to_stream
    /\ worker' = [worker EXCEPT ![w] =
            Return(@, @.got, IF @.got = @.to_stream THEN "ok" ELSE "internal")]
    /\ UNCHANGED <<options, queue, sampler, stream, consumer, closer, drawn>>

\* What Finish returns on a stream that has ended.
FinalStatus(st) == IF st.ended # "no" THEN st.ended ELSE st.reactor.status
HasEnded(st) == st.ended # "no" \/ st.reactor.is_finished

GrpcWrites(w) ==
    LET s == worker[w].stream
    IN  /\ options.kind = "grpc" /\ worker[w].pc = "write"
        /\ IF HasEnded(stream[s])
           THEN /\ worker' = [worker EXCEPT ![w] =
                        Return(@, @.got, FinalStatus(stream[s]))]
                /\ stream' = stream
           ELSE /\ worker' = [worker EXCEPT ![w].pc = "read"]
                /\ stream' = [stream EXCEPT ![s].request = worker[w].request]
        /\ UNCHANGED <<options, queue, sampler, consumer, closer, drawn>>

\* The entries of a response become parts, and at an end_of_sequence the parts
\* become a sample (AsSample), which fails if a chunk is missing.
Whole(parts) ==
    /\ \A i \in DOMAIN parts : parts[i].sample = parts[1].sample
    /\ FoldLeft(LAMBDA n, e : n + e.chunks, 0, parts)
           = Len(LargeChunks[parts[1].sample])

\* Mutant: the samples of a response are pushed in the reverse order.
FaultyUnpack(acc, entry) ==
    LET parts == Append(acc.parts, entry)
    IN  IF ~entry.end_of_sequence THEN [acc EXCEPT !.parts = parts]
        ELSE [acc EXCEPT !.parts = << >>,
                         !.samples = <<parts[1].sample>> \o @]

Unpack(acc, entry) ==
    LET parts == Append(acc.parts, entry)
    IN  IF acc.failed THEN acc
        ELSE IF ~entry.end_of_sequence THEN [acc EXCEPT !.parts = parts]
        ELSE IF ~Whole(parts) THEN [acc EXCEPT !.failed = TRUE, !.parts = << >>]
        ELSE [acc EXCEPT !.parts = << >>,
                         !.samples = Append(@, parts[1].sample)]

\* Samples are pushed once per response.  A sample that the failure of a later
\* one keeps from the queue has been counted.
GrpcReads(w) ==
    LET s == worker[w].stream
        acc == FoldLeft(Unpack, [parts |-> worker[w].parts, samples |-> << >>,
                                 failed |-> FALSE],
                        Head(stream[s].reactor.wire))
        n == Len(acc.samples)
        excess == n > worker[w].reserved_slots
        rec == [worker[w] EXCEPT !.got = @ + n, !.sampled = @ + n,
                                 !.parts = acc.parts]
    IN  /\ options.kind = "grpc" /\ worker[w].pc = "read"
        /\ stream[s].ended = "no" /\ stream[s].reactor.wire # << >>
        /\ stream' = [stream EXCEPT ![s].reactor.wire = Tail(@)]
        /\ IF acc.failed \/ excess
           THEN /\ worker' = [worker EXCEPT ![w] = Return(rec, rec.got, "internal")]
                /\ queue' = queue
           ELSE /\ queue' = PushBatch(queue, acc.samples)
                /\ worker' = [worker EXCEPT ![w] =
                        LET done == [rec EXCEPT !.reserved_slots = @ - n]
                        IN  IF rec.sampled < rec.request THEN done
                            ELSE IF rec.parts # << >>
                            THEN Return(done, rec.got, "internal")
                            ELSE [done EXCEPT !.pc = "reserve"]]
        /\ UNCHANGED <<options, sampler, consumer, closer, drawn>>

\* A rate limiter timeout is an error only when somebody waits for a sample.
GrpcReadFails(w) ==
    LET st == stream[worker[w].stream]
        hidden == FinalStatus(st) = "timeout" /\ queue.num_waiting_to_pop < 1
    IN  /\ options.kind = "grpc" /\ worker[w].pc = "read"
        /\ HasEnded(st) /\ (st.ended # "no" \/ st.reactor.wire = << >>)
        /\ worker' = [worker EXCEPT ![w] =
                Return(@, @.got, IF hidden THEN "ok" ELSE FinalStatus(st))]
        /\ UNCHANGED <<options, queue, sampler, stream, consumer, closer, drawn>>

-----------------------------------------------------------------------------
(* Workers: FetchSamples of LocalSamplerWorker *)

LocalBatchSize(w) ==
    Lesser(options.max_in_flight,
           Lesser(2 * worker[w].prev_batch_size,
                  worker[w].to_stream - worker[w].got))

\* closed_ is tested on every turn of the loop.  The samples already pushed are
\* then left out of the result.
LocalStarts(w) ==
    /\ options.kind = "local" /\ worker[w].pc = "fetch"
    /\ worker' = [worker EXCEPT ![w] =
            IF @.got >= @.to_stream THEN [@ EXCEPT !.pc = "reserve"]
            ELSE IF Cancelled(w) THEN Return(@, 0, "cancelled")
            ELSE [@ EXCEPT !.pc = "reserve"]]
    /\ UNCHANGED <<options, queue, sampler, stream, consumer, closer, drawn>>

LocalReserves(w) ==
    LET n == LocalBatchSize(w)
        count == SlotsToReserve(w, n)
    IN  /\ options.kind = "local" /\ worker[w].pc = "reserve"
        /\ worker[w].got < worker[w].to_stream
        /\ CanReserve(queue, count)
        /\ queue' = Reserve(queue, count)
        /\ worker' = [worker EXCEPT ![w] =
                IF queue.closed THEN Return(@, @.got, "cancelled")
                ELSE [@ EXCEPT !.pc = "sample", !.reserved_slots = n,
                               !.request = n]]
        /\ UNCHANGED <<options, sampler, stream, consumer, closer, drawn>>

\* The next n samples of the table.
NextSamples(n) == [i \in 1 .. n |-> Len(drawn) + i]
Draw(n, w) ==
    /\ Len(drawn) + n \in Samples
    /\ drawn' = drawn \o [i \in 1 .. n |-> w]

LocalSamples(w) ==
    /\ options.kind = "local" /\ worker[w].pc = "sample"
    /\ \E n \in 1 .. worker[w].request :
          /\ Draw(n, w)
          /\ queue' = PushBatch(queue, NextSamples(n))
          /\ worker' = [worker EXCEPT ![w].pc = "fetch", ![w].got = @ + n,
                                      ![w].reserved_slots = @ - n,
                                      ![w].prev_batch_size = n]
    /\ UNCHANGED <<options, sampler, stream, consumer, closer>>

\* The table times out: at the periodic wake-up, or at the final deadline,
\* which is moved when nobody waits for a sample.
LocalTimesOut(w) ==
    /\ options.kind = "local" /\ worker[w].pc = "sample"
    /\ \/ worker' = [worker EXCEPT ![w].pc = "fetch"]
       \/ /\ queue.num_waiting_to_pop > 0
          /\ worker' = [worker EXCEPT ![w] = Return(@, @.got, "timeout")]
    /\ UNCHANGED <<options, queue, sampler, stream, consumer, closer, drawn>>

LocalFails(w) ==
    /\ options.kind = "local" /\ worker[w].pc = "sample"
    /\ worker' = [worker EXCEPT ![w] = Return(@, @.got, "cancelled")]
    /\ UNCHANGED <<options, queue, sampler, stream, consumer, closer, drawn>>

-----------------------------------------------------------------------------
(* Streams: the server and the transport *)

\* A stream that has ended delivers nothing to the client.
Delivered(st, r) == IF st.ended = "no" THEN r ELSE [r EXCEPT !.wire = << >>]

\* Reactor method F runs on stream s.
React(s, F(_)) ==
    /\ stream' = [stream EXCEPT ![s].reactor = Delivered(stream[s], F(@))]
    /\ UNCHANGED <<options, queue, sampler, worker, consumer, closer>>

ServerReads(s) ==
    /\ stream[s].worker # None /\ stream[s].reactor.read_in_flight
    /\ stream[s].request > 0 /\ stream[s].ended = "no"
    /\ stream' = [stream EXCEPT
            ![s].request = 0,
            ![s].reactor = OnReadDone(@,
                ProcessSampleRequest(HasRead(@), stream[s].request))]
    /\ UNCHANGED <<options, queue, sampler, worker, consumer, closer, drawn>>

\* A read that is in flight when the stream ends.  The one of a reactor that has
\* finished changes nothing and ends with OnDone.
ServerReadEnds(s) ==
    /\ stream[s].reactor.read_in_flight /\ ~stream[s].reactor.is_finished
    /\ stream[s].ended # "no"
    /\ React(s, OnReadEnd) /\ UNCHANGED drawn

ServerWriteDone(s) ==
    /\ stream[s].reactor.writes > 0
    /\ \E ok \in BOOLEAN :
          /\ ~ok => HasEnded(stream[s])
          /\ React(s, LAMBDA r : OnSampleWriteDone(r, ok))
    /\ UNCHANGED drawn

\* The table calls back with some of the samples it was asked for.
TableSamples(s) ==
    /\ stream[s].reactor.waiting /\ ~stream[s].gone
    /\ \E n \in 1 .. stream[s].reactor.enqueued :
          /\ Draw(n, stream[s].worker)
          /\ React(s, LAMBDA r : SamplingDone(r, NextSamples(n)))

\* It calls back with an error, the rate limiter's or its own.
TableFails(s) ==
    /\ stream[s].reactor.waiting /\ ~stream[s].gone
    /\ \E status \in TableErrors :
          React(s, LAMBDA r : SamplingFailed(r, status))
    /\ UNCHANGED drawn

ServerCancelled(s) ==
    /\ stream[s].ended # "no" /\ ~stream[s].reactor.is_finished
    /\ React(s, OnCancel) /\ UNCHANGED drawn

\* OnDone deletes the reactor; a callback that comes later finds it gone.  What
\* the client can still see is the status and what is on the wire.
FinishedReactor(r) ==
    [NewSampleReactor EXCEPT !.read_in_flight = FALSE, !.still_reading = FALSE,
                             !.is_finished = TRUE, !.status = r.status,
                             !.wire = r.wire]

ServerDone(s) ==
    /\ MayCallOnDone(stream[s].reactor) /\ ~stream[s].gone
    /\ stream' = [stream EXCEPT ![s].gone = TRUE,
                                ![s].reactor = FinishedReactor(@)]
    /\ UNCHANGED <<options, queue, sampler, worker, consumer, closer, drawn>>

\* The connection breaks.
Break(s) ==
    /\ stream[s].ended = "no" /\ \E w \in Workers : worker[w].stream = s
    /\ stream' = [stream EXCEPT ![s] = EndStream(@, "unavailable")]
    /\ UNCHANGED <<options, queue, sampler, worker, consumer, closer, drawn>>

-----------------------------------------------------------------------------
(* The consumer: GetNextTimestep and GetNextTrajectory *)

\* The spec of the tensors the consumer asked for.
ValidateAgainstOutputSpec(s) == s \notin Incompatible

\* Sample: its timesteps are given out one by one.
ActiveSample(c, s) == [c EXCEPT !.pc = "emit", !.active = s, !.left = Timesteps]
GetNextTimestep(c) == [c EXCEPT !.left = @ - 1]
IsEndOfSample(c) == c.left = 0

\* ++returned_, and the queue is closed with the last sample.
Count ==
    /\ sampler' = [sampler EXCEPT !.returned = @ + 1]
    /\ queue' = IF sampler.returned + 1 = MaxSamples THEN CloseQueue(queue)
                ELSE queue

\* A timestep out of the active sample.
NextTimestep ==
    LET ok == ValidateAgainstOutputSpec(consumer.active)
        next == GetNextTimestep(consumer)
        end == IsEndOfSample(next)
    IN  /\ consumer.pc = "emit"
        /\ consumer' = [next EXCEPT
                !.pc = "idle",
                !.result = IF ok THEN "ok" ELSE "invalid",
                !.dropped = IF ~ok /\ end THEN @ + 1 ELSE @,
                !.delivered = IF ok /\ end THEN Append(@, consumer.active)
                              ELSE @]
        /\ IF ok /\ end THEN Count ELSE UNCHANGED <<sampler, queue>>
        /\ UNCHANGED <<options, worker, stream, closer, drawn>>

\* GetNextTimestep with an active sample.
ContinueSample ==
    /\ consumer.pc = "idle" /\ ~IsEndOfSample(consumer)
    /\ consumer' = [consumer EXCEPT !.pc = "emit", !.result = None]
    /\ UNCHANGED <<options, queue, sampler, worker, stream, closer, drawn>>

\* GetNextTrajectory, or GetNextTimestep without an active sample.
StartPop ==
    /\ consumer.pc = "idle"
    /\ options.call = "timestep" => IsEndOfSample(consumer)
    /\ consumer' = [consumer EXCEPT !.pc = "pop", !.result = None]
    /\ queue' = EnterPop(queue)
    /\ UNCHANGED <<options, sampler, worker, stream, closer, drawn>>

PopSample ==
    LET s == Oldest(queue)
    IN  /\ consumer.pc = "pop" /\ CanPop(queue) /\ ~queue.closed
        /\ queue' = Pop(queue)
        /\ consumer' =
             IF options.call = "timestep"
             THEN ActiveSample(consumer, s)
             ELSE IF ValidateAgainstOutputSpec(s)
             THEN [consumer EXCEPT !.pc = "count", !.delivered = Append(@, s)]
             ELSE [consumer EXCEPT !.pc = "idle", !.result = "invalid",
                                   !.dropped = @ + 1]
        /\ UNCHANGED <<options, sampler, worker, stream, closer, drawn>>

CountTrajectory ==
    /\ consumer.pc = "count"
    /\ Count
    /\ consumer' = [consumer EXCEPT !.pc = "idle", !.result = "ok"]
    /\ UNCHANGED <<options, worker, stream, closer, drawn>>

PopFails ==
    /\ consumer.pc = "pop" /\ queue.closed
    /\ queue' = FailPop(queue)
    /\ consumer' = [consumer EXCEPT !.pc = "failed"]
    /\ UNCHANGED <<options, sampler, worker, stream, closer, drawn>>

\* Mutant: only Close and the end of the budget are thought of.
FaultyWhyClosed == IF sampler.closed THEN "cancelled" ELSE "out_of_range"

\* Why the queue was closed, read under mu_.
WhyClosed ==
    IF sampler.returned = MaxSamples THEN "out_of_range"
    ELSE IF sampler.closed THEN "cancelled" ELSE sampler.worker_status

PopNextSampleFails ==
    /\ consumer.pc = "failed"
    /\ consumer' = [consumer EXCEPT !.pc = "idle", !.result = WhyClosed]
    /\ UNCHANGED <<options, queue, sampler, worker, stream, closer, drawn>>

-----------------------------------------------------------------------------
(* Close *)

CloseSets ==
    /\ closer.pc = "idle"
    /\ sampler' = [sampler EXCEPT !.closed = TRUE]
    /\ closer' = [closer EXCEPT !.pc = "cancel"]
    /\ UNCHANGED <<options, queue, worker, stream, consumer, drawn>>

CloseCancels(w) ==
    LET s == worker[w].stream
    IN  /\ closer.pc = "cancel" /\ w \in closer.remaining
        /\ closer' = [closer EXCEPT !.remaining = @ \ {w}]
        /\ worker' = [worker EXCEPT ![w].closed = TRUE]
        /\ stream' = IF s \in Streams
                     THEN [stream EXCEPT ![s] = CancelStream(@)] ELSE stream
        /\ UNCHANGED <<options, queue, sampler, consumer, drawn>>

CloseEnds ==
    /\ closer.pc = "cancel" /\ closer.remaining = {}
    /\ queue' = CloseQueue(queue)
    /\ closer' = [closer EXCEPT !.pc = "join"]
    /\ UNCHANGED <<options, sampler, worker, stream, consumer, drawn>>

CloseJoins ==
    /\ closer.pc = "join" /\ \A w \in Workers : worker[w].pc = "stopped"
    /\ closer' = [closer EXCEPT !.pc = "done"]
    /\ UNCHANGED <<options, queue, sampler, worker, stream, consumer, drawn>>

-----------------------------------------------------------------------------
FetchGrpc(w) ==
    \/ GrpcOpens(w) \/ GrpcReserves(w) \/ GrpcWrites(w)
    \/ GrpcReads(w) \/ GrpcReadFails(w)

FetchLocal(w) ==
    \/ LocalStarts(w) \/ LocalReserves(w) \/ LocalSamples(w)
    \/ LocalTimesOut(w) \/ LocalFails(w)

WorkerStep(w) ==
    \/ WorkerStops(w) \/ WorkerStarts(w) \/ WorkerReports(w)
    \/ FetchGrpc(w) \/ FetchLocal(w) \/ GrpcCompletes(w)

ServerStep(s) ==
    \/ ServerReads(s) \/ ServerReadEnds(s) \/ ServerWriteDone(s)
    \/ ServerCancelled(s) \/ ServerDone(s)

ConsumerStep ==
    NextTimestep \/ PopSample \/ CountTrajectory \/ PopFails \/ PopNextSampleFails

CloserStep == (\E w \in Workers : CloseCancels(w)) \/ CloseEnds \/ CloseJoins

Next ==
    \/ \E w \in Workers : WorkerStep(w)
    \/ \E s \in Streams : \/ ServerStep(s) \/ Break(s)
                          \/ TableSamples(s) \/ TableFails(s)
    \/ ConsumerStep \/ ContinueSample \/ StartPop
    \/ CloserStep \/ CloseSets

Spec == Init /\ [][Next]_vars
=============================================================================
