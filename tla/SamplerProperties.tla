------------------------- MODULE SamplerProperties --------------------------
(***************************************************************************)
(* What the Sampler and the sample streams are checked for.                *)
(***************************************************************************)
EXTENDS Sampler

\* n(w) tokens for each worker w, and how many these are.
Tokens(n(_)) == UNION {{w} \X (1 .. n(w)) : w \in Workers}
Total(n(_)) == Cardinality(Tokens(n))

\* While the queue is open its reserved slots are exactly the ones that the
\* workers believe to hold, and they leave room for what is queued: a slot of
\* the ring is never overwritten before it is popped (Queue::Reserve and
\* PushBatch with the reservations that FetchSamples carries over).
ReservationsMatch ==
    ~queue.closed =>
        /\ queue.reserved = Total(LAMBDA w : worker[w].reserved_slots)
        /\ QueueSize(queue) + queue.reserved <= queue.capacity

\* What a worker has been told to fetch and has not pushed yet.
Outstanding(w) ==
    IF worker[w].pc \in {"idle", "stopped"} THEN 0
    ELSE worker[w].to_stream - worker[w].got

\* No worker gets more than it was told to fetch; requested_ counts the samples
\* pushed and the ones on their way, whatever streams broke or timed out, and
\* never exceeds max_samples_ (RunWorker).
BudgetExact ==
    (~queue.closed /\ ~sampler.closed) =>
        /\ \A w \in Workers : Outstanding(w) >= 0
        /\ sampler.requested = queue.pushes + Total(Outstanding)
        /\ sampler.requested <= MaxSamples

\* Worker w can still bring a sample.
MayBringSample(w) ==
    \/ worker[w].pc \notin {"idle", "stopped", "reserve"}
    \/ /\ worker[w].pc = "idle" /\ sampler.requested < MaxSamples
    \/ /\ worker[w].pc = "reserve"
       /\ \/ worker[w].got >= worker[w].to_stream
          \/ CanReserve(queue, (IF options.kind = "grpc" THEN GrpcRequestSize(w)
                                ELSE LocalBatchSize(w)) - worker[w].reserved_slots)

\* A consumer that waits for a sample waits for a worker that can bring one:
\* neither the budget nor the slots of the queue are lost on the way.  A sample
\* that does not match the signature is lost to the budget for good.
WaitingConsumerIsServed ==
    (consumer.pc = "pop" /\ ~CanPop(queue) /\ consumer.dropped = 0
        /\ consumer.left = 0 /\ ~sampler.closed) =>
        \E w \in Workers : MayBringSample(w)

\* Samples of one worker leave the sampler in the order in which the table gave
\* them, each at most once, across responses, streams and restarts.
OrderKept ==
    LET out == consumer.delivered
    IN  \A i, j \in DOMAIN out :
            (i < j /\ drawn[out[i]] = drawn[out[j]]) => out[i] < out[j]

\* No CHECK of a reactor fails, it has at most one write in flight, and the
\* response being written is left alone (ReverbServerReactor, ProcessSample).
WritesAreExclusive ==
    \A s \in Streams :
        LET r == stream[s].reactor
        IN  /\ ~r.check_failed /\ r.writes <= 1
            /\ (r.writes = 1 /\ ~r.is_finished) =>
                   r.responses # << >> /\ Head(r.responses) = r.sending

\* The consumer has a sample in hand: timesteps of it are left, or it is about
\* to be counted.
InHand == consumer.left > 0 \/ consumer.pc = "count"

Source == INSTANCE SampleSource WITH
    delivered <- consumer.delivered, begun <- InHand, result <- consumer.result,
    ended <- queue.closed, closed <- sampler.closed, error <- sampler.worker_status

\* The sampler with its workers, streams and queue implements SampleSource: once
\* the queue is closed no sample is begun any more, only one that was begun is
\* still given out, and every other call gets OutOfRange, Cancelled or the first
\* error of a worker, in this order.
ImplementsSource == Source!Spec

\* When Close joins the workers, none of them is left waiting on a stream, a
\* slot or the budget: Cancel reached each of them wherever it was.
CloseReachesEveryWorker ==
    closer.pc = "join" =>
        \A w \in Workers :
            /\ worker[w].pc = "read" => HasEnded(stream[worker[w].stream])
            /\ worker[w].pc = "fetch" => Cancelled(w) \/ worker[w].got > 0
            /\ worker[w].pc = "reserve" => queue.closed
            /\ worker[w].pc = "idle" => ShouldStopWorkers
=============================================================================
