-------------------------- MODULE TableProperties ---------------------------
(***************************************************************************)
(* What a table promises: the properties that Table is checked against.    *)
(***************************************************************************)
EXTENDS Table

-----------------------------------------------------------------------------
(* Properties of the data. *)

\* An error of a selector ends the table worker in the middle of an insert;
\* what holds between the structures is claimed while it has not happened.
Sound == worker.pc # "failed"

\* data_, sampler_ and remover_ hold the same keys whenever mu_ is released or
\* another method runs, whatever inserts, evictions, samples, deletes, updates
\* and resets interleave; and they agree on an item's priority unless the last
\* update of it was one that a selector rejected (InsertOrAssignInternal,
\* DeleteItem, UpdateItem, SampleInternal, Reset).
SelectorsMatchData ==
    Sound => \A k \in Keys :
        /\ (table.data[k] = None) <=> (table.sampler[k] = None)
        /\ (table.data[k] = None) <=> (table.remover[k] = None)
        /\ table.data[k] # None =>
              \/ table.data[k].priority \in SamplerRejects \cup RemoverRejects
              \/ /\ table.sampler[k] = table.data[k].priority
                 /\ table.remover[k] = table.data[k].priority

\* The table never holds more than max_size_ items when a step of a critical
\* section ends: an insert into a full table evicts in the same step.
SizeWithinBound == Sound => Size(table) <= MaxSize

\* An item is gone once it has been sampled max_times_sampled_ times, so no
\* sample can return it again; and num_unique_samples_ lies between the sampled
\* items still present and the samples committed (SampleInternal).
SamplesRespectLimit ==
    /\ MaxTimesSampled > 0 =>
          \A k \in Present(table) : table.data[k].times_sampled < MaxTimesSampled
    /\ Cardinality({k \in Present(table) : table.data[k].times_sampled > 0})
          <= table.num_unique_samples
    /\ table.num_unique_samples <= table.limiter.samples

\* The chunks of episode e in item k, and in the items of a table.
Chunks(k, e) == {<<k, n>> : n \in 1 .. ChunkCount[k][e]}
HeldChunks(t, e) == UNION {Chunks(k, e) : k \in Present(t)}

\* episode_refs_ counts the chunks of the items in the table, episode by
\* episode, so that DeleteItem always finds the episode it looks for
\* (InsertOrAssignInternal, DeleteItem, Reset).
EpisodeRefsExact ==
    Sound => \A e \in Episodes :
        table.episode_refs[e] = Cardinality(HeldChunks(table, e))

\* What the limiter believes to be the size of the table, compared with the
\* size it has.
Drift == table.limiter.inserts - table.limiter.deletes - Size(table)

\* The limiter's idea of the size is off by at most one: one too low while an
\* eviction waits for background work before its insert is registered, one too
\* high after a Reset that came into such a wait.
LimiterDriftBounded ==
    /\ worker.pc = "evicted" => Drift \in {-1, 0}
    /\ worker.pc \notin {"evicted", "failed"} => Drift \in {0, 1}
    /\ worker.pc = "failed" => Drift \in {-1, 0, 1}

\* The limiter never lets the worker sample from a table without items: the
\* REVERB_CHECK in the selectors' Sample() never fails.
NeverSamplesEmptyTable == worker.pc # "crashed"

\* The limiter keeps its promise although the right to insert is used after
\* mu_ has been released and taken again: beyond min_size_to_sample items the
\* cursor is at most max_diff, and from the first sample on at least min_diff.
CursorWithinDiffs ==
    /\ \/ table.limiter.inserts - table.limiter.deletes <= MinSizeToSample
       \/ Cursor(table.limiter) <= MaxDiff
    /\ table.limiter.samples = 0 \/ Cursor(table.limiter) >= MinDiff

\* With an error buffer as wide as SampleToInsertRatio requires, inserts and
\* samples are never blocked at the same time.
NeverBothBlocked ==
    WideBuffer => CanInsert(table.limiter, 1) \/ CanSample(table.limiter, 1)

-----------------------------------------------------------------------------
(* Properties of requests. *)

Occurrences(q, r) == Cardinality({n \in DOMAIN q : q[n] = r})

\* No request is lost or handled twice between the clients, the two batches of
\* the worker and the list of expired requests: an enqueued request is in
\* exactly one of these places, an answered one in none.
RequestsInOnePlace ==
    /\ \A i \in InsertRequests :
          Occurrences(queue.inserts, i) + Occurrences(worker.inserts, i)
            = IF inserts[i].state = "enqueued" THEN 1 ELSE 0
    /\ \A s \in SampleRequests :
          Occurrences(queue.sampling, s) + Occurrences(worker.sampling, s)
            + (IF s \in worker.terminate THEN 1 ELSE 0)
            = IF samples[s].state = "enqueued" THEN 1 ELSE 0

\* A sample request answered with OK has at least one item, which Table::Sample
\* takes without looking, and no more than it asked for; one answered with a
\* timeout has none (full batch, partial batch before sleeping, deadline).
AnswersMatchSamples ==
    \A s \in SampleRequests :
        /\ samples[s].state = "ok" => samples[s].got \in 1 .. BatchSize[s]
        /\ samples[s].state = "timeout" => samples[s].got = 0

\* The worker never looks into a request that its deadline has already taken
\* away: before it goes to sleep the request in line is not a nullptr.
NoNullRequest ==
    Idle /\ Expired = {} /\ worker.sampling # << >> =>
        Head(worker.sampling) # None

\* A sample is reported as rate limited only if its request was waiting while
\* the worker slept (rate_limited, carried from one batch to the next).
RateLimitedIsTrue ==
    \A s \in SampleRequests : samples[s].flagged => samples[s].slept

\* An answer is given once and stays: no request is answered a second time by
\* the deadline, by a partial batch or by the closing of the table.
AnswersAreFinal ==
    [][/\ \A s \in SampleRequests :
             samples[s].state \in {"ok", "timeout", "cancelled"} =>
                samples'[s] = samples[s]
       /\ \A i \in InsertRequests :
             inserts[i].state \in {"inserted", "dropped", "refused"} =>
                inserts'[i].state = inserts[i].state]_vars

-----------------------------------------------------------------------------
(* Properties of the extension worker. *)

\* Requests of the extension worker, the ones it is processing first.
Requests == extension.batch \o table.extension_requests

\* Asynchronous extensions are told of every insert and delete, in order, and
\* a Reset never overtakes them: with the requests on their way an extension
\* knows exactly the keys of the table.
ExtensionsFollowTable ==
    HasAsyncExtensions /\ Sound => Apply(extension.view, Requests) = Present(table)

\* Every item that was accepted is in the table, on its way to be released, or
\* released, exactly once, through DeleteItem, the release of an item that only
\* updated another, the hand-over to the clients, and Reset.
ItemsConserved ==
    Sound =>
        Cardinality({i \in InsertRequests : inserts[i].state = "inserted"})
          + (IF worker.pc \in {"evicted", "registered"} THEN 1 ELSE 0)
        = Size(table) + memory.local + memory.shared + memory.freed
          + Releases(Requests)

-----------------------------------------------------------------------------
(* Liveness. *)

\* An insert does not wait for ever while the limiter allows it.
InsertsProceed ==
    []<>~(/\ \E i \in InsertRequests : inserts[i].state = "enqueued"
          /\ CanInsert(table.limiter, 1))

\* A sample request does not wait for ever while the limiter allows it.
SamplesProceed ==
    []<>~(/\ \E s \in SampleRequests : samples[s].state = "enqueued"
          /\ CanSample(table.limiter, 1))

\* A sample request with a finite timeout is answered, rate limited or not.
DeadlinesAreMet ==
    \A s \in FiniteDeadlines :
        samples[s].state = "enqueued" ~> samples[s].state # "enqueued"

\* After Close every request is answered.
CloseAnswersAll ==
    queue.stop ~> /\ \A i \in InsertRequests : inserts[i].state # "enqueued"
                   /\ \A s \in SampleRequests : samples[s].state # "enqueued"

\* MutateItems, Reset and Close return: nobody stays in WaitForBackgroundWork
\* or in the wait of Reset for the extension worker.
CallsReturn ==
    \A c \in Clients : client[c].pc \in {"mutate", "reset", "close"}
                        ~> client[c].pc = "done"

\* The destructor returns: the workers stop when they are told to.
DestructorReturns ==
    \A c \in Clients : client[c].pc = "destroy" ~> client[c].pc = "destroyed"
=============================================================================
