------------------------------- MODULE Table --------------------------------
(***************************************************************************)
(* A replay table (reverb/cc/table.{h,cc}) and the threads that work on    *)
(* it: the table worker, the extension worker, and client threads that     *)
(* enqueue inserts and samples or call MutateItems, Reset, Close and the   *)
(* destructor.                                                             *)
(*                                                                         *)
(* Locks.  A critical section of worker_mu_ or async_extensions_mu_ is one *)
(* step.  A critical section of mu_ may take several steps: mu holds its   *)
(* owner meanwhile.  WaitForBackgroundWork is the only place where a       *)
(* section of mu_ is left in the middle: a thread that finds more than     *)
(* MaxEnqueuedExtensionOps requests joins buffer_waiters (the condition    *)
(* variable extension_buffer_available_cv_) and gives mu_ up.              *)
(*                                                                         *)
(* Time.  The deadline of a sample request passes at any moment after the  *)
(* request was enqueued (DeadlinePasses).                                  *)
(*                                                                         *)
(* Every request of InsertRequests and SampleRequests, and every client of *)
(* Clients, is used once; their numbers are the bounds of a model-checked  *)
(* instance, and are arbitrary in the proofs.                              *)
(***************************************************************************)
EXTENDS TableState

CONSTANTS
    InsertRequests,             \* calls of InsertOrAssignAsync
    BlockingInserts,            \* the ones made by InsertOrAssign(timeout)
    SampleRequests,             \* calls of EnqueSampleRequest
    BatchSize,                  \* BatchSize[s]: the num_samples of request s
    FiniteDeadlines,            \* the sample requests with a finite timeout
    Clients,                    \* threads that make one call out of Calls
    Calls,                      \* calls of the other methods
    MaxEnqueuedExtensionOps     \* max_enqueued_extension_ops_

Edit == [type : {"delete", "update"}, key : Keys, priority : Priorities]
Call == [op : {"mutate", "reset", "close", "destroy"}, edits : Seq(Edit)]

ASSUME ThreadAssumption ==
    /\ BlockingInserts \subseteq InsertRequests
    /\ BatchSize \in [SampleRequests -> Nat \ {0}]
    /\ FiniteDeadlines \subseteq SampleRequests
    /\ \A call \in Calls : call \in Call
    /\ MaxEnqueuedExtensionOps \in Nat \ {0}
    /\ "free" \notin Clients /\ "worker" \notin Clients
    /\ None \notin SampleRequests

VARIABLES
    table,              \* the state guarded by mu_ (TableState)
    mu,                 \* the owner of mu_
    buffer_waiters,     \* threads waiting on extension_buffer_available_cv_
    worker,             \* the table worker
    queue,              \* what worker_mu_ guards for it
    inserts,            \* what became of each insert request
    samples,            \* what became of each sample request
    extension,          \* the extension worker
    memory,             \* items on their way to be released
    client              \* the clients

vars == <<table, mu, buffer_waiters, worker, queue, inserts, samples,
          extension, memory, client>>

\* The locals of TableWorkerLoop.  progressed: progress # last_progress.
\* looped: prev_progress < progress in the inner loop.  inserts, sampling:
\* current_inserts from insert_idx on, current_sampling from sample_idx on,
\* None for a nullptr.  terminate: to_terminate.
WorkerRecord ==
    [pc : {"insert", "evicted", "updated", "registered", "sample", "sampled",
           "serve", "asleep", "terminate", "drain", "cancel", "exited",
           "failed", "crashed"},
     progressed : BOOLEAN, looped : BOOLEAN, rate_limited : BOOLEAN,
     inserts : Seq(InsertRequests),
     sampling : Seq(SampleRequests \cup {None}),
     terminate : SUBSET SampleRequests]

\* pending_inserts_, pending_sampling_, stop_worker_.
QueueRecord ==
    [inserts : Seq(InsertRequests),
     sampling : Seq(SampleRequests \cup {None}),
     stop : BOOLEAN]

\* The item of the request, and its fate: "inserted" when
\* InsertOrAssignInternal has run, "dropped" when the worker stopped and only
\* called the callback, "refused" when the table was closed before.
InsertRecord ==
    [state : {"new", "enqueued", "inserted", "dropped", "refused"},
     key : Keys, priority : Priorities, timed_out : BOOLEAN]

\* got: items sampled so far.  slept: the worker has gone to sleep while the
\* request was in line.  flagged: some sample has rate_limited set.
SampleRecord ==
    [state : {"new", "enqueued", "ok", "timeout", "cancelled"},
     got : Nat, expired : BOOLEAN, slept : BOOLEAN, flagged : BOOLEAN]

\* The locals of ExtensionsWorkerLoop, stop_extension_worker_, and the keys
\* that an asynchronous extension knows of.
ExtensionRecord ==
    [pc : {"start", "handoff", "fetch", "asleep", "woken", "process", "exited"},
     batch : Seq(ExtensionRequest), stop : BOOLEAN, view : SUBSET Keys]

\* Numbers of items: in deleted_items_, in the extension worker's list of the
\* same name, and released so far.
MemoryRecord == [shared : Nat, local : Nat, freed : Nat]

ClientRecord ==
    [pc : {"idle", "mutate", "mutate_wait", "mutate_signal", "reset",
           "reset_signal", "close", "destroy", "destroy_stop", "join",
           "destroyed", "done"},
     edits : Seq(Edit)]

Threads == Clients \cup {"worker"}

\* Every variable has its type.
TypeOK ==
    /\ table \in TableRecord
    /\ mu \in Threads \cup {"free"}
    /\ buffer_waiters \subseteq Threads
    /\ worker \in WorkerRecord
    /\ queue \in QueueRecord
    /\ inserts \in [InsertRequests -> InsertRecord]
    /\ samples \in [SampleRequests -> SampleRecord]
    /\ extension \in ExtensionRecord
    /\ memory \in MemoryRecord
    /\ client \in [Clients -> ClientRecord]

Init ==
    /\ table = EmptyTable
    /\ mu = "free"
    /\ buffer_waiters = {}
    /\ worker = [pc |-> "insert", progressed |-> FALSE, looped |-> FALSE,
                 rate_limited |-> FALSE, inserts |-> << >>,
                 sampling |-> << >>, terminate |-> {}]
    /\ queue = [inserts |-> << >>, sampling |-> << >>, stop |-> FALSE]
    /\ inserts \in [InsertRequests ->
            {i \in InsertRecord : i.state = "new" /\ i.timed_out = FALSE}]
    /\ samples = [s \in SampleRequests |->
                     [state |-> "new", got |-> 0, expired |-> FALSE,
                      slept |-> FALSE, flagged |-> FALSE]]
    /\ extension = [pc |-> "start", batch |-> << >>, stop |-> FALSE,
                    view |-> {}]
    /\ memory = [shared |-> 0, local |-> 0, freed |-> 0]
    /\ client = [c \in Clients |-> [pc |-> "idle", edits |-> << >>]]

-----------------------------------------------------------------------------
(* Locks and condition variables. *)

\* Thread p owns mu_, or may take it.
MayLock(p) == mu \in {"free", p} /\ p \notin buffer_waiters

\* WaitForBackgroundWork at the end of a step of thread p: p keeps mu_, or
\* gives it up and waits for room in extension_requests_.
Await(p) ==
    IF Len(table'.extension_requests) > MaxEnqueuedExtensionOps
    THEN mu' = "free" /\ buffer_waiters' = buffer_waiters \cup {p}
    ELSE mu' = p /\ UNCHANGED buffer_waiters

\* Thread p returns from WaitForBackgroundWork.
Resume(p) ==
    /\ MayLock(p)
    /\ Len(table.extension_requests) <= MaxEnqueuedExtensionOps

\* A woken thread finds the queue full again and waits once more.
WaitAgain(p) ==
    /\ MayLock(p)
    /\ Len(table.extension_requests) > MaxEnqueuedExtensionOps
    /\ mu' = "free"
    /\ buffer_waiters' = buffer_waiters \cup {p}
    /\ UNCHANGED <<table, worker, queue, inserts, samples, extension, memory,
                   client>>

\* Faulty: nobody is woken.
SignalNobody == UNCHANGED worker

\* wakeup_worker_.Signal().
SignalWorker ==
    worker' = IF worker.pc = "asleep" THEN [worker EXCEPT !.pc = "insert"]
              ELSE worker

\* extension_work_available_cv_.Signal() of ExtensionOperation: sent when the
\* first request enters an empty queue.
SignalExtension ==
    extension' =
        IF /\ extension.pc = "asleep"
           /\ table.extension_requests = << >>
           /\ table'.extension_requests # << >>
        THEN [extension EXCEPT !.pc = "woken"] ELSE extension

\* No thread has entered the destructor.
Alive ==
    \A c \in Clients :
        client[c].pc \notin {"destroy", "destroy_stop", "join", "destroyed"}

\* Faulty: deleted_items_ may be empty.
ReleaseOneUnchecked ==
    memory' = [memory EXCEPT !.shared = @ - 1, !.freed = @ + 1]

\* A client that finds items in deleted_items_ releases one of them.
ReleaseOne ==
    memory' = IF memory.shared = 0 THEN memory
              ELSE [memory EXCEPT !.shared = @ - 1, !.freed = @ + 1]

-----------------------------------------------------------------------------
(* Clients: enqueueing. *)

InsertOrAssignAsync(i) ==
    /\ Alive
    /\ inserts[i].state = "new"
    /\ \/ /\ queue.stop
          /\ inserts' = [inserts EXCEPT ![i].state = "refused"]
          /\ UNCHANGED <<queue, worker, memory>>
       \/ /\ ~queue.stop
          /\ inserts' = [inserts EXCEPT ![i].state = "enqueued"]
          /\ queue' = [queue EXCEPT !.inserts = Append(@, i)]
          /\ SignalWorker
          /\ ReleaseOne
    /\ UNCHANGED <<table, mu, buffer_waiters, samples, extension, client>>

\* The wait of InsertOrAssign for the callback ends with RateLimiterTimeout.
InsertOrAssignTimesOut(i) ==
    /\ i \in BlockingInserts
    /\ inserts[i].state = "enqueued"
    /\ ~inserts[i].timed_out
    /\ inserts' = [inserts EXCEPT ![i].timed_out = TRUE]
    /\ UNCHANGED <<table, mu, buffer_waiters, worker, queue, samples,
                   extension, memory, client>>

\* A request to a closed table is answered at once, under both locks.
EnqueSampleRequest(s) ==
    /\ Alive
    /\ samples[s].state = "new"
    /\ \/ /\ queue.stop
          /\ mu = "free"
          /\ samples' = [samples EXCEPT ![s].state = "cancelled"]
          /\ UNCHANGED <<queue, worker, memory>>
       \/ /\ ~queue.stop
          /\ samples' = [samples EXCEPT ![s].state = "enqueued"]
          /\ queue' = [queue EXCEPT !.sampling = Append(@, s)]
          /\ SignalWorker
          /\ ReleaseOne
    /\ UNCHANGED <<table, mu, buffer_waiters, inserts, extension, client>>

DeadlinePasses(s) ==
    /\ s \in FiniteDeadlines
    /\ samples[s].state = "enqueued"
    /\ ~samples[s].expired
    /\ samples' = [samples EXCEPT ![s].expired = TRUE]
    /\ UNCHANGED <<table, mu, buffer_waiters, worker, queue, inserts,
                   extension, memory, client>>

-----------------------------------------------------------------------------
(* Table worker: the section of mu_. *)

\* Nothing to insert, or the rate limiter blocks the insert.
WorkerSkipInsert ==
    /\ worker.pc = "insert"
    /\ MayLock("worker")
    /\ worker.inserts = << >> \/ ~CanInsert(table.limiter, 1)
    /\ worker' = [worker EXCEPT !.pc = "sample"]
    /\ mu' = "worker"
    /\ UNCHANGED <<table, buffer_waiters, queue, inserts, samples, extension,
                   memory, client>>

\* InsertOrAssignInternal, new key.  An error ends the worker thread.  A full
\* table evicts the key its remover chooses, perhaps the new one.
WorkerInsert ==
    /\ worker.pc = "insert"
    /\ MayLock("worker")
    /\ worker.inserts # << >>
    /\ CanInsert(table.limiter, 1)
    /\ LET i == inserts[Head(worker.inserts)]
           t == InsertItem(table, i.key, i.priority)
       IN /\ table.data[i.key] = None
          /\ \/ /\ ~InsertOk(table, i.key, i.priority)
                /\ table' = t
                /\ worker' = [worker EXCEPT !.pc = "failed"]
                /\ mu' = "free"
                /\ UNCHANGED buffer_waiters
             \/ /\ InsertOk(table, i.key, i.priority)
                /\ ~MustEvict(t)
                /\ table' = RegisterInsert(t)
                /\ worker' = [worker EXCEPT !.pc = "registered"]
                /\ Await("worker")
             \/ /\ InsertOk(table, i.key, i.priority)
                /\ MustEvict(t)
                /\ \E k \in Known(t.remover) : table' = DeleteItem(t, k)
                /\ worker' = [worker EXCEPT !.pc = "evicted"]
                /\ Await("worker")
    /\ SignalExtension
    /\ UNCHANGED <<queue, inserts, samples, memory, client>>

\* InsertOrAssignInternal, known key: only the priority is taken over.
WorkerAssign ==
    /\ worker.pc = "insert"
    /\ MayLock("worker")
    /\ worker.inserts # << >>
    /\ CanInsert(table.limiter, 1)
    /\ LET i == inserts[Head(worker.inserts)]
       IN /\ table.data[i.key] # None
          /\ table' = UpdateItem(table, i.key, i.priority)
          /\ \/ /\ ~UpdateOk(table, i.key, i.priority)
                /\ worker' = [worker EXCEPT !.pc = "failed"]
                /\ mu' = "free"
                /\ UNCHANGED buffer_waiters
             \/ /\ UpdateOk(table, i.key, i.priority)
                /\ worker' = [worker EXCEPT !.pc = "updated"]
                /\ Await("worker")
    /\ SignalExtension
    /\ UNCHANGED <<queue, inserts, samples, memory, client>>

\* DeleteItem of the evicted item has returned.
WorkerEvicted ==
    /\ worker.pc = "evicted"
    /\ Resume("worker")
    /\ table' = RegisterInsert(table)
    /\ worker' = [worker EXCEPT !.pc = "registered"]
    /\ mu' = "worker"
    /\ UNCHANGED <<buffer_waiters, queue, inserts, samples, extension, memory,
                   client>>

\* UpdateItem has returned: the item that was not needed is to be released.
WorkerUpdated ==
    /\ worker.pc = "updated"
    /\ Resume("worker")
    /\ table' = ExtensionOperation(table, "release",
                                   inserts[Head(worker.inserts)].key)
    /\ worker' = [worker EXCEPT !.pc = "registered"]
    /\ Await("worker")
    /\ SignalExtension
    /\ UNCHANGED <<queue, inserts, samples, memory, client>>

\* InsertOrAssignInternal has returned: the callback is scheduled.
WorkerRegistered ==
    /\ worker.pc = "registered"
    /\ Resume("worker")
    /\ inserts' = [inserts EXCEPT ![Head(worker.inserts)].state = "inserted"]
    /\ worker' = [worker EXCEPT !.pc = "sample", !.inserts = Tail(@),
                                !.progressed = TRUE, !.looped = TRUE]
    /\ mu' = "worker"
    /\ UNCHANGED <<table, buffer_waiters, queue, samples, extension, memory,
                   client>>

Elements(q) == {q[n] : n \in DOMAIN q}

\* Faulty: a nullptr stays in line.
SkipNone(q) == q

\* What is left of a list of requests after its leading nullptrs: requests
\* that were terminated because of their deadline.
SkipTerminated(q) ==
    LET live == {n \in DOMAIN q : q[n] # None}
    IN IF live = {} THEN << >>
       ELSE SubSeq(q, CHOOSE n \in live : \A m \in live : n <= m, Len(q))

\* FinalizeSampleRequest for every request of S.
Finalize(S, state) ==
    [s \in SampleRequests |->
        IF s \in S THEN [samples[s] EXCEPT !.state = state] ELSE samples[s]]

\* MaybeCommitSample and SampleInternal for the first request in line.  A
\* selector without keys aborts the process (REVERB_CHECK in Sample).
WorkerSample ==
    /\ worker.pc = "sample"
    /\ MayLock("worker")
    /\ CanSample(table.limiter, 1)
    /\ LET requests == SkipTerminated(worker.sampling)
       IN /\ requests # << >>
          /\ \/ /\ Known(table.sampler) = {}
                /\ worker' = [worker EXCEPT !.pc = "crashed"]
                /\ UNCHANGED <<table, mu, buffer_waiters, samples>>
             \/ /\ \E k \in Known(table.sampler) : table' = SampleItem(table, k)
                /\ samples' = [samples EXCEPT
                        ![Head(requests)].got = @ + 1,
                        ![Head(requests)].flagged = @ \/ worker.rate_limited]
                /\ worker' = [worker EXCEPT
                        !.pc = "sampled", !.sampling = requests,
                        !.progressed = TRUE, !.looped = TRUE]
                /\ Await("worker")
    /\ SignalExtension
    /\ UNCHANGED <<queue, inserts, memory, client>>

\* SampleInternal has returned.  The request is complete when it has as many
\* samples as it asked for, or when its response has grown too large.
WorkerSampled ==
    /\ worker.pc = "sampled"
    /\ Resume("worker")
    /\ LET s == Head(worker.sampling)
       IN \/ /\ samples' = Finalize({s}, "ok")
             /\ worker' = [worker EXCEPT !.pc = "insert", !.sampling = Tail(@),
                                         !.looped = FALSE]
          \/ /\ samples[s].got < BatchSize[s]
             /\ worker' = [worker EXCEPT !.pc = "sample"]
             /\ UNCHANGED samples
    /\ mu' = "worker"
    /\ UNCHANGED <<table, buffer_waiters, queue, inserts, extension, memory,
                   client>>

\* No request or no right to sample: the inner loop goes round again if it has
\* done something, otherwise mu_ is released.
WorkerEndLoop ==
    /\ worker.pc = "sample"
    /\ MayLock("worker")
    /\ LET requests == SkipTerminated(worker.sampling)
       IN /\ requests = << >> \/ ~CanSample(table.limiter, 1)
          /\ worker' = [worker EXCEPT
                          !.pc = IF worker.looped THEN "insert" ELSE "serve",
                          !.sampling = requests, !.looped = FALSE]
    /\ mu' = IF worker.looped THEN "worker" ELSE "free"
    /\ UNCHANGED <<table, buffer_waiters, queue, inserts, samples, extension,
                   memory, client>>

-----------------------------------------------------------------------------
(* Table worker: the section of worker_mu_. *)

WorkerStops ==
    /\ worker.pc = "serve"
    /\ queue.stop
    /\ worker' = [worker EXCEPT !.pc = "drain"]
    /\ UNCHANGED <<table, mu, buffer_waiters, queue, inserts, samples,
                   extension, memory, client>>

TakeInserts == worker.inserts = << >> /\ queue.inserts # << >>

\* Faulty: sample requests have to wait until all inserts are done.
TakeSamplingAfterInserts ==
    worker.sampling = << >> /\ worker.inserts = << >> /\ queue.sampling # << >>

TakeSampling == worker.sampling = << >> /\ queue.sampling # << >>

\* Faulty: a new batch inherits the flag of the last one.
RateLimitedForEver == worker.rate_limited

\* A new batch is unaffected by the rate limiter until the worker sleeps again.
RateLimitedOnTake == IF TakeSampling THEN FALSE ELSE worker.rate_limited

\* New batches are picked up, or there was progress: the loop continues.
WorkerContinues ==
    /\ worker.pc = "serve"
    /\ ~queue.stop
    /\ TakeInserts \/ TakeSampling \/ worker.progressed
    /\ worker' = [worker EXCEPT
            !.pc = "insert",
            !.progressed = FALSE,
            !.inserts = IF TakeInserts THEN queue.inserts ELSE @,
            !.sampling = IF TakeSampling THEN queue.sampling ELSE @,
            !.rate_limited = RateLimitedOnTake]
    /\ queue' = [queue EXCEPT
            !.inserts = IF TakeInserts THEN << >> ELSE @,
            !.sampling = IF TakeSampling THEN << >> ELSE @]
    /\ UNCHANGED <<table, mu, buffer_waiters, inserts, samples, extension,
                   memory, client>>

Idle ==
    /\ worker.pc = "serve"
    /\ ~queue.stop
    /\ ~TakeInserts /\ ~TakeSampling /\ ~worker.progressed

\* Faulty: only the current batch is looked at.
ExpiredInBatch ==
    {s \in SampleRequests :
        s \in Elements(worker.sampling) /\ samples[s].expired}

Expired ==
    {s \in SampleRequests :
        /\ s \in Elements(worker.sampling) \cup Elements(queue.sampling)
        /\ samples[s].expired}

\* Faulty: the request stays in line.
KeepExpired(q) == q

\* GetExpiredRequests: the request is moved out and leaves a nullptr behind.
WithoutExpired(q) ==
    [n \in DOMAIN q |-> IF q[n] \in Expired THEN None ELSE q[n]]

WorkerExpires ==
    /\ Idle
    /\ Expired # {}
    /\ worker' = [worker EXCEPT !.pc = "terminate", !.terminate = Expired,
                                !.sampling = WithoutExpired(@)]
    /\ queue' = [queue EXCEPT !.sampling = WithoutExpired(@)]
    /\ UNCHANGED <<table, mu, buffer_waiters, inserts, samples, extension,
                   memory, client>>

\* Faulty: the request in line need not have samples.
HasBatch == worker.sampling # << >>

\* The request in line has samples, and no right to more of them.
HasPartialBatch ==
    worker.sampling # << >> /\ samples[Head(worker.sampling)].got > 0

\* A partial batch is sent out (under mu_), then the worker sleeps.
WorkerSleeps ==
    /\ Idle
    /\ Expired = {}
    /\ LET rest == IF HasPartialBatch THEN Tail(worker.sampling)
                   ELSE worker.sampling
       IN /\ HasPartialBatch => mu = "free"
          /\ samples' = [s \in SampleRequests |->
                [samples[s] EXCEPT
                    !.state = IF HasPartialBatch /\ s = Head(worker.sampling)
                              THEN "ok" ELSE @,
                    !.slept = @ \/ s \in Elements(rest)]]
          /\ worker' = [worker EXCEPT !.pc = "asleep", !.sampling = rest,
                                      !.rate_limited = rest # << >>]
    /\ UNCHANGED <<table, mu, buffer_waiters, queue, inserts, extension,
                   memory, client>>

\* WaitWithDeadline returns because the deadline of a request has passed.
WorkerWakesOnDeadline ==
    /\ worker.pc = "asleep"
    /\ Expired # {}
    /\ worker' = [worker EXCEPT !.pc = "insert"]
    /\ UNCHANGED <<table, mu, buffer_waiters, queue, inserts, samples,
                   extension, memory, client>>

\* Expired requests are answered: an error if they are empty, OK otherwise.
WorkerTerminates ==
    /\ worker.pc = "terminate"
    /\ mu = "free"
    /\ samples' = [s \in SampleRequests |->
            IF s \in worker.terminate
            THEN [samples[s] EXCEPT
                    !.state = IF samples[s].got = 0 THEN "timeout" ELSE "ok"]
            ELSE samples[s]]
    /\ worker' = [worker EXCEPT !.pc = "insert", !.terminate = {}]
    /\ UNCHANGED <<table, mu, buffer_waiters, queue, inserts, extension,
                   memory, client>>

\* Faulty: requests that are still enqueued are forgotten.
WorkerDrainsNothing ==
    /\ worker.pc = "drain"
    /\ worker' = [worker EXCEPT !.pc = "cancel"]
    /\ UNCHANGED <<table, mu, buffer_waiters, queue, inserts, samples,
                   extension, memory, client>>

\* After the loop: enqueued requests join the current ones,
WorkerDrains ==
    /\ worker.pc = "drain"
    /\ worker' = [worker EXCEPT !.pc = "cancel",
                                !.inserts = @ \o queue.inserts,
                                !.sampling = @ \o queue.sampling]
    /\ queue' = [queue EXCEPT !.inserts = << >>, !.sampling = << >>]
    /\ UNCHANGED <<table, mu, buffer_waiters, inserts, samples, extension,
                   memory, client>>

\* samples are cancelled, and the callbacks of inserts called.
WorkerCancels ==
    /\ worker.pc = "cancel"
    /\ mu = "free"
    /\ samples' = Finalize(Elements(worker.sampling), "cancelled")
    /\ inserts' = [i \in InsertRequests |->
            IF i \in Elements(worker.inserts)
            THEN [inserts[i] EXCEPT !.state = "dropped"] ELSE inserts[i]]
    /\ worker' = [worker EXCEPT !.pc = "exited", !.inserts = << >>,
                                !.sampling = << >>]
    /\ UNCHANGED <<table, mu, buffer_waiters, queue, extension, memory, client>>

TableWorker ==
    \/ WorkerSkipInsert
    \/ WorkerInsert
    \/ WorkerAssign
    \/ WorkerEvicted
    \/ WorkerUpdated
    \/ WorkerRegistered
    \/ WorkerSample
    \/ WorkerSampled
    \/ WorkerEndLoop
    \/ WorkerStops
    \/ WorkerContinues
    \/ WorkerExpires
    \/ WorkerSleeps
    \/ WorkerWakesOnDeadline
    \/ WorkerTerminates
    \/ WorkerDrains
    \/ WorkerCancels
    \/ /\ worker.pc \in {"evicted", "updated", "registered", "sampled"}
       /\ WaitAgain("worker")

-----------------------------------------------------------------------------
(* Extension worker. *)

\* Faulty: the extension worker is never waited for.
ExtensionWorkerIgnored == TRUE

\* extension_worker_sleeps_: true until the thread starts, and from the moment
\* it waits until it holds mu_ again.
ExtensionWorkerSleeps == extension.pc \in {"start", "asleep", "woken"}

ExtensionStarts ==
    /\ extension.pc = "start"
    /\ mu = "free"
    /\ extension' = [extension EXCEPT !.pc = "handoff"]
    /\ UNCHANGED <<table, mu, buffer_waiters, worker, queue, inserts, samples,
                   memory, client>>

\* Faulty: items that no client has released yet are lost.
ExtensionOverwrites ==
    /\ extension.pc = "handoff"
    /\ memory' = [memory EXCEPT !.shared = memory.local, !.local = 0]
    /\ extension' = [extension EXCEPT !.pc = "fetch"]
    /\ UNCHANGED <<table, mu, buffer_waiters, worker, queue, inserts, samples,
                   client>>

\* The items of the last batches go to the clients, if these have none left.
ExtensionHandsOff ==
    /\ extension.pc = "handoff"
    /\ memory' = IF memory.shared # 0 THEN memory
                 ELSE [memory EXCEPT !.shared = memory.local, !.local = 0]
    /\ extension' = [extension EXCEPT !.pc = "fetch"]
    /\ UNCHANGED <<table, mu, buffer_waiters, worker, queue, inserts, samples,
                   client>>

ExtensionSleeps ==
    /\ extension.pc = "fetch"
    /\ mu = "free"
    /\ table.extension_requests = << >>
    /\ extension' = [extension EXCEPT
                        !.pc = IF extension.stop THEN "exited" ELSE "asleep"]
    /\ UNCHANGED <<table, mu, buffer_waiters, worker, queue, inserts, samples,
                   memory, client>>

\* Faulty: a queue that has grown beyond the limit is not noticed.
BufferWasJustFull == Len(table.extension_requests) = MaxEnqueuedExtensionOps

BufferWasFull == Len(table.extension_requests) >= MaxEnqueuedExtensionOps

\* The queue is swapped out; waiting threads are woken if it was full.
ExtensionFetches ==
    /\ \/ extension.pc = "fetch" /\ table.extension_requests # << >>
       \/ extension.pc = "woken"
    /\ mu = "free"
    /\ extension' = [extension EXCEPT !.pc = "process",
                                      !.batch = table.extension_requests]
    /\ table' = [table EXCEPT !.extension_requests = << >>]
    /\ buffer_waiters' = IF BufferWasFull THEN {} ELSE buffer_waiters
    /\ UNCHANGED <<mu, worker, queue, inserts, samples, memory, client>>

\* The keys that an extension with OnInsert and OnDelete knows of once it has
\* seen the requests: for each key the last of the two decides.
Apply(view, requests) ==
    {k \in Keys :
        LET seen == {n \in DOMAIN requests :
                        /\ requests[n].key = k
                        /\ requests[n].type \in {"insert", "delete"}}
        IN IF seen = {} THEN k \in view
           ELSE \E n \in seen : /\ \A m \in seen : m <= n
                                /\ requests[n].type = "insert"}

\* The number of requests whose item is to be released.
Releases(requests) ==
    Cardinality({n \in DOMAIN requests :
                    requests[n].type \in {"delete", "release"}})

ExtensionProcesses ==
    /\ extension.pc = "process"
    /\ extension' = [extension EXCEPT !.pc = "handoff", !.batch = << >>,
                                      !.view = Apply(@, extension.batch)]
    /\ memory' = [memory EXCEPT !.local = @ + Releases(extension.batch)]
    /\ UNCHANGED <<table, mu, buffer_waiters, worker, queue, inserts, samples,
                   client>>

ExtensionWorker ==
    \/ ExtensionStarts
    \/ ExtensionHandsOff
    \/ ExtensionSleeps
    \/ ExtensionFetches
    \/ ExtensionProcesses

-----------------------------------------------------------------------------
(* Clients: the other calls. *)

\* The owner destroys the table when no other call is under way.
Quiet(c) ==
    /\ \A d \in Clients \ {c} : client[d].pc \in {"idle", "done"}
    /\ \A i \in BlockingInserts :
          inserts[i].state = "enqueued" => inserts[i].timed_out

StartCall(c) ==
    /\ Alive
    /\ client[c].pc = "idle"
    /\ \E call \in Calls :
          /\ call.op = "destroy" => Quiet(c)
          /\ client' = [client EXCEPT ![c].pc = call.op,
                                      ![c].edits = call.edits]
    /\ UNCHANGED <<table, mu, buffer_waiters, worker, queue, inserts, samples,
                   extension, memory>>

\* One delete or update of MutateItems.  A missing key is ignored, without a
\* wait; an error ends the call, without a signal to the worker.
MutateItem(c) ==
    /\ client[c].pc = "mutate"
    /\ MayLock(c)
    /\ client[c].edits # << >>
    /\ LET e == Head(client[c].edits)
           ok == IF e.type = "delete" THEN DeleteOk(table, e.key)
                 ELSE UpdateOk(table, e.key, e.priority)
       IN /\ table' = IF e.type = "delete" THEN DeleteItem(table, e.key)
                      ELSE UpdateItem(table, e.key, e.priority)
          /\ \/ /\ table.data[e.key] = None
                /\ client' = [client EXCEPT ![c].edits = Tail(@)]
                /\ mu' = c
                /\ UNCHANGED buffer_waiters
             \/ /\ table.data[e.key] # None
                /\ ok
                /\ client' = [client EXCEPT ![c].pc = "mutate_wait",
                                            ![c].edits = Tail(@)]
                /\ Await(c)
             \/ /\ ~ok
                /\ client' = [client EXCEPT ![c].pc = "done"]
                /\ mu' = "free"
                /\ UNCHANGED buffer_waiters
    /\ SignalExtension
    /\ UNCHANGED <<worker, queue, inserts, samples, memory>>

MutateResumes(c) ==
    /\ client[c].pc = "mutate_wait"
    /\ Resume(c)
    /\ client' = [client EXCEPT ![c].pc = "mutate"]
    /\ mu' = c
    /\ UNCHANGED <<table, buffer_waiters, worker, queue, inserts, samples,
                   extension, memory>>

MutateUnlocks(c) ==
    /\ client[c].pc = "mutate"
    /\ MayLock(c)
    /\ client[c].edits = << >>
    /\ client' = [client EXCEPT ![c].pc = "mutate_signal"]
    /\ mu' = "free"
    /\ UNCHANGED <<table, buffer_waiters, worker, queue, inserts, samples,
                   extension, memory>>

MutateSignals(c) ==
    /\ client[c].pc = "mutate_signal"
    /\ SignalWorker
    /\ client' = [client EXCEPT ![c].pc = "done"]
    /\ UNCHANGED <<table, mu, buffer_waiters, queue, inserts, samples,
                   extension, memory>>

\* Reset awaits, with mu_, that the extension worker has nothing to do.
Reset(c) ==
    /\ client[c].pc = "reset"
    /\ mu = "free"
    /\ ExtensionWorkerSleeps
    /\ table.extension_requests = << >>
    /\ table' = ClearTable(table)
    /\ extension' = [extension EXCEPT !.view = {}]
    /\ memory' = [memory EXCEPT !.freed = @ + Size(table)]
    /\ client' = [client EXCEPT ![c].pc = "reset_signal"]
    /\ UNCHANGED <<mu, buffer_waiters, worker, queue, inserts, samples>>

ResetSignals(c) ==
    /\ client[c].pc = "reset_signal"
    /\ memory' = [memory EXCEPT !.freed = @ + memory.shared, !.shared = 0]
    /\ SignalWorker
    /\ client' = [client EXCEPT ![c].pc = "done"]
    /\ UNCHANGED <<table, mu, buffer_waiters, queue, inserts, samples,
                   extension>>

\* Close, by itself and as the first part of the destructor.
Close(c) ==
    /\ client[c].pc \in {"close", "destroy"}
    /\ queue' = [queue EXCEPT !.stop = TRUE]
    /\ SignalWorker
    /\ client' = [client EXCEPT ![c].pc =
                        IF @ = "close" THEN "done" ELSE "destroy_stop"]
    /\ UNCHANGED <<table, mu, buffer_waiters, inserts, samples, extension,
                   memory>>

\* ~Table tells the extension worker to stop and wakes everyone,
DestroyStopsExtension(c) ==
    /\ client[c].pc = "destroy_stop"
    /\ mu = "free"
    /\ buffer_waiters' = {}
    /\ extension' = [extension EXCEPT
                        !.stop = TRUE,
                        !.pc = IF @ = "asleep" THEN "woken" ELSE @]
    /\ client' = [client EXCEPT ![c].pc = "join"]
    /\ UNCHANGED <<table, mu, worker, queue, inserts, samples, memory>>

\* and joins the two threads.
DestroyJoins(c) ==
    /\ client[c].pc = "join"
    /\ worker.pc \in {"exited", "failed"}
    /\ extension.pc = "exited"
    /\ client' = [client EXCEPT ![c].pc = "destroyed"]
    /\ UNCHANGED <<table, mu, buffer_waiters, worker, queue, inserts, samples,
                   extension, memory>>

\* The steps of a call that has begun.
ClientStep(c) ==
    \/ MutateItem(c)
    \/ MutateResumes(c)
    \/ MutateUnlocks(c)
    \/ MutateSignals(c)
    \/ Reset(c)
    \/ ResetSignals(c)
    \/ Close(c)
    \/ DestroyStopsExtension(c)
    \/ DestroyJoins(c)
    \/ client[c].pc = "mutate_wait" /\ WaitAgain(c)

-----------------------------------------------------------------------------

\* A failed REVERB_CHECK ends the process and with it every thread.
Running == worker.pc # "crashed"

Next ==
    /\ Running
    /\ \/ TableWorker
       \/ ExtensionWorker
       \/ \E i \in InsertRequests :
             InsertOrAssignAsync(i) \/ InsertOrAssignTimesOut(i)
       \/ \E s \in SampleRequests : EnqueSampleRequest(s) \/ DeadlinePasses(s)
       \/ \E c \in Clients : StartCall(c) \/ ClientStep(c)

Spec == Init /\ [][Next]_vars

\* Threads keep running, a started call goes on, and time passes.  Nothing
\* makes a client start a call.
Fairness ==
    /\ WF_vars(Running /\ TableWorker)
    /\ WF_vars(Running /\ ExtensionWorker)
    /\ \A s \in SampleRequests : WF_vars(Running /\ DeadlinePasses(s))
    /\ \A c \in Clients : WF_vars(Running /\ ClientStep(c))

FairSpec == Spec /\ Fairness
=============================================================================
