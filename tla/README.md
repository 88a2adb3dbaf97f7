# Verification of Reverb

Reverb is a server for experience replay. Clients write trajectories into
tables; learners sample items from them. A *table* holds items, decides through
a *rate limiter* when inserts and samples may proceed, and chooses items through
two *selectors* (one for sampling, one for removal). Around the tables there is a
gRPC service with bidirectional streams, client libraries that chunk and send
data, and a checkpointer.

This directory holds TLA+ modules that model the program, TLC configurations
that check small instances of them, and TLAPS proofs for all values of the
constants. `PROJECT.json` lists components, runs, faulty variants, the source
lines behind each definition, the hazards of the code and the theorems.

All source paths below are relative to `src/reverb/cc/` unless they say
otherwise; `T` is `table.cc`.

## 1. Inventory

| Component | State | Operations | Interaction | What makes it correct |
|---|---|---|---|---|
| RateLimiter | counters `inserts_`, `samples_`, `deletes_` | Insert, Delete, Reset, CanInsert, CanSample, MaybeCommitSample | a value guarded by the table's `mu_` | the cursor stays between `min_diff` and `max_diff`; inserts and samples are never both blocked |
| Table: guarded state | `data_`, `sampler_`, `remover_`, `episode_refs_`, counters, `extension_requests_` | InsertOrAssignInternal, DeleteItem, UpdateItem, SampleInternal, Reset | `mu_` | structures agree; size and sample limits; references per episode are exact |
| Table: worker and public methods | `pending_inserts_`, `pending_sampling_`, `stop_worker_`, the locals of `TableWorkerLoop` | InsertOrAssign(Async), EnqueSampleRequest, MutateItems, Reset, Close, destructor | `worker_mu_`, then `mu_`; `wakeup_worker_`; callbacks on an executor | each request answered once, with the right status; no request waits for ever without a reason |
| Table: extension worker | its batch, `extension_worker_sleeps_`, `deleted_items_` | ExtensionsWorkerLoop, ExtensionOperation, WaitForBackgroundWork | two condition variables on `mu_`; `worker_mu_` for the hand-over of items | extensions see inserts and deletes in order; the queue is bounded; items are released once |
| Item selectors | key → priority in a vector, heap or sum tree | Insert, Delete, Update, Sample, Clear | called under `mu_` | the structure represents the map |
| ChunkStore | weak map of chunks | Insert, Get | shared by tables and streams | a chunk lives as long as something refers to it |
| TaskExecutor, UnboundedQueue | queue of callbacks, threads | Schedule, shutdown | the table schedules, a pool runs | each task runs once, in order |
| Queue | ring buffer, reservations, `closed_` | Reserve, Push, PushBatch, Pop, Close | sampler workers and the reader | no slot is lost, none is overwritten, nothing is delivered twice |
| ReverbServerReactor, ReverbServiceImpl | per stream: requests, responses, pending tasks | OnReadDone, OnWriteDone, OnCancel, callbacks of the table | gRPC threads and table callbacks | one Finish, responses in order, reading resumes after back-pressure |
| Sampler | workers, active sample, number of requested samples | GetNextSample, GetNextTrajectory, Close | gRPC streams, Queue | no more samples than asked for, errors are seen by the reader |
| TrajectoryWriter, StreamingTrajectoryWriter, Writer | pending and in-flight items, chunks, stream | Append, CreateItem, Flush, EndEpisode, Close | stream worker, reader callbacks, reconnects | every item is confirmed once in spite of broken streams |
| Chunker, StructuredWriter | cells, keep-alive references, patterns | Append, Flush, Reset | inside a writer | a chunk holds the cells that refer to it |
| TFRecordCheckpointer | files | Save, LoadLatest, LoadFallbackCheckpoint | filesystem | a complete checkpoint survives a crash |
| Client, Server, Python layer, TensorFlow ops, statistics, conversions, PeriodicClosure, TaskWorker | caches and adapters | forwarding | – | – |

What is hard in this code, and hard to test: two mutexes with a fixed order and
condition variables that are signalled under the *other* mutex; a method that
gives `mu_` up in the middle of a logically atomic operation
(`WaitForBackgroundWork`); two worker threads that depend on each other when
they shut down; batches of requests with deadlines that pass at any stage;
streams that break with items in flight; a process that dies between two steps
of a checkpoint. `PROJECT.json` lists these hazards line by line.

## 2. Plan

1. **RateLimiter, TableState, Table** with their properties and proofs: the heart
   of the server. *Done.*
2. **Queue, sample reactor and Sampler**, composed over streams that break, and
   `SampleSource`, the promise they implement. *Done.*
3. **Insert reactor, Chunker and the writers** (TrajectoryWriter,
   StreamingTrajectoryWriter, Writer, StructuredWriter), composed over streams
   that break and a table that pushes back. *Done.*
4. **Selectors as algorithms** and **TFRecordCheckpointer** with crashes, together
   with the checkpoint methods of `Table`. *Done.*
5. **Theorems**: types, structure, limiter, requests, items, sample counts and
   episode references of `Table`; types, reservations, Close, order and the
   refinement of `SampleSource` for the Sampler; what the server finds, when it
   reads, and what becomes of items and references, for all writers. *Done.*
   Still to come: the budget of the Sampler (`BudgetExact`), which needs what a
   complete sample is on every stretch of its way (section 5).
6. **An abstract table** on which insert, sample, delete and reset are single
   steps, with `Table` as its implementation (a mapping that shows an eviction
   that waits as done). The drift results below say how far such a mapping can
   go: it cannot hold for Reset, as run `empty` shows.

## 3. Modules

| Module | Content |
|---|---|
| `RateLimiter` | the limiter's counters and conditions as functions on a record |
| `TableState` | the record of everything `mu_` guards, and the private methods of `Table` as functions on it |
| `Table` | the threads: table worker, extension worker, clients; one action per critical section or per part of one between two waits |
| `TableProperties`, `MCTable` | what a table promises; values for constants |
| `TableProofs` | lemmas about the functions of `TableState` and `RateLimiter`; theorems about `Table`: types, agreement of structures, size, limiter; requests; items and extensions; sample counts and episodes |
| `Queue` | `support/queue.h`: the ring with reserved slots |
| `ServerReactor` | `reverb_server_reactor.h`: the server side of any stream |
| `SampleReactor` | the reactor of SampleStream in `reverb_service_impl.cc` |
| `Sampler` | `sampler.{h,cc}`: workers, consumer, Close, streams and their servers; extends `Queue` and `SampleReactor` |
| `SampleSource` | what the code of a Sampler promises its consumer, as an abstract specification; less than the comment on Close says (section 7) |
| `SamplerProperties`, `MCSampler` | properties, the refinement mapping; instances |
| `FoldFacts` | lemmas for `SamplerProofs`: induction over `FoldLeft`, for any loop body |
| `SamplerProofs` | theorems about the Sampler: types, exclusive writes, reservations, Close; order of the samples, and the refinement of `SampleSource` |
| `Chunker` | `chunker.{h,cc}`: cells, chunks, references |
| `InsertReactor`, `InsertStream` | the reactor of InsertStream, with the table's insert queue; the streams between it and a writer |
| `TrajectoryWriter`, `StreamingTrajectoryWriter`, `Writer`, `StructuredWriter` | one writer each; the first three extend `Chunker` and `InsertStream` |
| `Writers` | the writers by INSTANCE, one of which is chosen by `Init`; all meet the same server |
| `WritersProperties`, `MCWriters` | properties; instances |
| `InsertStreamProofs` | what a server makes of the streams of any writer; lemmas about chunkers |
| `TrajectoryProofs`, `StreamingProofs`, `WriterProofs` | the invariant of each writer with its servers |
| `WritersProofs` | theorems about all writers |
| `Selectors`, `SelectorUse` | the selectors as algorithms; one selector under any calls beside an account of what it was told |
| `Checkpointer` | `platform/tfrecord_checkpointer.cc`, the checkpoint methods of `table.cc` and `Initialize`; extends `TableState` and `Selectors` |
| `Storage` | the two above side by side |
| `StorageProperties`, `MCStorage` | properties; instance |

`Table` extends `TableState`, which extends `RateLimiter`: a limiter and the
guarded data have no thread of their own. In the same way `Queue`, the reactors
and `Chunker`, whose methods all run under one mutex, are functions on a record,
and the modules with threads apply them. `Checkpointer` uses the very functions of
`TableState` that `Table` uses and the theorems are about.

### The table: how state and actions correspond to the code

* **`table`** is a record with one field per member: `data`, `sampler`,
  `remover`, `episode_refs` (0 for an episode that is not in the map),
  `num_deleted_episodes`, `num_unique_samples`, `limiter`,
  `extension_requests`. A selector is the map from key to priority it was given.
  Which key `Sample()` returns is open, so the model covers every selector.
  A selector may reject a priority (Prioritized rejects negative ones).
* **`mu`** is the owner of `mu_`, **`buffer_waiters`** the threads that wait on
  `extension_buffer_available_cv_`. A section of `worker_mu_` or
  `async_extensions_mu_` is one step; a section of `mu_` may be several steps,
  during which `mu` is held. The worker waits for `mu_` with `worker_mu_` in hand
  when it sends a partial batch (T:370); since nobody takes `worker_mu_` while
  holding `mu_`, this only delays other threads, and the model lets them go on.
* **`worker`** holds the locals of `TableWorkerLoop` (T:237–424): the rest of
  the current batches, `rate_limited`, `to_terminate`, whether there was
  progress, and where the thread is. `pc` is the section or the wait it is in:

  | `pc` | code | actions |
  |---|---|---|
  | `insert` | T:263–286 | WorkerSkipInsert, WorkerInsert, WorkerAssign |
  | `evicted`, `updated`, `registered` | the three waits inside InsertOrAssignInternal | WorkerEvicted, WorkerUpdated, WorkerRegistered |
  | `sample`, `sampled` | T:287–320 and the wait of SampleInternal | WorkerSample, WorkerSampled, WorkerEndLoop |
  | `serve` | T:327–387 | WorkerStops, WorkerContinues, WorkerExpires, WorkerSleeps |
  | `asleep` | T:385 | woken by SignalWorker or WorkerWakesOnDeadline |
  | `terminate` | T:389–401 | WorkerTerminates |
  | `drain`, `cancel`, `exited` | T:404–424 | WorkerDrains, WorkerCancels |
  | `failed` | a `REVERB_RETURN_IF_ERROR` of T:273 | none: the thread is gone |
  | `crashed` | a failed `REVERB_CHECK` in `Sample()` | none: the process is gone |

* **`queue`** is what `worker_mu_` guards; **`inserts`** and **`samples`** record
  what became of each request. An answer is given at the moment its callback is
  scheduled.
* **`extension`** is `ExtensionsWorkerLoop` (T:426–503) and the keys an
  asynchronous extension with OnInsert and OnDelete has been told of.
  **`memory`** counts items between DeleteItem and their release: the worker's
  list, `deleted_items_`, released.
* **`client`**: a client makes one call of MutateItems, Reset, Close or the
  destructor, section by section. Inserts and samples are enqueued at any time.
  The destructor is called when no other call is under way.
* **Time.** A deadline passes at any moment after its request was enqueued.

### The sampler

* A **worker** is a thread in `RunWorker` and `FetchSamples` (`sampler.cc:197`
  for gRPC, `:340` for a table of the same process, `:650` for the loop).
  Its `pc` names where it may be delayed: `idle` (waiting for budget), `fetch`
  (no stream yet, or asking a local table), `reserve` (waiting for slots),
  `read`, and the return to `RunWorker`.
* A **stream** is what both ends see: the request on its way, the reactor of the
  server with its queue of responses and the responses on the wire, and how the
  transport ended it. `Break` ends any open stream at any time; the client then
  reads UNAVAILABLE and the server's `OnCancel` and `OnDone` run. The **table**
  behind a reactor or a local worker is a callback that comes at any later time
  with some of the samples it was asked for, or with a timeout.
* The **consumer** calls `GetNextTimestep` or `GetNextTrajectory`; the **closer**
  calls `Close` and cancels the workers one by one, then closes the queue.
* Data: a sample is its number in the order of drawing; how many chunks it has and
  which of them fill a response decide where `ProcessSample` cuts.

### The writers

* A **cell** is a record of chunk key, offset, episode and step; the last two stand
  for the tensor. A **request** is the chunks, items and keys to keep of one
  `InsertStreamRequest`; a response the confirmed keys. Keys are made of a counter,
  in place of a random number.
* The critical sections of `mu_` and the calls of gRPC are the steps of
  TrajectoryWriter, with its stream worker (`trajectory_writer.cc:297` and
  `:600`), the callbacks of its reactor, the client's thread and a thread that
  calls Close. The other two write in the client's thread and read confirmations
  in a worker; each write is a step.
* The **server** is `InsertReactor`: it saves chunks, looks up those of each item,
  releases what it is not told to keep, inserts into the table and stops reading
  when the table's queue is full. The table inserts from its queue at any time
  and calls back.
* **StructuredWriter** is a layer above a ColumnWriter, seen through its
  interface; `Structured!ItemsOf` is the reference: which items a config defines
  on the whole history of an episode. Every error return is there: the
  ColumnWriter may refuse any Append or AppendPartial; a column that it takes a
  second time in a step ends AppendInternal with the columns before it updated; an
  item for a table with another signature ends ApplyConfigs, and with it
  EndEpisode before the episode ends; EndEpisode of the ColumnWriter may time out.
* `Decode` reads the slices of an item as `support/trajectory_util.cc` does.
* Faults: a stream breaks with UNAVAILABLE, which writers recover from, or with
  UNKNOWN, which they do not; what was under way is lost, in either direction.

### Selectors and checkpoints

* A selector is the record of its members. `Sample` is not one key but the weight
  with which each key is returned, so that "in proportion to its priority" is an
  equation. In `SelectorUse` an arbitrary sequence of calls meets one selector,
  and `told` keeps what a caller knows.
* `Checkpointer` has one action per file of a checkpoint: directory, `tables`,
  `items`, `chunks`, DONE, then one per file of an older directory, in any order,
  since DeleteRecursively goes by the listing of the directory, and one for the
  directory itself once it is empty. `Crash` stops the process between any two
  of them; `Start` is `Initialize`: LoadLatest, then the fallback, then an empty
  table. Tables operate meanwhile through the functions of `TableState`, and an
  eviction has a second step, as in `Table`.

Definitions marked *Mutant* or named *Faulty...*, placed before the definition they
vary, are plausible mistakes in the code at that place. Each property of a passing
run is violated when the definition named in `PROJECT.json` is replaced by its
faulty form, so each one depends on what the code does.

## 4. Runs

Deadlock is not checked because a table may come to rest (clients stop calling,
or the table is closed), a writer or a sampler may be done, and bounded streams and
restarts run out. That nobody is stuck is stated as liveness for the table, and by
`WaitingConsumerIsServed`, `CloseReachesEveryWorker`, `ReadingResumes` and
`ReferencesAreUsable` for the others. Safety runs of the table use the symmetry of insert requests and of
clients: they differ only in their items and calls, which `Init` and `StartCall`
choose freely; `storage` uses that of the threads that save. No liveness run uses
symmetry.

| Run | Instance | Shows |
|---|---|---|
| `data` | 3 inserts, 1 batch of 2 samples, 1 MutateItems call or the destructor, 3 keys, size 2, each item sampled twice at most, 3 samples for 2 inserts | size, sample limit, limiter, extensions and episode references stay right when every wait is taken; `NeverSamplesEmptyTable` holds without Reset |
| `reset` | 2 inserts, 1 batch of 2 samples, 2 clients out of Reset, delete, update, rejected update; size 1, items sampled once | structures agree, the limiter drifts by at most one, items are released once, extensions follow |
| `live` | 2 inserts, 2 sample requests (batch of 2 and of 1), one with a deadline and one without, Close; table of 2 items, inserts at most one ahead of samples | every request is in one place until it is answered once; answers fit the samples; no null request is looked into; `rate_limited` is true only for requests that waited; nothing the limiter allows waits for ever, deadlines are met, Close answers all |
| `calls` | 2 inserts (one blocking), MutateItems of two keys or Reset | calls that may wait for the extension worker return |
| `empty` | as `reset`, without rejected priorities | violation, see section 7 |
| `wakeup` | 2 inserts and one Reset | violation, see section 7 |
| `destroy` | 3 inserts and the destructor | violation, see section 7 |
| `sampler` | one gRPC worker with 2 samples in flight, or two local workers with one each; 2 streams, 3 samples of which one comes in two responses and does not fit the signature; a budget of 2; timeouts, breaks, Close | reserved slots are those the workers hold and never exceed the ring; the budget is exact; a consumer that waits has somebody to wait for; samples of a worker keep their order; one write at a time; Close reaches every worker; the whole implements `SampleSource` |
| `writers` | each writer with 3 or 4 steps, 1 or 2 items, 2 streams (TrajectoryWriter with 2 items and partial steps in one episode, and tuning itself with 1 item over two episodes), a table whose queue holds one insert; chunks of 2 cells, the second chunk a large one; five patterns over two columns, the last of which is for a table that refuses its items | the server never misses a chunk; no accepted item is forgotten; reading resumes; references stay usable; items denote their cells; patterns give exactly the items they define |
| `strided` | TrajectoryWriter with chunks of 3 cells and items of every second cell | violation, see section 7 |
| `overlong` | Writer as in `writers`, with items of one and of two timesteps | violation, see section 7 |
| `storage` | 6 selectors with 6 inserts and 2 other changes each; a table of 2 items with 3 keys and 2 priorities (one of them rejected), 2 operations, 2 Saves by 2 threads, 2 restarts, with or without a fallback checkpoint | selectors draw with the right weights and heaps are in order; a saved checkpoint is found; a restored table is the saved one; a server starts again; the limiter counts items up to unregistered inserts |

**Bounds.** A table of size 1 or 2 with one more key evicts; keys come from a set
smaller than or equal to the number of inserts, so both assignment to a known key
and new keys occur. `MaxEnqueuedExtensionOps` is 1: an eviction (insert and
delete requests) overflows the queue, and so every wait in
`WaitForBackgroundWork` is both taken and passed. Batches of 2 under a limiter
that allows fewer give partial batches. A request with a deadline beside one
without gives a list with a nullptr before or behind a live request; that the worker
also steps over several of them is `NullSafety` (section 5). Every action fires in
some passing run. Two clients besides the two workers are enough for every
pair of calls to meet in every window; more clients repeat the same pairs. The
theorems below do not depend on these bounds.

Of the sampler, a queue of two slots with a worker that asks for two and then for
one makes reservations carry over, and two streams let a broken or timed out one be
followed by another; a third sample is one more than the budget, so a sample
lost with a stream can be replaced. Of the writers, four cells are two chunks, so
items reach over a boundary, a flush can cut a chunk short and the oldest cells
expire from the window of three; two items share chunks, and two streams let
everything be sent again once. Six inserts into a heap or sum tree give it three
levels, so that a removal moves elements up as well as down. A missing move up does
not reach the root within two changes, so `SelectorsDrawRightly` asks for the order
of the whole heap (`HeapOrdered`); its faulty variant is a removal without that move. Two Saves with
`keep_latest` 1 (what the service passes) delete one checkpoint and let a crash
come at each step of the deletion; two restarts let a checkpoint be made by a
server that was itself restored. The largest runs are `writers` (2.2 million states,
about three minutes), `storage`, `live` and `data` (about two minutes each).

**Fairness** (`FairSpec`). The two worker threads keep running, a call that has
begun goes on, and time passes (weak fairness of `TableWorker`,
`ExtensionWorker`, each `ClientStep(c)` and each `DeadlinePasses(s)`). Weak
fairness is what an operating system's scheduler gives a thread that can run.
A thread that needs `mu_` is enabled only while it is free; no run needs a strong
fairness on locks, because the workers come to rest between requests. Nothing
makes a client start a call, so no property relies on somebody else's insert or
sample. A condition variable wakes only when it is signalled or its deadline
passes; spurious wakeups, which the library permits and does not promise, are
left out.

## 5. What is proved

Eight modules with theorems are checked by TLAPS to the last leaf. Assumptions are
the named ones of the modules: types of the constants, finitely many keys and
episodes, positive sizes, positive `samples_per_insert` (the constructor's checks), the value `None`
different from items and priorities, and thread names different from clients. For
the Sampler: what `Options::Validate` demands, samples and streams numbered by
positive integers without a gap among the samples, a table that answers with one of
the four errors the code tells apart, and at least one chunk per sample.

### The table

* **Types and agreement.** `TypeInv` is `TypeOK`, `SelectorsMatchData` and
  `WorkerHolds`: the request that the worker is in the middle of is still in its
  batch. The last is needed because the worker takes the head of its batch after
  a wait; agreement of the selectors is needed because a sampled key indexes
  `data_` without a test (T:719). `TypeSafety` and `SelectorsSafety` follow.
* **Limiter and size.** `LimiterInv` adds `SizeWithinBound`,
  `LimiterDriftBounded`, `CursorWithinDiffs` and two strengthenings.
  `RightToInsertKept`: while an eviction waits, `CanInsert` still holds, because
  all that others can do in that window is delete or reset, and both only relax
  the condition. It is what `CursorWithinDiffs` needs, since the insert is
  counted after the wait on the strength of a test made before. `ExactDrift`:
  without Reset the limiter's size is exact outside that window and one too low
  inside. `SizeSafety`, `DriftSafety` and `CursorSafety` follow.
* **`ProgressSafety`** (`NeverBothBlocked`) rests on a fact about the limiter
  alone, `LimiterNeverBlocksBoth`: with a buffer of at least
  `2 * max(1, samples_per_insert)`, whatever the counters are, one of the two
  operations is allowed. It makes precise the check in
  `src/reverb/rate_limiters.py`.
* **`SampleSafety`** (`NeverSamplesEmptyTable`): if no client calls Reset, or
  `min_size_to_sample` is at least 2, the worker never samples from an empty
  selector. Run `empty` shows that the hypothesis cannot be dropped: after a
  Reset the drift may be one, which a minimum size of two absorbs.

* **Requests** (`RequestInv`). `InLine` says of the lists
  of queue and worker, and of the set of expired requests, that they hold exactly
  the enqueued requests between them, each once; nullptrs that deadlines leave
  behind do not count. The parts beside it: `BatchesFit` (a request in line has
  room for another sample, except the one just sampled for, which is why a batch
  is never overfilled after the wait in SampleInternal), `HeadIsRequest` (the
  worker stops at a request, not at a nullptr) and `BatchHasSlept`. The four
  theorems on requests and `AnswersFinality`, an action property, follow.
* **Items and extensions** (`ItemInv`). Each function on the
  table is shown to keep two books: `Follows` (an extension that knew the keys
  of the table once all requests are processed knows them again afterwards)
  and `Balances` (items in the table and releases on their way change by what was
  taken in). Both quantify over every batch that the extension worker may have in
  hand at that moment, so the same lemma serves every interleaving with it.
  Reset tells nobody key by key: it waits until the extension worker sleeps, so no
  request is on its way when table and extension forget everything.
* **Sample counts and episodes**. `Changed` lists how one step
  may change the table, for all actions at once; `Limited` and `RefsExact` are
  shown for each alternative. The sum over items behind `EpisodeRefsExact` is stated
  as the cardinality of a set of chunks, one for each reference, so that adding and
  dropping an item are unions of disjoint sets and no induction over the sum is
  needed.

The first lemmas of `TableProofs` say of each function on the guarded state what
it returns, which fields it leaves alone, how the number of items changes, and
that agreement of the structures is kept. Each `...Type` and `...Limiter` lemma
covers one action or a group that touches the same variables.

### The sampler

* **Loops.** ProcessSample, SamplingDone and FetchSamples loop over chunks, samples
  and entries of a response; the model has folds in their place. The lemma
  `FoldInvariant` shows that what the body of such a loop keeps is kept by the fold. It is stated
  for a constant operator `Op`, and each loop body is a named operator that an
  INSTANCE of `FoldFacts` puts in its place.
* **Types and writes** (`TypeInv` in `SamplerProofs`): beside the types, what a
  worker holds where it is (`Placed`), and for every reactor `Exclusive`: no
  CHECK has failed, a response being written is the first of the list and the very
  one that was handed to StartWrite. The loops are where this could go wrong:
  `Grown` says of the list of responses that packing changes nothing before the
  last one, and not that one if it is being written.
* **Reservations.** `ReservationsMatch` is inductive given the types: each step of
  a worker changes the queue's count by what it changes its own (`Reserves`), and
  a push takes as many slots as it fills. The sum over the workers is again a
  number of tokens.
* **Close** (`CloseInv`): a worker that has been cancelled has `closed_` set and a
  stream, if any, that has ended; a worker opens no stream once it is cancelled.
* **Order** (`OrderInv`). Along its way a sample is in the
  list of responses, on the wire, among `parts_of_next_sample`, in the ring
  buffer, or with the consumer. `StreamsOrdered` and `PartsOrdered` say that on
  the first three the entries of a worker are in the order of drawing and in front
  of everything behind; `QueueOrdered` that each queued sample is behind what was
  issued (`Precedes`) and that its worker can read nothing older any more
  (`Passed`); `OutOrdered` the same of what the consumer has. The entries a
  stream may still bring are those on the wire and in the responses after the
  first, since the first has been written. That a ring buffer with reserved slots
  does not overwrite a queued sample (`PushSlots`) rests on `ReservationsMatch`.
  `OrderSafety` follows.
* **Refinement.** `CountInv` says why the queue is closed, and that what was
  delivered is `returned_`, plus one while a trajectory is between Pop and the
  count. With it every step is a step of `SampleSource` or leaves its variables
  alone; that a delivered sample is new comes from `OrderInv`. `SampleSource` has
  no fairness, so this is all of `ImplementsSource`.

### The writers

`WritersInv` puts together, by the kind of writer that `Init` chose, one invariant
for each writer; they share `ServerInv`, the invariant of the streams, the
reactors and the table, and the lemmas about chunkers.

* **The server** (`ServerInv` in `InsertStreamProofs`). What the server will make of
  a request depends on what it has read before. `Chain` says of the requests on
  the wire that each can be understood when those before it have been read, and
  `Reaches` which chunks the server will then have; the lemmas show that reading,
  inserting, writing, cancelling and breaking keep this, for any request that
  fulfils `Link` when it is sent. `WaitsForInsert`, the body of `ReadingResumes`,
  is inductive with it: a reactor stops reading only when the table did not take
  the last of its own inserts at once, and inserts are completed in their order.
* **TrajectoryWriter** (`TrajectoryInv`). `Knows`: what the worker of the writer
  believes to have streamed is what the server will have (`Reaches`), which fails as
  soon as a stream is replaced and the worker forgets one thing too few.
  `HasFront`: the item whose references the worker sends is still the first of the
  queue, although the client appends to it. `ItemsOk`: cells of items on the books
  are `Usable` by the chunker, whatever the options are changed to. `Booked` is
  `NothingLostSilently`.
* **StreamingTrajectoryWriter** (`StreamingInv`). `Sends` follows one call of the
  client through its requests: what is still to be written is understood after
  what has been. `RefsOk`: chunks that were moved out of the references are on the
  stream, or among the requests of the call that moves them.
* **Writer** (`WriterInv` and `Counted` in `WriterProofs`). It does not know which
  items are in flight, it only counts, and it counts an item after the write,
  when the confirmation may have been read already. So `NothingLostSilently` needs
  an argument about all items at once. `Counted`: there is a number `c` of items
  that are confirmed and a number `n` of items that were sent; the items from
  `c + 1` to `n` are, in this order and each once, in the responses on the wire,
  the responses the reactor has not sent, the queue of the table and the requests
  on the wire (`Line`); and pending, counted and about to be counted items are
  together those after `c` (`Books`). A missing item then is one of the last
  ones, and there are no more of these than the writer counts. A stream that
  breaks leaves a gap in no place but the end.

The three assumptions are those of `InsertStream` and `Writers`: options that the
constructors accept (`ValidOptions`), positive lengths, and statuses of a broken
stream that are errors.

### Only model-checked

* `BudgetExact` and `WaitingConsumerIsServed`: a response that does not make a
  complete sample would be counted as fetched and not pushed. That it does not come
  depends on the number of chunks of a sample in all entries of all responses that
  are on their way, which the order invariant above does not count.
* `ItemsDenoteCells` and `PatternsExact`: what a chain of recursive definitions over
  slices and patterns computes. The first of them is not even true for all values
  of the constants, as run `strided` shows, and leaves out the items of run
  `overlong`, whose slices name cells that do not exist.
* Everything about the selectors and the checkpoints. `Selectors` has RECURSIVE
  operators, which keeps the provers away from `Checkpointer` too.
* All liveness, since the prover has no rules for fairness and ENABLED.

## 6. What is not modelled

* `CheckItemValidity` (T:572), an early return without a change of state.
* Response sizes in bytes: `WorkerSampled` may complete a batch at any length,
  which covers every value of `kMaxSampleResponseSizeBytes`.
* The error for a missing episode in DeleteItem (T:823): `EpisodeRefsExact`
  says that it is not reached. For the same reason of agreement a DeleteItem
  inside SampleInternal has no error path.
* Synchronous extensions, which run inside the calling method and keep no state
  of the table; statistics; `closed_`, which is written and never read.
* The branches for a table without an extension worker (T:870, T:890, T:912): the
  constructor always starts both workers (T:182).
* Callbacks: the answer counts when it is scheduled. What the executor does is
  part of the plan.
* Sampler: errors of a malformed request (unknown table, no samples), which end a
  stream like any error of the table; the content of tensors beyond "fits the
  signature or not"; backoff, which is a delay. After `SetReactorAsFinished` a
  reactor may still ask the table for samples (`reverb_service_impl.cc:530`); the
  model has this, and nobody receives them.
* Writers: several columns in one TrajectoryWriter (the chunkers are independent;
  StructuredWriter has two columns), the score of the auto-tuner (any change its
  rules allow may come), `AppendUncompressed`, compression, and the data race on
  `chunkers_` between Append and the worker's reads of it.
* StructuredWriter: `ComputeTDError`, which fills in a number, and building configs;
  failures of CreateItem in the inner writer for other reasons than the signature.
  An inner writer whose step advanced although its Append failed is seen as one that
  refuses what comes next.
* Selectors: rounding of floating point sums and `ReinitializeSumTree`, which
  corrects it; growth of vectors.
* Checkpoints: deprecated formats, damage inside a file, the retry with another
  compression beyond its effect (`LoadWithCompression` decides which), a clock that
  goes backwards between two Saves.
* Liveness of sampler and writers: a stream that keeps breaking, or a table that
  answers nothing, stops them for ever, so only the invariants above are stated.
* Queue's PopBatch and SetLastItemPushed, which only its tests call; ChunkStore's
  weak map, which shares memory; TaskExecutor, TaskWorker, PeriodicClosure, Server,
  Client, statistics, conversions, TensorFlow ops and most of the Python layer, with
  the reasons in `PROJECT.json`; the table's read-only methods (Copy, Get, info).

## 7. Findings

* **`empty`** (T:625). An insert into a full table calls DeleteItem before
  `rate_limiter_->Insert`; DeleteItem may wait for the extension worker, and the
  wait releases `mu_`. A Reset in that window clears table and limiter; the
  insert is then counted for an item that is gone. With a minimum size of 1 the
  limiter lets the worker sample from an empty selector, whose check aborts the
  process. `table.h:519` asks for the wait to come "only at the end of the
  critical section to guarantee atomicity of the operation".
* **`wakeup`** (T:385). Reset and MutateItems change the table under `mu_`, then
  signal under `worker_mu_`. The worker decides under `mu_` that it may not
  insert and waits later under `worker_mu_` without testing again. A signal in
  between is lost, and the insert waits until something else wakes the worker.
  T:943 and `table_test.cc:491` say that Reset unblocks inserts.
* **`destroy`** (T:453). The destructor lets the extension worker exit when its
  queue is empty, while the table worker may still be in its loop. Once that has
  put more requests into the queue than allowed, it waits for a thread that is
  gone, and the join (T:225) does not return.

* **`strided`** (`trajectory_writer.cc:112`). MergeAdjacent makes a slice one longer
  for every further cell of the same chunk, whatever its offset. Cells 0 and 2 of a
  chunk are sent as the slice of cells 0 and 1, and that is what a sampler reads.
  `trajectory_writer.h:114` promises items that "reference arbitrary cells of the
  episode table", with "every second observation" as its example; strided patterns
  of StructuredWriter (`patterns.proto:18`) come to the same code.

* **`overlong`** (`writer.cc:173`). CreateItem compares `num_timesteps` with the
  number of chunks times `chunk_length_` plus the buffer, as if every chunk were full.
  After Flush has cut one short an item may be accepted over more timesteps than
  there are: one timestep, an item of it, Flush, and an item of two passes, with a
  slice whose offset is -1. `src/reverb/client.py:171` and the message at
  `writer.cc:175` promise an error. A table with a signature still refuses when
  fewer timesteps than that were ever appended (`writer.cc:196`).

Facts met on the way, which the properties take as they are:

* Two Saves that overlap can leave no complete checkpoint: the first to finish
  counts the unfinished directory as the newest, and with `keep_latest` 1 deletes
  its own (`tfrecord_checkpointer.cc:261`). A crash in the middle of that deletion,
  when `items.tfrecord` is gone and `tables`, `chunks` and DONE are not, leaves a
  directory that LoadLatest takes for the format without an items file (`:346`): the
  server starts with an empty table and the limiter of the full one.
  `SavedCheckpointIsFound`, `RestoreIsExact` and `LimiterCountsItems` therefore exclude
  overlapping Saves (`~overlapped`); the last two are violated without that.
  Without overlap a half deleted directory is always older than a complete one.
  `checkpointing/interface.h` does not say whether Saves may overlap.
* `sampler.h:295` says of Close that "Any blocking or future call" to a getter "will
  return CancelledError". The code does less (`sampler.cc:621–642`): the rest of a
  sample that was begun is still given out after Close, with OK; a sample that is
  queued can be begun until Close has cancelled every worker and closes the queue; and
  a sampler that has returned all its samples answers OutOfRange, closed or not.
  `SampleSource` states what the code does, and adds that from the end on each
  further call gets the one answer that the state determines.
* In StructuredWriter the InternalError for a column given twice in a step
  ("should never happen", `structured_writer.cc:487`) can be reached: the chunker
  refuses a repeated step only while its buffer is not empty (`chunker.cc:142`), so
  not after the cell has completed a chunk. It leaves the columns before it updated;
  `PatternsExact` ends there.
* A priority that Prioritized rejects stays in `data_` (T:901, T:605), is written to
  the next checkpoint, and makes that checkpoint impossible to load
  (`ServerStartsAgain` names exactly this exception).
* A checkpoint taken while an eviction waits restores a limiter that is one insert
  short (`LimiterCountsItems`). Heaps lose the order among equal priorities.
* A sample that does not fit the signature is not counted as returned
  (`sampler.cc:541`, `:559–574`) but stays counted as requested: a sampler with a budget
  then waits for a sample that no worker will fetch. `WaitingConsumerIsServed`
  excludes this case.
* Writer::Flush with pending items sends them and returns without waiting for their
  confirmation (`writer.cc:314`; `writer.h:88` says it blocks). After a lost stream
  in StreamingTrajectoryWriter the unconfirmed items are never erased, so a later
  Flush waits until its timeout.
* In StructuredWriter a config whose CreateItem fails keeps those after it from
  being applied at that step, and EndEpisode from ending the episode; `PatternsExact`
  speaks of the patterns in front of it.

Three further disagreements between comment and code follow from single lines and
have no run: filling a batch may release `mu_` (T:747, T:842), although
`table.h:320` says "without releasing the lock"; an InsertOrAssign that times out
leaves its request enqueued (T:563), although `table.h:272` says that "no action
is taken"; and after an error of a selector has ended the worker (T:273), a Sample
call does not end at its timeout, although `table.h:306` says so.
