-------------------------- MODULE TrajectoryWriter --------------------------
(***************************************************************************)
(* The TrajectoryWriter (reverb/cc/trajectory_writer.{h,cc}): the thread   *)
(* of the client, which appends cells and creates items, the stream worker *)
(* that sends them, the callbacks of gRPC, and a thread that calls Close.  *)
(* One column; the critical sections of mu_ are the steps.                 *)
(*                                                                         *)
(* Bounds: MaxSteps cells, MaxItems items.                                 *)
(***************************************************************************)
EXTENDS Chunker, InsertStream

CONSTANTS
    ChunkerOptions,     \* the options given to the constructor, and later to
                        \* ConfigureChunker
    LargeChunks,        \* chunks of kMaxRequestSizeBytes and more
    ItemLengths,        \* how many cells the client puts into an item
    Strides,            \* their distance
    ItemTables,         \* the tables the client names
    SignatureTables,    \* those whose signature its items conform to
    Increments,         \* {TRUE}: Append; with FALSE AppendPartial too
    Ignored,            \* values of ignore_last_num_items
    MaxSteps,
    MaxItems,
    MaxEpisodes

VARIABLES
    writer,     \* the members of the class
    worker,     \* stream_worker_ and the locals of RunStreamWorker
    client,     \* the thread that appends, and its call under way
    chunker     \* chunkers_[0]

NoRequest == Request({}, << >>, {})

\* reading, writing: a StartRead or StartWrite whose callback has not come.
\* worker.next: what follows a write.  client.made: the items of CreateItem.
Init ==
    /\ NoStreams /\ EmptyTable
    /\ \E o \in ChunkerOptions : chunker = NewChunker(1, o)
    /\ writer = [write_queue |-> << >>, in_flight_items |-> {},
                 closed |-> FALSE, unrecoverable_status |-> "ok",
                 stream_ok |-> FALSE, write_inflight |-> FALSE,
                 reading |-> FALSE, writing |-> FALSE]
    /\ worker = [pc |-> "connect", stream |-> 0, streamed |-> {},
                 request |-> NoRequest, batch |-> 0, ref |-> 0,
                 next |-> None]
    /\ client = [pc |-> "idle", ignore |-> 0, appended |-> 0,
                 episode |-> 1, step |-> 0, made |-> << >>]

\* data_cv_.Signal()
Signalled == IF worker.pc = "asleep" THEN [worker EXCEPT !.pc = "top"] ELSE worker

-----------------------------------------------------------------------------
(* The stream worker *)

\* Mutant: the keys survive the stream.
FaultyNewStreamed == worker.streamed

\* streamed_chunk_keys, when RunStreamWorker begins.
NewStreamed == {}

SetContextAndCreateStream ==
    /\ worker.pc = "connect" /\ ~writer.closed /\ Unopened # {}
    /\ stream' = Opened(NextStream)
    /\ writer' = [writer EXCEPT !.stream_ok = TRUE, !.reading = TRUE]
    /\ worker' = [worker EXCEPT !.pc = "top", !.stream = NextStream,
                                !.streamed = NewStreamed, !.request = NoRequest,
                                !.batch = 0, !.ref = 0]
    /\ UNCHANGED <<client, chunker, table>>

DoNotConnect ==
    /\ worker.pc = "connect" /\ writer.closed
    /\ worker' = [worker EXCEPT !.pc = "stopped"]
    /\ writer' = [writer EXCEPT !.unrecoverable_status = "cancelled"]
    /\ UNCHANGED <<client, chunker, stream, table>>

\* A batch is the items that wait when it is begun.
WaitForPendingItems ==
    /\ worker.pc = "top"
    /\ writer.write_queue # << >> \/ writer.closed \/ ~writer.stream_ok
    /\ worker' = IF writer.closed \/ ~writer.stream_ok
                 THEN [worker EXCEPT !.pc = "finish"]
                 ELSE [worker EXCEPT !.pc = "refs", !.ref = 1,
                          !.batch = IF @ = 0 THEN Len(writer.write_queue) ELSE @]
    /\ UNCHANGED <<writer, client, chunker, stream, table>>

FrontItem == Head(writer.write_queue)

Sendable(cell) == IsReady(chunker, cell) /\ cell.chunk \notin worker.streamed

IsEmpty(request) == request.chunks = {} /\ request.items = << >>

\* The worker, now w, writes what it has, unless it has nothing, and goes on at
\* next; wr are the members of the class.
WriteIfNotEmpty(w, wr, next) ==
    IF IsEmpty(w.request)
    THEN /\ worker' = [w EXCEPT !.pc = next]
         /\ writer' = wr
         /\ UNCHANGED stream
    ELSE /\ worker' = [w EXCEPT !.pc = "writing", !.next = next]
         /\ writer' = [wr EXCEPT !.write_inflight = TRUE, !.writing = TRUE]
         /\ stream' = Sent(w.stream, [w.request EXCEPT !.keep = w.streamed])

\* The worker has looked at the last reference.
AfterChunks(w) ==
    IF ChunksOf(FrontItem) \subseteq w.streamed
    THEN /\ worker' = [w EXCEPT !.pc = "move"]
         /\ UNCHANGED <<writer, stream>>
    ELSE WriteIfNotEmpty(w, writer, "check")

\* SendNotAlreadySentChunks, one reference; chunks become ready meanwhile.
SendChunk ==
    LET cell == FrontItem.cells[worker.ref]
        sent == IF ~Sendable(cell) THEN worker
                ELSE [worker EXCEPT !.request.chunks = @ \cup {cell.chunk},
                                    !.streamed = @ \cup {cell.chunk}]
        w == [sent EXCEPT !.ref = @ + 1]
    IN  /\ worker.pc = "refs" /\ worker.ref <= Len(FrontItem.cells)
        /\ IF sent # worker /\ sent.request.chunks \cap LargeChunks # {}
           THEN WriteIfNotEmpty(w, writer, "refs")
           ELSE IF w.ref <= Len(FrontItem.cells)
           THEN worker' = w /\ UNCHANGED <<writer, stream>>
           ELSE AfterChunks(w)
        /\ UNCHANGED <<client, chunker, table>>

\* When the last chunk went into a request of its own.
AllChunksSent ==
    /\ worker.pc = "refs" /\ worker.ref > Len(FrontItem.cells)
    /\ AfterChunks(worker)
    /\ UNCHANGED <<client, chunker, table>>

\* The last look at the chunks before the worker sleeps on data_cv_.
CheckAllReady ==
    LET ready == \A i \in DOMAIN FrontItem.cells : IsReady(chunker, FrontItem.cells[i])
    IN  /\ worker.pc = "check"
        /\ worker' = [worker EXCEPT !.pc = IF ready THEN "top" ELSE "asleep"]
        /\ UNCHANGED <<writer, client, chunker, stream, table>>

\* GetKeepKeys: the front of the queue is left out, though the item that is
\* sent with these keys has been taken off the queue already.
KeepKeys(streamed, queue) ==
    streamed \cap
    (GetKeepKeys(chunker) \cup
     UNION {ChunksOf(queue[i]) : i \in DOMAIN queue \ {1}})

\* The item is written with its batch.  OnItemFinalized may tune the chunker.
MoveItem ==
    LET rest == Tail(writer.write_queue)
        w == [worker EXCEPT !.streamed = KeepKeys(@, rest),
                            !.request.items = Append(@, FrontItem),
                            !.batch = @ - 1, !.pc = "top", !.ref = 0]
        wr == [writer EXCEPT !.write_queue = rest,
                             !.in_flight_items = @ \cup {FrontItem}]
    IN  /\ worker.pc = "move"
        /\ IF w.batch = 0 THEN WriteIfNotEmpty(w, wr, "top")
           ELSE worker' = w /\ writer' = wr /\ UNCHANGED stream
        /\ chunker' \in OnItemFinalized(chunker)
        /\ UNCHANGED <<client, table>>

WriteReturns ==
    /\ worker.pc = "writing"
    /\ ~writer.write_inflight \/ writer.closed \/ ~writer.stream_ok
    /\ worker' = [worker EXCEPT
                     !.pc = IF writer.write_inflight THEN "finish" ELSE worker.next,
                     !.request = NoRequest, !.next = None]
    /\ UNCHANGED <<writer, client, chunker, stream, table>>

Transient(status) == status \in {"ok", "unavailable", "cancelled"}

\* Mutant: what was in flight is forgotten.
FaultyRequeued(items) == writer.write_queue

\* Items in flight go back to the front of the queue, in no particular order.
Requeued(items) == items \o writer.write_queue

\* RunStreamWorker returns what Finish waited for, the status of OnDone.
WorkerReturns ==
    LET status == StreamStatus(worker.stream)
    IN  /\ worker.pc = "finish"
        /\ AtEnd(worker.stream) /\ ~writer.reading /\ ~writer.writing
        /\ \/ /\ writer.closed \/ ~Transient(status)
              /\ writer' = [writer EXCEPT !.unrecoverable_status =
                                IF writer.closed THEN "cancelled" ELSE status]
              /\ worker' = [worker EXCEPT !.pc = "stopped"]
           \/ /\ ~writer.closed /\ Transient(status)
              /\ \E items \in SetToSeqs(writer.in_flight_items) :
                    writer' = [writer EXCEPT !.write_queue = Requeued(items),
                                             !.in_flight_items = {}]
              /\ worker' = [worker EXCEPT !.pc = "connect"]
        /\ UNCHANGED <<client, chunker, stream, table>>

-----------------------------------------------------------------------------
(* Callbacks of gRPC *)

OnRead ==
    /\ writer.reading /\ CanRead(worker.stream)
    /\ writer' = [writer EXCEPT !.in_flight_items =
                      {i \in @ : i.key \notin ToSet(Response(worker.stream))}]
    /\ stream' = ReadFrom(worker.stream)
    /\ worker' = Signalled
    /\ UNCHANGED <<client, chunker, table>>

OnReadFails ==
    /\ writer.reading /\ AtEnd(worker.stream)
    /\ writer' = [writer EXCEPT !.reading = FALSE, !.stream_ok = FALSE]
    /\ worker' = Signalled
    /\ UNCHANGED <<client, chunker, stream, table>>

OnWritten ==
    /\ writer.writing
    /\ \/ writer' = [writer EXCEPT !.writing = FALSE, !.write_inflight = FALSE]
       \/ /\ WriteMayFail(worker.stream)
          /\ writer' = [writer EXCEPT !.writing = FALSE, !.stream_ok = FALSE]
    /\ UNCHANGED <<worker, client, chunker, stream, table>>

-----------------------------------------------------------------------------
(* The client *)

Returns(status) == [client EXCEPT !.pc = "idle", !.ignore = 0]

CallFails(status) ==
    /\ client' = Returns(status)
    /\ UNCHANGED <<writer, worker, chunker, stream, table>>

\* AppendInternal outside of its second critical section.
AppendCell(increment) ==
    /\ client.pc = "idle" /\ client.appended < MaxSteps
    /\ \/ /\ writer.unrecoverable_status # "ok"
          /\ CallFails(writer.unrecoverable_status)
       \/ /\ writer.unrecoverable_status = "ok"
          /\ ~MayAppend(chunker, client.episode, client.step)
          /\ CallFails("failed_precondition")
       \/ /\ writer.unrecoverable_status = "ok"
          /\ MayAppend(chunker, client.episode, client.step)
          /\ chunker' = AppendToChunker(chunker, client.episode, client.step)
          /\ client' = [client EXCEPT !.appended = @ + 1,
                            !.pc = IF increment THEN "append" ELSE "partial"]
          /\ UNCHANGED <<writer, worker, stream, table>>

AppendReturns ==
    /\ client.pc \in {"append", "partial"}
    /\ client' = [Returns("ok") EXCEPT
                     !.step = IF client.pc = "append" THEN @ + 1 ELSE @]
    /\ worker' = Signalled
    /\ UNCHANGED <<writer, chunker, stream, table>>

\* The last n cells of the column that lie d apart, if there are that many.
Selection(n, d) ==
    LET refs == chunker.active_refs
    IN  IF 1 + (n - 1) * d > Len(refs) THEN << >>
        ELSE [i \in 1 .. n |-> refs[Len(refs) - (n - i) * d]]

NewItem(t, cells) ==
    [key |-> Len(client.made) + 1, table |-> t, cells |-> cells,
     slices |-> MergeAdjacent(cells)]

\* ItemAndRefs::Validate: the table is known and the tensors fit its signature.
Validate(t) == t \in SignatureTables

CreateItem(t, n, d) ==
    LET item == NewItem(t, Selection(n, d))
    IN  /\ client.pc = "idle" /\ Len(client.made) < MaxItems
        /\ Selection(n, d) # << >>
        /\ \/ /\ writer.unrecoverable_status # "ok"
              /\ CallFails(writer.unrecoverable_status)
           \/ /\ writer.unrecoverable_status = "ok" /\ ~Validate(t)
              /\ CallFails("invalid_argument")
           \/ /\ writer.unrecoverable_status = "ok" /\ Validate(t)
              /\ writer' = [writer EXCEPT !.write_queue = Append(@, item)]
              /\ client' = [Returns("ok") EXCEPT !.made = Append(@, item)]
              /\ UNCHANGED <<worker, chunker, stream, table>>

\* The part of FlushLocked before it waits: unfinished chunks of the items
\* that must be sent are finished.
ForceChunks(ignore) ==
    LET forced == {i \in DOMAIN writer.write_queue :
                       i <= Len(writer.write_queue) - ignore}
        unready == \E i \in forced : \E c \in ToSet(writer.write_queue[i].cells) :
                       ~IsReady(chunker, c)
    IN  IF unready THEN FlushChunker(chunker) ELSE chunker

\* Flush, EndEpisode and the destructor wait in the same way.
WaitFor(ignore, pc) ==
    /\ chunker' = ForceChunks(ignore)
    /\ worker' = Signalled
    /\ client' = [client EXCEPT !.pc = pc, !.ignore = ignore]
    /\ UNCHANGED <<writer, stream, table>>

Flush(ignore) == client.pc = "idle" /\ WaitFor(ignore, "flush")

EndEpisode(clear_buffers) ==
    /\ client.pc = "idle" /\ client.episode < MaxEpisodes
    /\ IF writer.unrecoverable_status # "ok"
       THEN CallFails(writer.unrecoverable_status)
       ELSE WaitFor(0, IF clear_buffers THEN "end_clear" ELSE "end")

Destroy == client.pc = "idle" /\ ~writer.closed /\ WaitFor(0, "destroy")

Flushed ==
    Len(writer.write_queue) + Cardinality(writer.in_flight_items)
        <= client.ignore

Waiting == client.pc \in {"flush", "end", "end_clear"}

FlushReturns ==
    /\ client.pc = "flush"
    /\ Flushed \/ writer.unrecoverable_status # "ok"
    /\ CallFails(writer.unrecoverable_status)

EndEpisodeReturns ==
    /\ client.pc \in {"end", "end_clear"}
    /\ \/ /\ writer.unrecoverable_status # "ok"
          /\ CallFails(writer.unrecoverable_status)
       \/ /\ writer.unrecoverable_status = "ok" /\ Flushed
          /\ chunker' = IF client.pc = "end" THEN FlushChunker(chunker)
                        ELSE Reset(chunker)
          /\ client' = [Returns("ok") EXCEPT !.episode = @ + 1, !.step = 0]
          /\ UNCHANGED <<writer, worker, stream, table>>

TimesOut == Waiting /\ CallFails("deadline_exceeded")

CloseWriter ==
    /\ writer' = [writer EXCEPT !.closed = TRUE]
    /\ stream' = IF worker.stream = 0 THEN stream ELSE TryCancelled(worker.stream)
    /\ worker' = Signalled

\* From any thread.
Close ==
    /\ ~writer.closed /\ CloseWriter
    /\ UNCHANGED <<client, chunker, table>>

\* The destructor waits for ever, and then closes.
DestroyReturns ==
    /\ client.pc = "destroy"
    /\ Flushed \/ writer.unrecoverable_status # "ok"
    /\ client' = [client EXCEPT !.pc = "destroyed"]
    /\ IF writer.closed THEN UNCHANGED <<writer, worker, stream>> ELSE CloseWriter
    /\ UNCHANGED <<chunker, table>>

ConfigureChunker(o) ==
    /\ client.pc = "idle" /\ client.appended > 0
    /\ IF MayApplyConfig(chunker, o)
       THEN /\ chunker' = ApplyConfig(chunker, o)
            /\ client' = Returns("ok")
            /\ UNCHANGED <<writer, worker, stream, table>>
       ELSE CallFails("failed_precondition")

-----------------------------------------------------------------------------
WorkerNext ==
    \/ SetContextAndCreateStream \/ DoNotConnect \/ WaitForPendingItems
    \/ SendChunk \/ AllChunksSent \/ CheckAllReady \/ MoveItem
    \/ WriteReturns \/ WorkerReturns

CallbackNext == OnRead \/ OnReadFails \/ OnWritten

ClientNext ==
    \/ \E increment \in Increments : AppendCell(increment)
    \/ AppendReturns
    \/ \E t \in ItemTables, n \in ItemLengths, d \in Strides : CreateItem(t, n, d)
    \/ \E ignore \in Ignored : Flush(ignore)
    \/ \E clear_buffers \in BOOLEAN : EndEpisode(clear_buffers)
    \/ \E o \in ChunkerOptions : ConfigureChunker(o)
    \/ FlushReturns \/ EndEpisodeReturns \/ TimesOut
    \/ Close \/ Destroy \/ DestroyReturns

Next ==
    \/ WorkerNext \/ CallbackNext \/ ClientNext
    \/ ServerNext /\ UNCHANGED <<writer, worker, client, chunker>>

vars == <<writer, worker, client, chunker, stream, table>>

Spec == Init /\ [][Next]_vars

=============================================================================
