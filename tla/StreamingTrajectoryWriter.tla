--------------------- MODULE StreamingTrajectoryWriter ----------------------
(***************************************************************************)
(* The StreamingTrajectoryWriter (streaming_trajectory_writer.{h,cc}): the *)
(* thread of the client writes to the stream itself, chunks as soon as     *)
(* they are complete and each item in a request of its own; a worker reads *)
(* the confirmations.  One column.                                         *)
(*                                                                         *)
(* Bounds: MaxSteps cells, MaxItems items, MaxEpisodes episodes.           *)
(***************************************************************************)
EXTENDS Chunker, InsertStream

CONSTANTS
    ChunkerOptions,     \* the options given to the constructor
    LargeChunks,        \* chunks of kMaxRequestSizeBytes and more
    ItemLengths,        \* how many cells the client puts into an item
    ItemTables,         \* the tables the client names
    SignatureTables,    \* those whose signature its items conform to
    Increments,         \* {TRUE}: Append; with FALSE AppendPartial too
    Ignored,            \* values of ignore_last_num_items
    MaxSteps,
    MaxItems,
    MaxEpisodes

VARIABLES
    writer,     \* the members of the class
    worker,     \* item_confirmation_worker_
    client,     \* the thread that appends, and its call under way
    chunker     \* chunkers_[0]

\* writer.moved: the chunks whose data StreamChunks has taken.  client.requests:
\* what the call still has to write.  client.chunks: chunk_keys of StreamChunks.
\* client.item: the item that follows the chunks, if any.  client.made: the
\* items that CreateItem returned OK for.  Auto-tuned options, which look into
\* chunks that this writer has given away, cannot be used with it.
Init ==
    /\ stream = [[s \in Streams |-> UnusedStream] EXCEPT ![1].open = TRUE]
    /\ EmptyTable
    /\ \E o \in ChunkerOptions :
          chunker = NewChunker(1, [o EXCEPT !.auto_tuned = FALSE])
    /\ writer = [streamed |-> {}, moved |-> {}, in_flight_items |-> {}, stream |-> 1,
                 recoverable |-> "ok", unrecoverable |-> "ok"]
    /\ worker = "reading"
    /\ client = [pc |-> "idle", requests |-> << >>, chunks |-> {},
                 item |-> None, ignore |-> 0, appended |-> 0,
                 episode |-> 1, step |-> 0, made |-> << >>]

Failed == writer.recoverable # "ok" \/ writer.unrecoverable # "ok"

-----------------------------------------------------------------------------
(* ProcessItemConfirmations *)

WorkerReads ==
    /\ worker = "reading" /\ CanRead(writer.stream)
    /\ writer' = [writer EXCEPT !.in_flight_items =
                      @ \ ToSet(Response(writer.stream))]
    /\ stream' = ReadFrom(writer.stream)
    /\ UNCHANGED <<worker, client, chunker, table>>

WorkerEnds ==
    /\ worker = "reading" /\ AtEnd(writer.stream)
    /\ worker' = "ended"
    /\ UNCHANGED <<writer, client, chunker, stream, table>>

-----------------------------------------------------------------------------
(* The client *)

Returned ==
    [client EXCEPT !.pc = "idle", !.requests = << >>, !.chunks = {},
                   !.item = None, !.ignore = 0]

CallReturns ==
    /\ client' = Returned
    /\ UNCHANGED <<writer, worker, chunker, stream, table>>

\* The keys of the ready chunks of refs that have not been moved out yet, in
\* the order in which StreamChunks finds them; d is the chunker.
Movable(d, refs) ==
    FoldLeft(LAMBDA keys, r :
                 IF \/ ~IsReady(d, r) \/ r.chunk \in writer.moved
                    \/ r.chunk \in ToSet(keys)
                 THEN keys ELSE Append(keys, r.chunk), << >>, refs)

\* A chunk above the threshold closes its request; when it is the last chunk
\* an empty request follows.
AddToRequests(requests, key) ==
    LET n == Len(requests)
        added == [requests EXCEPT ![n].chunks = @ \cup {key}]
    IN  IF key \in LargeChunks THEN Append(added, Request({}, << >>, {}))
        ELSE added

Sharded(keys) == FoldLeft(AddToRequests, <<Request({}, << >>, {})>>, keys)

\* StreamChunks up to its first write.  A chunk that was moved out earlier has
\* been streamed in this episode: the error for the contrary cannot occur, see
\* ReferencesAreUsable.
StreamChunks(d, refs, cl) ==
    LET keys == Movable(d, refs)
    IN  /\ chunker' = d
        /\ writer' = [writer EXCEPT !.moved = @ \cup ToSet(keys)]
        /\ client' = [cl EXCEPT !.pc = "chunks", !.chunks = ToSet(keys),
                          !.requests = IF keys = << >> THEN << >>
                                       ELSE Sharded(keys)]
        /\ UNCHANGED <<worker, stream, table>>

\* AppendPartial stays in the step.
AppendCell(increment) ==
    LET d == AppendToChunker(chunker, client.episode, client.step)
    IN  /\ client.pc = "idle" /\ client.appended < MaxSteps
        /\ IF Failed \/ ~MayAppend(chunker, client.episode, client.step)
           THEN CallReturns
           ELSE StreamChunks(d, <<Last(d.active_refs)>>,
                             [client EXCEPT !.appended = @ + 1,
                                            !.step = IF increment THEN @ + 1 ELSE @])

Selection(n) ==
    LET refs == chunker.active_refs
    IN  IF n > Len(refs) THEN << >> ELSE SubSeq(refs, Len(refs) - n + 1, Len(refs))

NewItem(t, cells) ==
    [key |-> Len(client.made) + 1, table |-> t, cells |-> cells,
     slices |-> MergeAdjacent(cells)]

\* CreateItem up to the first write: chunks that are not ready are finished.
CreateItem(t, n) ==
    LET refs == Selection(n)
        d == IF \E i \in DOMAIN refs : ~IsReady(chunker, refs[i])
             THEN FlushChunker(chunker) ELSE chunker
    IN  /\ client.pc = "idle" /\ Len(client.made) < MaxItems /\ refs # << >>
        /\ IF Failed THEN CallReturns
           ELSE StreamChunks(d, refs, [client EXCEPT !.item = NewItem(t, refs)])

ItemKeys(request) == {request.items[i].key : i \in DOMAIN request.items}

\* WriteStream.
WriteSucceeds ==
    LET request == Head(client.requests)
    IN  /\ client.requests # << >>
        /\ writer' = [writer EXCEPT !.in_flight_items = @ \cup ItemKeys(request)]
        /\ stream' = Sent(writer.stream, request)
        /\ client' = IF client.pc = "item"
                     THEN [Returned EXCEPT !.made = Append(@, client.item)]
                     ELSE [client EXCEPT !.requests = Tail(@)]
        /\ UNCHANGED <<worker, chunker, table>>

\* The items of this request are not in flight; those that were written before
\* on the same stream remain so.
WriteFails ==
    /\ client.requests # << >> /\ WriteMayFail(writer.stream)
    /\ client' = [client EXCEPT !.pc = "finish", !.requests = << >>]
    /\ UNCHANGED <<writer, worker, chunker, stream, table>>

IsTransientError(status) ==
    status \in {"deadline_exceeded", "unavailable", "cancelled"}

\* Finish, the end of the worker, and a new stream.
StreamReplaced ==
    LET status == StreamStatus(writer.stream)
    IN  /\ client.pc = "finish" /\ AtEnd(writer.stream) /\ worker = "ended"
        /\ IF IsTransientError(status)
           THEN /\ Unopened # {}
                /\ stream' = Opened(NextStream)
                /\ worker' = "reading"
                /\ writer' = [writer EXCEPT !.stream = NextStream,
                                            !.recoverable = "data_loss"]
           ELSE /\ writer' = [writer EXCEPT !.unrecoverable = status]
                /\ UNCHANGED <<stream, worker>>
        /\ client' = Returned
        /\ UNCHANGED <<chunker, table>>

KeysStreamed(streamed) == streamed \cup client.chunks

\* All requests are written: the chunks are streamed, and SendItem follows, or
\* the call returns.
ChunksStreamed ==
    LET streamed == KeysStreamed(writer.streamed)
        request == Request({}, <<client.item>>, streamed)
    IN  /\ client.pc = "chunks" /\ client.requests = << >>
        /\ writer' = [writer EXCEPT !.streamed = streamed]
        /\ client' = IF \/ client.item = None
                        \/ client.item.table \notin SignatureTables
                     THEN Returned
                     ELSE [client EXCEPT !.pc = "item", !.requests = <<request>>,
                                         !.chunks = {}]
        /\ UNCHANGED <<worker, chunker, stream, table>>

Flush(ignore) ==
    /\ client.pc = "idle"
    /\ client' = [client EXCEPT !.pc = "flush", !.ignore = ignore]
    /\ UNCHANGED <<writer, worker, chunker, stream, table>>

Flushed == Cardinality(writer.in_flight_items) <= client.ignore \/ Failed

FlushReturns == client.pc = "flush" /\ Flushed /\ CallReturns

FlushTimesOut == client.pc \in {"flush", "end", "end_clear"} /\ CallReturns

EndEpisode(clear_buffers) ==
    /\ client.pc = "idle" /\ client.episode < MaxEpisodes
    /\ writer.unrecoverable = "ok"
    /\ client' = [client EXCEPT !.pc = IF clear_buffers THEN "end_clear" ELSE "end",
                                !.ignore = 0]
    /\ UNCHANGED <<writer, worker, chunker, stream, table>>

EpisodeCleared(wr) == [wr EXCEPT !.recoverable = "ok", !.streamed = {}]

\* A broken stream is not waited for.  The chunker is not flushed.
EndEpisodeReturns ==
    /\ client.pc \in {"end", "end_clear"} /\ Flushed
    /\ client' = [Returned EXCEPT !.episode = @ + 1, !.step = 0]
    /\ IF client.pc = "end" THEN UNCHANGED <<writer, chunker>>
       ELSE /\ writer' = EpisodeCleared(writer)
            /\ chunker' = Reset(chunker)
    /\ UNCHANGED <<worker, stream, table>>

\* The destructor half-closes the stream and reads what still comes.
Destroy ==
    /\ client.pc = "idle"
    /\ stream' = HalfClosed(writer.stream)
    /\ client' = [client EXCEPT !.pc = "destroy"]
    /\ UNCHANGED <<writer, worker, chunker, table>>

DestroyReturns ==
    /\ client.pc = "destroy" /\ worker = "ended" /\ AtEnd(writer.stream)
    /\ client' = [client EXCEPT !.pc = "destroyed"]
    /\ UNCHANGED <<writer, worker, chunker, stream, table>>

Next ==
    \/ WorkerReads \/ WorkerEnds
    \/ \E increment \in Increments : AppendCell(increment)
    \/ \E t \in ItemTables, n \in ItemLengths : CreateItem(t, n)
    \/ WriteSucceeds \/ WriteFails \/ StreamReplaced
    \/ ChunksStreamed
    \/ \E ignore \in Ignored : Flush(ignore)
    \/ FlushReturns \/ FlushTimesOut
    \/ \E clear_buffers \in BOOLEAN : EndEpisode(clear_buffers)
    \/ EndEpisodeReturns \/ Destroy \/ DestroyReturns
    \/ ServerNext /\ UNCHANGED <<writer, worker, client, chunker>>

vars == <<writer, worker, client, chunker, stream, table>>

Spec == Init /\ [][Next]_vars
=============================================================================
