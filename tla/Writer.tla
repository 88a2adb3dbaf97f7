------------------------------- MODULE Writer -------------------------------
(***************************************************************************)
(* The older Writer (reverb/cc/writer.{h,cc}): rows of timesteps go into a *)
(* buffer, a full buffer becomes a chunk, items span the last timesteps,   *)
(* and the thread of the client writes them to the stream and tries again  *)
(* on a new one when the server was unavailable.  A worker reads the       *)
(* confirmations while items are in flight.                                *)
(*                                                                         *)
(* Bounds: MaxSteps rows, MaxItems items.                                  *)
(***************************************************************************)
EXTENDS Chunker, InsertStream

CONSTANTS
    ChunkLength,        \* chunk_length_
    MaxTimesteps,       \* max_timesteps_
    MaxInFlightItems,   \* max_in_flight_items_
    LargeChunks,        \* chunks of kMaxRequestSizeBytes and more
    ItemLengths,        \* values of num_timesteps
    ItemTables,         \* the tables the client names
    SignatureTables,    \* those whose signature the rows conform to
    MaxSteps,
    MaxItems

VARIABLES
    writer,     \* the members of the class that have to do with the stream
    worker,     \* item_confirmation_worker_thread_
    client,     \* the thread that appends, and its call under way
    chunker     \* buffer_, chunks_ and next_chunk_key_; the content of every
                \* chunk made so far

\* writer.stream: 0 for a null stream_.  client.retry: retry_on_unavailable.
\* client.request, client.keep: locals of WritePendingData.  client.made: the
\* items that CreateItem returned OK for.
Init ==
    /\ NoStreams /\ EmptyTable
    /\ chunker = [buffer |-> << >>, chunks_ |-> << >>, next |-> 1,
                  chunks |-> << >>]
    /\ writer = [stream |-> 0, pending_items |-> << >>, streamed |-> {},
                 num_items_in_flight |-> 0, closed |-> FALSE,
                 stop_requested |-> FALSE]
    /\ worker = "none"
    /\ client = [pc |-> "idle", call |-> None, retry |-> TRUE,
                 request |-> Request({}, << >>, {}), appended |-> 0,
                 made |-> << >>]

-----------------------------------------------------------------------------
(* ItemConfirmationWorker; it runs unless it is "none" or "ended" *)

Running == worker \in {"wait", "read"}

WorkerWakes ==
    /\ worker = "wait"
    /\ writer.num_items_in_flight > 0 \/ writer.stop_requested
    /\ worker' = IF writer.stop_requested THEN "ended" ELSE "read"
    /\ UNCHANGED <<writer, client, chunker, stream, table>>

ConfirmedBy(response) == Len(response)

WorkerReads ==
    /\ worker = "read"
    /\ \/ /\ CanRead(writer.stream)
          /\ writer' = [writer EXCEPT !.num_items_in_flight =
                            @ - ConfirmedBy(Response(writer.stream))]
          /\ stream' = ReadFrom(writer.stream)
          /\ worker' = "wait"
       \/ /\ AtEnd(writer.stream)
          /\ worker' = "ended"
          /\ UNCHANGED <<writer, stream>>
    /\ UNCHANGED <<client, chunker, table>>

-----------------------------------------------------------------------------
(* Writing: WriteWithRetries and WritePendingData *)

NextKey == <<1, chunker.next>>

\* A stream that was half-closed takes no more writes.
MayWrite == ~stream[writer.stream].writes_done
WriteFails == ~MayWrite \/ WriteMayFail(writer.stream)

\* ChunkData has the rows of the buffer of d and goes to the end of chunks_.
MakeChunk(d) ==
    [d EXCEPT !.chunks_ = Append(@, [key |-> NextKey, rows |-> d.buffer]),
              !.chunks = [k \in DOMAIN @ \cup {NextKey} |->
                              IF k = NextKey THEN d.buffer ELSE @[k]]]

PendingChunks == UNION {ChunksOf(i) : i \in ToSet(writer.pending_items)}

\* The chunks that a stream lacks, of those that pending items refer to.
Missing(streamed) ==
    FoldLeft(LAMBDA acc, c : IF c.key \in PendingChunks /\ c.key \notin streamed
                             THEN Append(acc, c) ELSE acc,
             << >>, chunker.chunks_)

KeysOf(chunks) == {c.key : c \in ToSet(chunks)}

\* What a new stream has been sent.
StreamedOnNew == {}

OpenStream ==
    /\ client.pc = "open" /\ writer.stream = 0 /\ Unopened # {}
    /\ stream' = Opened(NextStream)
    /\ writer' = [writer EXCEPT !.stream = NextStream, !.streamed = StreamedOnNew]
    /\ worker' = "wait"
    /\ client' = [client EXCEPT !.pc = "chunks"]
    /\ UNCHANGED <<chunker, table>>

OldStream ==
    /\ client.pc = "open" /\ writer.stream # 0
    /\ client' = [client EXCEPT !.pc = "chunks"]
    /\ UNCHANGED <<writer, worker, chunker, stream, table>>

\* Missing chunks go into one request; the rest of the loop follows when a
\* large one has made it big enough to be sent at once.
SendChunks ==
    LET missing == Missing(writer.streamed)
        keep == KeysOf(missing) \cup
                    (writer.streamed \cap KeysOf(chunker.chunks_))
        large == {i \in DOMAIN missing : missing[i].key \in LargeChunks}
        n == IF large = {} THEN 0
             ELSE CHOOSE i \in large : \A j \in large : i <= j
        request == Request(KeysOf(SubSeq(missing, 1, n)), << >>, {})
    IN  /\ client.pc = "chunks"
        /\ \/ /\ n = 0
              /\ client' = [client EXCEPT
                               !.pc = "items",
                               !.request = Request(KeysOf(missing), << >>, keep)]
              /\ UNCHANGED <<writer, stream>>
           \/ /\ n # 0 /\ MayWrite
              /\ stream' = Sent(writer.stream, request)
              /\ writer' = [writer EXCEPT !.streamed = @ \cup request.chunks]
              /\ UNCHANGED client
           \/ /\ n # 0 /\ WriteFails
              /\ client' = [client EXCEPT !.pc = "failed"]
              /\ UNCHANGED <<writer, stream>>
        /\ UNCHANGED <<worker, chunker, table>>

\* ConfirmItems returns: so few are in flight, or no more are confirmed.
ConfirmReturns(limit) == writer.num_items_in_flight <= limit \/ ~Running

\* One item; the chunks are sent again with every item of the call.
SendItem ==
    LET room == writer.num_items_in_flight <= MaxInFlightItems - 1
        request == [client.request EXCEPT !.items = <<Head(writer.pending_items)>>]
    IN  /\ client.pc = "items" /\ writer.pending_items # << >>
        /\ ConfirmReturns(MaxInFlightItems - 1)
        /\ \/ /\ room /\ MayWrite
              /\ stream' = Sent(writer.stream, request)
              /\ writer' = [writer EXCEPT !.streamed = @ \cup request.chunks,
                                          !.pending_items = Tail(@)]
              /\ client' = [client EXCEPT !.pc = "count"]
           \/ /\ ~room \/ WriteFails
              /\ client' = [client EXCEPT !.pc = "failed"]
              /\ UNCHANGED <<writer, stream>>
        /\ UNCHANGED <<worker, chunker, table>>

\* The confirmation may have been read before the item is counted.
CountItem ==
    /\ client.pc = "count"
    /\ writer' = [writer EXCEPT !.num_items_in_flight = @ + 1]
    /\ client' = [client EXCEPT !.pc = "items"]
    /\ UNCHANGED <<worker, chunker, stream, table>>

StopRequested ==
    /\ client.pc = "failed"
    /\ stream' = HalfClosed(writer.stream)
    /\ writer' = [writer EXCEPT !.stop_requested = TRUE]
    /\ client' = [client EXCEPT !.pc = "stopping"]
    /\ UNCHANGED <<worker, chunker, table>>

Stopped(wr) == [wr EXCEPT !.stop_requested = FALSE]

Idle == [client EXCEPT !.pc = "idle", !.call = None, !.retry = TRUE,
                       !.request = Request({}, << >>, {})]

\* What the caller of WriteWithRetries undoes when it fails.
Undo(wr) ==
    /\ client' = [Idle EXCEPT !.made =
                     IF client.call = "create" THEN SubSeq(@, 1, Len(@) - 1) ELSE @]
    /\ chunker' = IF client.call = "create" THEN chunker
                  ELSE [chunker EXCEPT
                           !.chunks_ = SubSeq(@, 1, Len(@) - 1),
                           !.buffer = IF client.call = "append"
                                      THEN SubSeq(@, 1, Len(@) - 1) ELSE @]
    /\ writer' = IF client.call = "create"
                 THEN [wr EXCEPT !.pending_items = SubSeq(@, 1, Len(@) - 1)]
                 ELSE wr

\* DataLoss: items were in flight.  The stream stays, half-closed.
DataLost ==
    /\ client.pc = "stopping" /\ ~Running
    /\ writer.num_items_in_flight > 0
    /\ worker' = "none"
    /\ Undo(Stopped(writer))
    /\ UNCHANGED <<stream, table>>

Reset0(wr) == [Stopped(wr) EXCEPT !.stream = 0, !.num_items_in_flight = 0]

\* No item was in flight: again on a new stream, or the error is returned.
StreamFails ==
    LET status == StreamStatus(writer.stream)
    IN  /\ client.pc = "stopping" /\ ~Running
        /\ writer.num_items_in_flight <= 0 /\ AtEnd(writer.stream)
        /\ worker' = "none"
        /\ \/ /\ status = "unavailable" /\ client.retry
              /\ client' = [client EXCEPT !.pc = "open"]
              /\ writer' = Reset0(writer)
              /\ UNCHANGED chunker
           \/ /\ status = "unavailable" /\ ~client.retry
              \* only Close; it goes on without the server.
              /\ client' = Idle
              /\ chunker' = [chunker EXCEPT !.chunks_ = << >>]
              /\ writer' = [Reset0(writer) EXCEPT !.closed = TRUE]
           \/ /\ status # "unavailable"
              /\ Undo(Reset0(writer))
        /\ UNCHANGED <<stream, table>>

\* The newest chunks, while all but the first cover max_timesteps_.
KeptChunks(chunks) ==
    LET n == Len(chunks)
        drop == {k \in 0 .. n : (n - k - 1) * ChunkLength < MaxTimesteps}
        k == CHOOSE i \in drop : \A j \in drop : i <= j
    IN  SubSeq(chunks, k + 1, n)

\* WriteWithRetries has succeeded; Finish tidies up when it made a chunk.
Written ==
    LET kept == KeptChunks(chunker.chunks_)
    IN  /\ client.pc = "items" /\ writer.pending_items = << >>
        /\ IF client.call = "create" THEN UNCHANGED <<writer, chunker>>
           ELSE /\ chunker' = [chunker EXCEPT !.buffer = << >>, !.next = @ + 1,
                                              !.chunks_ = kept]
                /\ writer' = [writer EXCEPT
                      !.streamed = @ \ (KeysOf(chunker.chunks_) \ KeysOf(kept))]
        /\ client' = IF client.call = "close" THEN [client EXCEPT !.pc = "close"]
                     ELSE Idle
        /\ UNCHANGED <<worker, stream, table>>

-----------------------------------------------------------------------------
(* The calls *)

AppendRow ==
    LET row == <<1, client.appended>>
        c == [chunker EXCEPT !.buffer = Append(@, row)]
        cl == [client EXCEPT !.appended = @ + 1]
    IN  /\ client.pc = "idle" /\ ~writer.closed /\ client.appended < MaxSteps
        /\ IF Len(c.buffer) < ChunkLength
           THEN chunker' = c /\ client' = cl
           ELSE /\ chunker' = MakeChunk(c)
                /\ client' = [cl EXCEPT !.pc = "open", !.call = "append"]
        /\ UNCHANGED <<writer, worker, stream, table>>

\* The rows that items can refer to.
Rows == FoldLeft(LAMBDA acc, c : acc \o c.rows, << >>, chunker.chunks_)
            \o chunker.buffer

\* CreateItem walks back over the buffer and the chunks until it has n rows or
\* no chunk is left; what it returns are the chunks in use, oldest first, and
\* how many rows of the first one are not in the item, negative when the rows
\* do not suffice.
ChunksBackTo(n) ==
    LET all == chunker.chunks_ \o
                   (IF chunker.buffer = << >> THEN << >>
                    ELSE <<[key |-> NextKey, rows |-> chunker.buffer]>>)
        RowsFrom(i) == FoldLeft(LAMBDA acc, c : acc + Len(c.rows), 0,
                                SubSeq(all, i, Len(all)))
        enough == {i \in DOMAIN all : RowsFrom(i) >= n}
        first == IF enough = {} THEN 1
                 ELSE CHOOSE i \in enough : \A j \in enough : j <= i
    IN  [chunks |-> SubSeq(all, first, Len(all)), offset |-> RowsFrom(first) - n]

\* Mutant: the offset is taken in every chunk.
FaultyFlatTimestepTrajectory(chunks, offset, length) ==
    FoldLeft(
        LAMBDA acc, c :
            LET o == offset
                n == IF Len(c.rows) - o < acc.left THEN Len(c.rows) - o
                     ELSE acc.left
            IN  [slices |-> Append(acc.slices,
                               [chunk |-> c.key, offset |-> o, length |-> n]),
                 left |-> acc.left - n],
        [slices |-> << >>, left |-> length], chunks).slices

\* The table is known, and the rows fit its signature.
GetFlatSignature(t) == t \in SignatureTables

\* FlatTimestepTrajectory, one column.
FlatTimestepTrajectory(chunks, offset, length) ==
    FoldLeft(
        LAMBDA acc, c :
            LET o == IF acc.slices = << >> THEN offset ELSE 0
                n == IF Len(c.rows) - o < acc.left THEN Len(c.rows) - o
                     ELSE acc.left
            IN  [slices |-> Append(acc.slices,
                               [chunk |-> c.key, offset |-> o, length |-> n]),
                 left |-> acc.left - n],
        [slices |-> << >>, left |-> length], chunks).slices

\* The cells are the rows asked for, as far as there are that many.
NewItem(t, n) ==
    LET back == ChunksBackTo(n)
        first == IF n > Len(Rows) THEN 1 ELSE Len(Rows) - n + 1
        wanted == SubSeq(Rows, first, Len(Rows))
    IN  [key |-> Len(client.made) + 1, table |-> t,
         cells |-> [i \in DOMAIN wanted |-> [episode |-> wanted[i][1],
                                             step |-> wanted[i][2]]],
         slices |-> FlatTimestepTrajectory(back.chunks, back.offset, n)]

\* The bound counts a full chunk_length_ for each chunk.  After a flush has cut
\* chunks short it lets through items of more rows than there are, whose first
\* slice then begins before its chunk.
CreateItem(t, n) ==
    LET item == NewItem(t, n)
    IN  /\ client.pc = "idle" /\ ~writer.closed
        /\ Len(client.made) < MaxItems
        /\ n <= Len(chunker.chunks_) * ChunkLength + Len(chunker.buffer)
        /\ n <= MaxTimesteps
        /\ GetFlatSignature(t)
        /\ writer' = [writer EXCEPT !.pending_items = Append(@, item)]
        /\ client' = IF chunker.buffer = << >>
                     THEN [client EXCEPT !.pc = "open", !.call = "create",
                                         !.made = Append(@, item)]
                     ELSE [client EXCEPT !.made = Append(@, item)]
        /\ UNCHANGED <<worker, chunker, stream, table>>

\* Flush writes what is pending, or waits for what is in flight.
Flush ==
    /\ client.pc = "idle" /\ ~writer.closed
    /\ IF writer.pending_items # << >>
       THEN /\ chunker' = MakeChunk(chunker)
            /\ client' = [client EXCEPT !.pc = "open", !.call = "flush"]
       ELSE /\ client' = [client EXCEPT !.pc = "confirm"]
            /\ UNCHANGED chunker
    /\ UNCHANGED <<writer, worker, stream, table>>

FlushConfirmed ==
    /\ client.pc = "confirm" /\ ConfirmReturns(0)
    /\ client' = Idle
    /\ UNCHANGED <<writer, worker, chunker, stream, table>>

Close(retry) ==
    /\ client.pc = "idle" /\ ~writer.closed
    /\ IF writer.pending_items # << >>
       THEN /\ chunker' = MakeChunk(chunker)
            /\ client' = [client EXCEPT !.pc = "open", !.call = "close",
                                        !.retry = retry]
       ELSE /\ client' = [client EXCEPT !.pc = "close", !.call = "close"]
            /\ UNCHANGED chunker
    /\ UNCHANGED <<writer, worker, stream, table>>

Closed(wr) ==
    /\ writer' = [wr EXCEPT !.closed = TRUE]
    /\ chunker' = [chunker EXCEPT !.chunks_ = << >>]
    /\ client' = Idle

CloseStream ==
    /\ client.pc = "close"
    /\ IF writer.stream = 0 THEN Closed(writer) /\ UNCHANGED stream
       ELSE /\ stream' = HalfClosed(writer.stream)
            /\ client' = [client EXCEPT !.pc = "close_confirm"]
            /\ UNCHANGED <<writer, chunker>>
    /\ UNCHANGED <<worker, table>>

CloseConfirmed ==
    /\ client.pc = "close_confirm" /\ ConfirmReturns(0)
    /\ writer' = [writer EXCEPT !.stop_requested = TRUE]
    /\ client' = [client EXCEPT !.pc = "close_stop"]
    /\ UNCHANGED <<worker, chunker, stream, table>>

\* Items that were not confirmed are only logged.
CloseFinishes ==
    /\ client.pc = "close_stop" /\ ~Running /\ AtEnd(writer.stream)
    /\ worker' = "none"
    /\ Closed([Stopped(writer) EXCEPT !.stream = 0])
    /\ UNCHANGED <<stream, table>>

Next ==
    \/ WorkerWakes \/ WorkerReads
    \/ OpenStream \/ OldStream \/ SendChunks \/ SendItem \/ CountItem
    \/ StopRequested \/ DataLost \/ StreamFails \/ Written
    \/ AppendRow
    \/ \E t \in ItemTables, n \in ItemLengths : CreateItem(t, n)
    \/ Flush \/ FlushConfirmed
    \/ \E retry \in BOOLEAN : Close(retry)
    \/ CloseStream \/ CloseConfirmed \/ CloseFinishes
    \/ ServerNext /\ UNCHANGED <<writer, worker, client, chunker>>

vars == <<writer, worker, client, chunker, stream, table>>

Spec == Init /\ [][Next]_vars
=============================================================================
