-------------------------- MODULE TrajectoryProofs --------------------------
(***************************************************************************)
(* The TrajectoryWriter against its servers, for every number of streams,  *)
(* items and cells: what its worker has streamed the server has, what it   *)
(* made is in the table or on its books, and the cells of its items can be *)
(* sent.                                                                   *)
(***************************************************************************)
EXTENDS TrajectoryWriter, InsertStreamProofs


\* What Writers assumes of the constants of a TrajectoryWriter.
ConstantsOk ==
    /\ \A o \in ChunkerOptions :
          /\ o.max_chunk_length \in Nat /\ o.num_keep_alive_refs \in Nat
          /\ ValidOptions(o)
    /\ ItemLengths \subseteq Nat \ {0} /\ Strides \subseteq Nat \ {0}

-----------------------------------------------------------------------------
(* The invariant. *)

IsWriter(wr) ==
    /\ wr \in [write_queue : {wr.write_queue},
               in_flight_items : {wr.in_flight_items}, closed : {wr.closed},
               unrecoverable_status : {wr.unrecoverable_status},
               stream_ok : {wr.stream_ok}, write_inflight : {wr.write_inflight},
               reading : {wr.reading}, writing : {wr.writing}]
    /\ IsSeq(wr.write_queue) /\ IsFiniteSet(wr.in_flight_items)

IsWorker(w) ==
    /\ w \in [pc : {"connect", "top", "refs", "check", "asleep", "move",
                    "writing", "finish", "stopped"},
              stream : {0} \cup Streams, streamed : {w.streamed},
              request : {w.request}, batch : {w.batch}, ref : {w.ref},
              next : {w.next}]
    /\ IsRequest(w.request)
    /\ w.pc \notin {"connect", "stopped"} => w.stream # 0
    /\ w.pc = "writing" => w.next \in {"top", "refs", "check"}

IsClient(cl) ==
    /\ cl \in [pc : {cl.pc}, ignore : {cl.ignore}, appended : {cl.appended},
               episode : {cl.episode}, step : {cl.step}, made : {cl.made}]
    /\ IsSeq(cl.made)
    /\ cl.pc = "end_clear" => cl.ignore = 0

\* The worker looks at the front of the queue, and takes an item off it when
\* it has streamed its chunks.
HasFront(w, queue) ==
    /\ w.pc \in {"refs", "check", "move"} => queue # << >>
    /\ w.pc = "writing" /\ w.next # "top" => queue # << >>
    /\ w.pc = "move" => ChunksOf(Head(queue)) \subseteq w.streamed

\* What the worker takes for streamed, and what its items need, the server has
\* or finds in the request that the worker is putting together.
Prepared(str, streamed, q) ==
    \E S : /\ Has(str, S) /\ streamed \subseteq S \cup q.chunks
           /\ \A i \in DOMAIN q.items : ChunksOf(q.items[i]) \subseteq S \cup q.chunks

Knows(w, str) ==
    /\ w.pc = "writing" => Has(str, w.streamed)
    /\ w.pc \in {"top", "refs", "check", "asleep", "move"} =>
          Prepared(str, w.streamed, w.request)

OnStream(w, reading) ==
    /\ w.stream # 0 => stream[w.stream].open /\ Knows(w, stream[w.stream])
    /\ reading => w.stream # 0

ItemsOf(wr) == ToSet(wr.write_queue) \cup wr.in_flight_items

\* The cells of an item that waits can be sent.
ItemsOk(wr, c) ==
    \A item \in ItemsOf(wr) :
        item.key \in Nat /\ \A cell \in ToSet(item.cells) : Usable(c, cell)

\* An item that was made is in the table or on the books.
Booked(made, wr, items) ==
    \A item \in ToSet(made) :
        item.key \in items \/ \E x \in ItemsOf(wr) : x.key = item.key

TrajectoryInv ==
    /\ ServerInv
    /\ IsWriter(writer) /\ IsWorker(worker) /\ IsClient(client)
    /\ ChunkerOk(chunker)
    /\ HasFront(worker, writer.write_queue)
    /\ OnStream(worker, writer.reading)
    /\ ItemsOk(writer, chunker)
    /\ Booked(client.made, writer, table.items)

-----------------------------------------------------------------------------
(* Writes. *)

LEMMA NoRequestFacts ==
    /\ IsRequest(NoRequest) /\ NoRequest.items = << >> /\ NoRequest.chunks = {}
    /\ DOMAIN NoRequest.items = {}
  <1>1. PICK empty : empty = << >>
    OBVIOUS
  <1>2. NoRequest = [chunks |-> {}, items |-> empty, keep |-> {}]
    BY <1>1 DEF NoRequest, Request
  <1>3. IsSeq(empty) /\ DOMAIN empty = {}
    BY <1>1, EmptyIsSeq
  <1> QED
    BY <1>1, <1>2, <1>3 DEF IsRequest

\* What WriteIfNotEmpty leaves.
Written(w, wr, next) ==
    /\ ServerInv' /\ IsWorker(worker') /\ IsWriter(writer')
    /\ worker'.stream = w.stream /\ worker'.streamed = w.streamed
    /\ worker'.pc \in {next, "writing"}
    /\ worker'.pc = "writing" => worker'.next = next
    /\ stream'[w.stream].open /\ Knows(worker', stream'[w.stream])
    /\ writer'.write_queue = wr.write_queue
    /\ writer'.in_flight_items = wr.in_flight_items
    /\ writer'.reading = wr.reading

LEMMA WriteStep ==
    ASSUME ServerInv, table' = table,
           NEW w, IsWorker(w), w.stream \in Streams, w.stream # 0,
           w.pc # "writing", stream[w.stream].open,
           Prepared(stream[w.stream], w.streamed, w.request),
           NEW wr, IsWriter(wr), NEW next \in {"top", "refs", "check"},
           WriteIfNotEmpty(w, wr, next)
    PROVE  Written(w, wr, next)
  <1>1. CASE IsEmpty(w.request)
    <2>1. worker' = [w EXCEPT !.pc = next] /\ writer' = wr /\ stream' = stream
      BY <1>1 DEF WriteIfNotEmpty
    <2>2. ServerInv'
      BY <2>1 DEF ServerInv, TableOk, WaitsForInsert
    <2>3. /\ IsWorker(worker') /\ worker'.pc = next /\ worker'.stream = w.stream
          /\ worker'.streamed = w.streamed /\ worker'.request = w.request
      BY <2>1 DEF IsWorker
    <2>4. Knows(worker', stream'[w.stream])
      BY <2>1, <2>3 DEF Knows
    <2> QED
      BY <2>1, <2>2, <2>3, <2>4 DEF Written
  <1>2. CASE ~IsEmpty(w.request)
    <2>1. PICK s, q, keep : s = w.stream /\ q = w.request /\ keep = w.streamed
      OBVIOUS
    <2>2. PICK q2 : q2 = [q EXCEPT !.keep = keep]
      OBVIOUS
    <2>3. /\ worker' = [w EXCEPT !.pc = "writing", !.next = next]
          /\ writer' = [wr EXCEPT !.write_inflight = TRUE, !.writing = TRUE]
          /\ stream' = Sent(s, q2)
      BY <1>2, <2>1, <2>2 DEF WriteIfNotEmpty
    <2>4. /\ IsRequest(q2) /\ q2.items = q.items /\ q2.chunks = q.chunks
          /\ q2.keep = keep
      BY <2>1, <2>2 DEF IsWorker, IsRequest
    <2>5. PICK S : /\ Has(stream[s], S) /\ keep \subseteq S \cup q.chunks
                   /\ \A i \in DOMAIN q.items :
                         ChunksOf(q.items[i]) \subseteq S \cup q.chunks
      BY <2>1 DEF Prepared
    <2>6. /\ ServerInv' /\ stream'[s].open
          /\ Has(stream'[s], IF q2.items = << >> THEN S \cup q2.chunks ELSE q2.keep)
      BY <2>1, <2>3, <2>4, <2>5, SentStep
    <2>7. Has(stream'[s], keep)
      BY <2>4, <2>5, <2>6, HasLess
    <2>8. /\ IsWorker(worker') /\ worker'.pc = "writing" /\ worker'.next = next
          /\ worker'.stream = s /\ worker'.streamed = keep
      BY <2>1, <2>3 DEF IsWorker
    <2>9. /\ IsWriter(writer') /\ writer'.write_queue = wr.write_queue
          /\ writer'.in_flight_items = wr.in_flight_items
          /\ writer'.reading = wr.reading
      BY <2>3 DEF IsWriter
    <2>10. Knows(worker', stream'[s])
      BY <2>7, <2>8 DEF Knows
    <2> QED
      BY <2>1, <2>6, <2>8, <2>9, <2>10 DEF Written
  <1> QED
    BY <1>1, <1>2

-----------------------------------------------------------------------------
(* Steps of the worker. *)

LEMMA ConnectStep ==
    ASSUME TrajectoryInv, SetContextAndCreateStream
    PROVE  TrajectoryInv'
  <1>1. PICK s : s = NextStream
    OBVIOUS
  <1>2. s \in Streams /\ ~stream[s].open /\ s # 0
    BY <1>1, NextStreamIsNew, InsertStreamAssumption
       DEF SetContextAndCreateStream, TrajectoryInv
  <1>3. PICK q : q = NoRequest
    OBVIOUS
  <1>4. /\ stream' = Opened(s) /\ table' = table
        /\ worker' = [worker EXCEPT !.pc = "top", !.stream = s, !.streamed = {},
                                    !.request = q, !.batch = 0, !.ref = 0]
        /\ writer' = [writer EXCEPT !.stream_ok = TRUE, !.reading = TRUE]
        /\ client' = client /\ chunker' = chunker
    BY <1>1, <1>3 DEF SetContextAndCreateStream, NewStreamed
  <1>5. ServerInv' /\ Has(stream'[s], {}) /\ stream'[s].open
    BY <1>2, <1>4, OpenedStep DEF TrajectoryInv
  <1>6. IsRequest(q) /\ DOMAIN q.items = {}
    BY <1>3, NoRequestFacts
  <1>7. /\ IsWorker(worker') /\ worker'.pc = "top" /\ worker'.stream = s
        /\ worker'.streamed = {} /\ worker'.request = q
    BY <1>2, <1>4, <1>6 DEF TrajectoryInv, IsWorker
  <1>8. /\ IsWriter(writer') /\ writer'.write_queue = writer.write_queue
        /\ writer'.in_flight_items = writer.in_flight_items
    BY <1>4 DEF TrajectoryInv, IsWriter
  <1>9. Prepared(stream'[s], {}, q)
    BY <1>5, <1>6 DEF Prepared
  <1>10. OnStream(worker, writer.reading)'
    BY <1>2, <1>5, <1>7, <1>9 DEF OnStream, Knows
  <1>11. HasFront(worker', writer'.write_queue)
    BY <1>7 DEF HasFront
  <1>12. ItemsOf(writer') = ItemsOf(writer)
    BY <1>8 DEF ItemsOf
  <1> QED
    BY <1>4, <1>5, <1>7, <1>8, <1>10, <1>11, <1>12
       DEF TrajectoryInv, ItemsOk, Booked

\* A step that only moves the worker or sets a flag.
LEMMA QuietStep ==
    ASSUME TrajectoryInv, stream' = stream, table' = table,
           client' = client, chunker' = chunker,
           IsWriter(writer'), writer'.write_queue = writer.write_queue,
           writer'.in_flight_items = writer.in_flight_items,
           writer'.reading => writer.reading, IsWorker(worker'),
           worker'.stream = worker.stream,
           HasFront(worker', writer.write_queue),
           worker.stream # 0 => Knows(worker', stream[worker.stream])
    PROVE  TrajectoryInv'
  <1>1. ServerInv'
    BY ServerStays DEF TrajectoryInv
  <1>2. OnStream(worker, writer.reading)'
    BY DEF OnStream, TrajectoryInv
  <1>3. ItemsOf(writer') = ItemsOf(writer)
    BY DEF ItemsOf
  <1> QED
    BY <1>1, <1>2, <1>3 DEF TrajectoryInv, ItemsOk, Booked

LEMMA DoNotConnectStep ==
    ASSUME TrajectoryInv, DoNotConnect
    PROVE  TrajectoryInv'
  <1>1. /\ IsWriter(writer') /\ writer'.write_queue = writer.write_queue
        /\ writer'.in_flight_items = writer.in_flight_items
        /\ writer'.reading = writer.reading
    BY DEF DoNotConnect, TrajectoryInv, IsWriter
  <1>2. /\ IsWorker(worker') /\ worker'.pc = "stopped"
        /\ worker'.stream = worker.stream
    BY DEF DoNotConnect, TrajectoryInv, IsWorker
  <1>3. HasFront(worker', writer.write_queue)
    BY <1>2 DEF HasFront
  <1>4. \A str : Knows(worker', str)
    BY <1>2 DEF Knows
  <1> QED
    BY <1>1, <1>2, <1>3, <1>4, QuietStep DEF DoNotConnect

\* The worker goes on with what it has.
LEMMA WorkerMoves ==
    ASSUME TrajectoryInv, worker.pc \in {"top", "refs", "check", "asleep", "move"},
           NEW pc \in {"top", "refs", "check", "asleep", "move", "finish"},
           worker'.pc = pc, worker'.stream = worker.stream,
           worker'.streamed = worker.streamed, worker'.request = worker.request
    PROVE  worker.stream # 0 => Knows(worker', stream[worker.stream])
  BY DEF TrajectoryInv, OnStream, Knows

LEMMA WaitForPendingItemsStep ==
    ASSUME TrajectoryInv, WaitForPendingItems
    PROVE  TrajectoryInv'
  <1>1. worker.pc = "top" /\ UNCHANGED <<writer, client, chunker, stream, table>>
    BY DEF WaitForPendingItems
  <1>2. CASE writer.closed \/ ~writer.stream_ok
    <2>1. /\ IsWorker(worker') /\ worker'.pc = "finish"
          /\ worker'.stream = worker.stream /\ worker'.streamed = worker.streamed
          /\ worker'.request = worker.request
      BY <1>1, <1>2 DEF WaitForPendingItems, TrajectoryInv, IsWorker
    <2>2. HasFront(worker', writer.write_queue)
      BY <2>1 DEF HasFront
    <2>3. worker.stream # 0 => Knows(worker', stream[worker.stream])
      BY <1>1, <2>1, WorkerMoves
    <2> QED
      BY <1>1, <2>1, <2>2, <2>3, QuietStep DEF TrajectoryInv
  <1>3. CASE ~(writer.closed \/ ~writer.stream_ok)
    <2>1. PICK n : n = IF worker.batch = 0 THEN Len(writer.write_queue)
                       ELSE worker.batch
      OBVIOUS
    <2>2. worker' = [worker EXCEPT !.pc = "refs", !.ref = 1, !.batch = n]
      BY <1>3, <2>1 DEF WaitForPendingItems
    <2>3. /\ IsWorker(worker') /\ worker'.pc = "refs"
          /\ worker'.stream = worker.stream /\ worker'.streamed = worker.streamed
          /\ worker'.request = worker.request
      BY <1>1, <2>2 DEF TrajectoryInv, IsWorker
    <2>4. HasFront(worker', writer.write_queue)
      BY <1>3, <2>3 DEF HasFront, WaitForPendingItems
    <2>5. worker.stream # 0 => Knows(worker', stream[worker.stream])
      BY <1>1, <2>3, WorkerMoves
    <2> QED
      BY <1>1, <2>3, <2>4, <2>5, QuietStep DEF TrajectoryInv
  <1> QED
    BY <1>2, <1>3

LEMMA CheckAllReadyStep ==
    ASSUME TrajectoryInv, CheckAllReady
    PROVE  TrajectoryInv'
  <1>1. worker.pc = "check" /\ UNCHANGED <<writer, client, chunker, stream, table>>
    BY DEF CheckAllReady
  <1>2. PICK pc \in {"top", "asleep"} : worker' = [worker EXCEPT !.pc = pc]
    BY DEF CheckAllReady
  <1>3. /\ IsWorker(worker') /\ worker'.pc = pc
        /\ worker'.stream = worker.stream /\ worker'.streamed = worker.streamed
        /\ worker'.request = worker.request
    BY <1>1, <1>2 DEF TrajectoryInv, IsWorker
  <1>4. HasFront(worker', writer.write_queue)
    BY <1>3 DEF HasFront
  <1>5. worker.stream # 0 => Knows(worker', stream[worker.stream])
    BY <1>1, <1>3, WorkerMoves
  <1> QED
    BY <1>1, <1>3, <1>4, <1>5, QuietStep DEF TrajectoryInv

LEMMA WriteReturnsStep ==
    ASSUME TrajectoryInv, WriteReturns
    PROVE  TrajectoryInv'
  <1>1. worker.pc = "writing" /\ UNCHANGED <<writer, client, chunker, stream, table>>
    BY DEF WriteReturns
  <1>2. PICK q, pc : q = NoRequest
                     /\ pc = IF writer.write_inflight THEN "finish" ELSE worker.next
    OBVIOUS
  <1>3. worker' = [worker EXCEPT !.pc = pc, !.request = q, !.next = None]
    BY <1>2 DEF WriteReturns
  <1>4. pc \in {"finish", "top", "refs", "check"}
    BY <1>1, <1>2 DEF TrajectoryInv, IsWorker
  <1>5. IsRequest(q) /\ DOMAIN q.items = {}
    BY <1>2, NoRequestFacts
  <1>6. /\ IsWorker(worker') /\ worker'.pc = pc
        /\ worker'.stream = worker.stream /\ worker'.streamed = worker.streamed
        /\ worker'.request = q
    BY <1>1, <1>3, <1>4, <1>5 DEF TrajectoryInv, IsWorker
  <1>7. HasFront(worker', writer.write_queue)
    BY <1>1, <1>2, <1>4, <1>6 DEF TrajectoryInv, HasFront
  <1>8. ASSUME worker.stream # 0 PROVE Knows(worker', stream[worker.stream])
    <2>1. Has(stream[worker.stream], worker.streamed)
      BY <1>1, <1>8 DEF TrajectoryInv, OnStream, Knows
    <2>2. Prepared(stream[worker.stream], worker.streamed, q)
      BY <1>5, <2>1 DEF Prepared
    <2> QED
      BY <1>4, <1>6, <2>2 DEF Knows
  <1> QED
    BY <1>1, <1>6, <1>7, <1>8, QuietStep DEF TrajectoryInv

\* The worker looked at a reference, and is now w.
Looked(w) ==
    /\ IsWorker(w) /\ w.pc = "refs" /\ w.stream = worker.stream
    /\ Prepared(stream[w.stream], w.streamed, w.request)

LEMMA AtReferences ==
    ASSUME TrajectoryInv, worker.pc = "refs"
    PROVE  /\ worker.stream \in Streams /\ worker.stream # 0
           /\ stream[worker.stream].open /\ Looked(worker)
           /\ writer.write_queue # << >>
  <1>1. worker.stream \in Streams /\ worker.stream # 0 /\ IsWorker(worker)
    BY DEF TrajectoryInv, IsWorker
  <1> QED
    BY <1>1 DEF TrajectoryInv, OnStream, Knows, Looked, HasFront

LEMMA AfterWrite ==
    ASSUME TrajectoryInv, worker.pc = "refs", NEW w, Looked(w),
           NEW next \in {"refs", "check"}, WriteIfNotEmpty(w, writer, next),
           UNCHANGED <<client, chunker, table>>
    PROVE  TrajectoryInv'
  <1>1. /\ w.stream \in Streams /\ w.stream # 0 /\ stream[w.stream].open
        /\ writer.write_queue # << >>
    BY AtReferences DEF Looked
  <1>2. Written(w, writer, next)
    BY <1>1, WriteStep DEF TrajectoryInv, Looked
  <1>3. /\ ServerInv' /\ IsWorker(worker') /\ IsWriter(writer')
        /\ worker'.stream = w.stream /\ worker'.pc \in {next, "writing"}
        /\ stream'[w.stream].open /\ Knows(worker', stream'[w.stream])
        /\ writer'.write_queue = writer.write_queue
        /\ writer'.in_flight_items = writer.in_flight_items
    BY <1>2 DEF Written
  <1>4. HasFront(worker', writer'.write_queue)
    BY <1>1, <1>3 DEF HasFront
  <1>5. OnStream(worker, writer.reading)'
    BY <1>1, <1>3 DEF OnStream
  <1>6. ItemsOf(writer') = ItemsOf(writer)
    BY <1>3 DEF ItemsOf
  <1> QED
    BY <1>3, <1>4, <1>5, <1>6 DEF TrajectoryInv, ItemsOk, Booked

\* The worker goes on without writing.
LEMMA GoesOn ==
    ASSUME TrajectoryInv, worker.pc = "refs", NEW w, Looked(w),
           NEW pc \in {"refs", "move"}, worker' = [w EXCEPT !.pc = pc],
           pc = "move" => ChunksOf(FrontItem) \subseteq w.streamed,
           UNCHANGED <<writer, stream, client, chunker, table>>
    PROVE  TrajectoryInv'
  <1>1. /\ IsWorker(worker') /\ worker'.pc = pc /\ worker'.stream = w.stream
        /\ worker'.streamed = w.streamed /\ worker'.request = w.request
    BY DEF Looked, IsWorker
  <1>2. HasFront(worker', writer.write_queue)
    BY <1>1, AtReferences DEF HasFront, FrontItem
  <1>3. Knows(worker', stream[worker.stream])
    BY <1>1 DEF Looked, Knows
  <1> QED
    BY <1>1, <1>2, <1>3, QuietStep DEF TrajectoryInv, Looked

LEMMA AfterChunksStep ==
    ASSUME TrajectoryInv, worker.pc = "refs", NEW w, Looked(w), AfterChunks(w),
           UNCHANGED <<client, chunker, table>>
    PROVE  TrajectoryInv'
  BY AfterWrite, GoesOn DEF AfterChunks

LEMMA AllChunksSentStep ==
    ASSUME TrajectoryInv, AllChunksSent
    PROVE  TrajectoryInv'
  <1>1. worker.pc = "refs"
    BY DEF AllChunksSent
  <1>2. Looked(worker)
    BY <1>1, AtReferences
  <1> QED
    BY <1>1, <1>2, AfterChunksStep DEF AllChunksSent

LEMMA SendChunkStep ==
    ASSUME TrajectoryInv, SendChunk
    PROVE  TrajectoryInv'
  <1>1. worker.pc = "refs" /\ UNCHANGED <<client, chunker, table>>
    BY DEF SendChunk
  <1>2. Looked(worker) /\ IsWorker(worker) /\ IsRequest(worker.request)
    BY <1>1, AtReferences DEF Looked, IsWorker
  <1>3. PICK cell, n : cell = FrontItem.cells[worker.ref] /\ n = worker.ref + 1
    OBVIOUS
  <1>4. PICK q, streamed : q = [worker.request EXCEPT
                                   !.chunks = worker.request.chunks \cup {cell.chunk}]
                           /\ streamed = worker.streamed \cup {cell.chunk}
    OBVIOUS
  <1>5. PICK sent : sent = IF ~Sendable(cell) THEN worker
                           ELSE [worker EXCEPT !.request = q, !.streamed = streamed]
    OBVIOUS
  <1>6. PICK w : w = [sent EXCEPT !.ref = n]
    OBVIOUS
  <1>7. Looked(w)
    <2>1. CASE ~Sendable(cell)
      <3>1. w = [worker EXCEPT !.ref = n]
        BY <1>5, <1>6, <2>1
      <3>2. /\ IsWorker(w) /\ w.pc = worker.pc /\ w.stream = worker.stream
            /\ w.streamed = worker.streamed /\ w.request = worker.request
        BY <1>2, <3>1 DEF IsWorker
      <3> QED
        BY <1>2, <3>2 DEF Looked
    <2>2. CASE Sendable(cell)
      <3>1. w = [worker EXCEPT !.request = q, !.streamed = streamed, !.ref = n]
        BY <1>2, <1>5, <1>6, <2>2 DEF IsWorker
      <3>2. /\ IsRequest(q) /\ q.items = worker.request.items
            /\ q.chunks = worker.request.chunks \cup {cell.chunk}
        BY <1>2, <1>4 DEF IsRequest
      <3>3. /\ IsWorker(w) /\ w.pc = worker.pc /\ w.stream = worker.stream
            /\ w.streamed = streamed /\ w.request = q
        BY <1>2, <3>1, <3>2 DEF IsWorker
      <3>4. Prepared(stream[worker.stream], worker.streamed, worker.request)
        BY <1>2 DEF Looked
      <3>5. Prepared(stream[worker.stream], streamed, q)
        BY <1>4, <3>2, <3>4 DEF Prepared
      <3> QED
        BY <1>2, <3>3, <3>5 DEF Looked
    <2> QED
      BY <2>1, <2>2
  <1>8. sent.ref = worker.ref
    BY <1>2, <1>5 DEF IsWorker
  <1>9. IF sent # worker /\ sent.request.chunks \cap LargeChunks # {}
        THEN WriteIfNotEmpty(w, writer, "refs")
        ELSE IF w.ref <= Len(FrontItem.cells)
        THEN worker' = w /\ UNCHANGED <<writer, stream>>
        ELSE AfterChunks(w)
    BY <1>3, <1>4, <1>5, <1>6, <1>8 DEF SendChunk
  <1>10. CASE WriteIfNotEmpty(w, writer, "refs")
    BY <1>1, <1>7, <1>10, AfterWrite
  <1>11. CASE worker' = w /\ UNCHANGED <<writer, stream>>
    <2>1. w = [w EXCEPT !.pc = "refs"]
      BY <1>7 DEF Looked, IsWorker
    <2> QED
      BY <1>1, <1>7, <1>11, <2>1, GoesOn
  <1>12. CASE AfterChunks(w)
    BY <1>1, <1>7, <1>12, AfterChunksStep
  <1> QED
    BY <1>9, <1>10, <1>11, <1>12

LEMMA ItemsEvolve ==
    ASSUME NEW wr, NEW c, ItemsOk(wr, c), NEW wr2, NEW d, Evolves(c, d),
           ItemsOf(wr2) \subseteq ItemsOf(wr)
    PROVE  ItemsOk(wr2, d)
  BY DEF ItemsOk, Evolves

LEMMA MoveItemStep ==
    ASSUME TrajectoryInv, MoveItem
    PROVE  TrajectoryInv'
  <1>1. worker.pc = "move" /\ chunker' \in OnItemFinalized(chunker)
        /\ UNCHANGED <<client, table>>
    BY DEF MoveItem
  <1>2. /\ worker.stream \in Streams /\ worker.stream # 0 /\ IsWorker(worker)
        /\ IsRequest(worker.request) /\ IsWriter(writer)
    BY <1>1 DEF TrajectoryInv, IsWorker
  <1>3. PICK s, queue, front : /\ s = worker.stream /\ queue = writer.write_queue
                               /\ front = FrontItem
    OBVIOUS
  <1>4. /\ stream[s].open /\ queue # << >> /\ IsSeq(queue)
        /\ ChunksOf(front) \subseteq worker.streamed /\ front = Head(queue)
        /\ Prepared(stream[s], worker.streamed, worker.request)
    BY <1>1, <1>2, <1>3
       DEF TrajectoryInv, OnStream, Knows, HasFront, FrontItem, IsWriter
  <1>5. PICK rest : rest = Tail(queue)
    OBVIOUS
  <1>6. IsSeq(rest) /\ ToSet(queue) = {front} \cup ToSet(rest)
    BY <1>4, <1>5, TailSeq
  <1>7. PICK items, streamed, n, flying :
           /\ items = Append(worker.request.items, front)
           /\ streamed = KeepKeys(worker.streamed, rest) /\ n = worker.batch - 1
           /\ flying = writer.in_flight_items \cup {front}
    OBVIOUS
  <1>8. PICK q : q = [worker.request EXCEPT !.items = items]
    OBVIOUS
  <1>9. PICK w : w = [worker EXCEPT !.streamed = streamed, !.request = q,
                                    !.batch = n, !.pc = "top", !.ref = 0]
    OBVIOUS
  <1>10. PICK wr : wr = [writer EXCEPT !.write_queue = rest,
                                       !.in_flight_items = flying]
    OBVIOUS
  <1>11. streamed \subseteq worker.streamed
    BY <1>7 DEF KeepKeys
  <1>12. front.key \in Nat
    BY <1>3, <1>6 DEF TrajectoryInv, ItemsOk, ItemsOf
  <1>13. /\ IsSeq(items) /\ DOMAIN items = 1 .. Len(worker.request.items) + 1
         /\ \A i \in DOMAIN items : \/ /\ i \in DOMAIN worker.request.items
                                       /\ items[i] = worker.request.items[i]
                                    \/ items[i] = front
    <2>1. PICK is : is = worker.request.items
      OBVIOUS
    <2>2. IsSeq(is)
      BY <1>2, <2>1 DEF IsRequest
    <2>3. /\ IsSeq(items) /\ Len(items) = Len(is) + 1
          /\ \A i \in 1 .. Len(is) : items[i] = is[i]
          /\ items[Len(is) + 1] = front
      BY <1>7, <2>1, <2>2, AppendSeq
    <2>4. /\ Len(is) \in Nat /\ DOMAIN is = 1 .. Len(is)
          /\ DOMAIN items = 1 .. Len(items)
      BY <2>2, <2>3, IsSeqFacts
    <2>5. \A i \in 1 .. Len(is) + 1 : i \in 1 .. Len(is) \/ i = Len(is) + 1
      BY <2>4
    <2> QED
      BY <2>1, <2>3, <2>4, <2>5
  <1>14. IsRequest(q) /\ q.items = items /\ q.chunks = worker.request.chunks
    <2>1. \A i \in DOMAIN items : items[i].key \in Nat
      BY <1>2, <1>12, <1>13 DEF IsRequest
    <2> QED
      BY <1>2, <1>8, <1>13, <2>1 DEF IsRequest
  <1>15. /\ IsWorker(w) /\ w.pc = "top" /\ w.stream = s /\ w.streamed = streamed
         /\ w.request = q /\ w.batch = n
    BY <1>2, <1>3, <1>9, <1>14 DEF IsWorker
  <1>16. Prepared(stream[s], streamed, q)
    BY <1>4, <1>11, <1>13, <1>14 DEF Prepared
  <1>17. /\ IsWriter(wr) /\ wr.write_queue = rest /\ wr.in_flight_items = flying
         /\ wr.reading = writer.reading
    <2>1. IsFiniteSet(flying)
      BY <1>2, <1>7, FS_AddElement DEF IsWriter
    <2> QED
      BY <1>2, <1>6, <1>10, <2>1 DEF IsWriter
  <1>18. ItemsOf(wr) = ItemsOf(writer)
    BY <1>3, <1>6, <1>7, <1>17 DEF ItemsOf
  <1>19. IF n = 0 THEN WriteIfNotEmpty(w, wr, "top")
         ELSE worker' = w /\ writer' = wr /\ UNCHANGED stream
    <2>1. w = [worker EXCEPT !.streamed = KeepKeys(worker.streamed, rest),
                             !.request.items = Append(worker.request.items, FrontItem),
                             !.batch = worker.batch - 1, !.pc = "top", !.ref = 0]
      BY <1>2, <1>3, <1>7, <1>8, <1>9 DEF IsWorker
    <2> QED
      BY <1>3, <1>5, <1>7, <1>10, <1>15, <2>1 DEF MoveItem
  <1>20. /\ ServerInv' /\ IsWorker(worker') /\ IsWriter(writer')
         /\ worker'.stream = s /\ worker'.pc \in {"top", "writing"}
         /\ worker'.pc = "writing" => worker'.next = "top"
         /\ stream'[s].open /\ Knows(worker', stream'[s])
         /\ writer'.write_queue = rest /\ writer'.in_flight_items = flying
         /\ writer'.reading = writer.reading
    <2>1. CASE n = 0
      <3>1. Written(w, wr, "top")
        BY <1>1, <1>2, <1>3, <1>4, <1>15, <1>16, <1>17, <1>19, <2>1, WriteStep
           DEF TrajectoryInv
      <3> QED
        BY <1>15, <1>17, <3>1 DEF Written
    <2>2. CASE n # 0
      <3>1. worker' = w /\ writer' = wr /\ stream' = stream
        BY <1>19, <2>2
      <3>2. ServerInv'
        BY <1>1, <3>1, ServerStays DEF TrajectoryInv
      <3>3. Knows(w, stream[s])
        BY <1>15, <1>16 DEF Knows
      <3> QED
        BY <1>4, <1>15, <1>17, <3>1, <3>2, <3>3
    <2> QED
      BY <2>1, <2>2
  <1>21. ChunkerOk(chunker') /\ Evolves(chunker, chunker')
    BY <1>1, FinalizedFacts DEF TrajectoryInv
  <1>22. ItemsOf(writer') = ItemsOf(writer)
    BY <1>17, <1>18, <1>20 DEF ItemsOf
  <1>23. ItemsOk(writer', chunker')
    BY <1>21, <1>22, ItemsEvolve DEF TrajectoryInv
  <1>24. Booked(client'.made, writer', table'.items)
    BY <1>1, <1>22 DEF TrajectoryInv, Booked
  <1>25. HasFront(worker', writer'.write_queue)
    BY <1>20 DEF HasFront
  <1>26. OnStream(worker, writer.reading)'
    BY <1>2, <1>3, <1>20 DEF OnStream
  <1> QED
    BY <1>1, <1>20, <1>21, <1>23, <1>24, <1>25, <1>26 DEF TrajectoryInv

\* The sequences of the elements of a set.
LEMMA SetToSeqsFacts ==
    ASSUME NEW S, IsFiniteSet(S), NEW seq \in SetToSeqs(S)
    PROVE  IsSeq(seq) /\ ToSet(seq) = S
  <1>1. PICK n : n = Cardinality(S)
    OBVIOUS
  <1>2. n \in Nat
    BY <1>1, FS_CardinalityType
  <1>3. /\ seq \in [1 .. n -> S]
        /\ \A i, j \in 1 .. n : i # j => seq[i] # seq[j]
    BY <1>1 DEF SetToSeqs
  <1>4. seq \in Injection(1 .. n, S)
    BY <1>3 DEF Injection, IsInjective
  <1>5. Cardinality(1 .. n) = n
    BY <1>2, FS_Interval
  <1>6. seq \in Surjection(1 .. n, S)
    BY <1>1, <1>4, <1>5, FS_Injection
  <1>7. \A x \in S : \E i \in 1 .. n : seq[i] = x
    BY <1>6 DEF Surjection
  <1>8. IsSeq(seq) /\ Len(seq) = n
    <2>1. seq = [i \in 1 .. n |-> seq[i]]
      BY <1>3
    <2> QED
      BY <1>2, <2>1, FunctionIsSeq
  <1>9. \A x : x \in ToSet(seq) <=> \E i \in 1 .. n : x = seq[i]
    BY <1>8, IsSeqFacts
  <1> QED
    BY <1>3, <1>7, <1>8, <1>9

LEMMA WorkerReturnsStep ==
    ASSUME TrajectoryInv, WorkerReturns
    PROVE  TrajectoryInv'
  <1>1. worker.pc = "finish" /\ UNCHANGED <<client, chunker, stream, table>>
    BY DEF WorkerReturns
  <1>2. IsWorker(worker) /\ IsWriter(writer)
    BY DEF TrajectoryInv
  <1>3. ASSUME NEW pc \in {"stopped", "connect"}, worker' = [worker EXCEPT !.pc = pc]
        PROVE  /\ IsWorker(worker') /\ worker'.pc = pc
               /\ worker'.stream = worker.stream
               /\ \A queue : HasFront(worker', queue)
               /\ \A str : Knows(worker', str)
    <2>1. IsWorker(worker') /\ worker'.pc = pc /\ worker'.stream = worker.stream
      BY <1>2, <1>3 DEF IsWorker
    <2> QED
      BY <2>1 DEF HasFront, Knows
  <1>4. CASE worker' = [worker EXCEPT !.pc = "stopped"]
    <2>1. PICK st : writer' = [writer EXCEPT !.unrecoverable_status = st]
      <3>1. worker'.pc = "stopped"
        BY <1>3, <1>4
      <3>2. worker' # [worker EXCEPT !.pc = "connect"]
        BY <1>2, <3>1 DEF IsWorker
      <3> QED
        BY <3>2 DEF WorkerReturns
    <2>2. /\ IsWriter(writer') /\ writer'.write_queue = writer.write_queue
          /\ writer'.in_flight_items = writer.in_flight_items
          /\ writer'.reading = writer.reading
      BY <1>2, <2>1 DEF IsWriter
    <2> QED
      BY <1>1, <1>3, <1>4, <2>2, QuietStep
  <1>5. CASE worker' = [worker EXCEPT !.pc = "connect"]
    <2>1. worker'.pc = "connect"
      BY <1>3, <1>5
    <2>2. worker' # [worker EXCEPT !.pc = "stopped"]
      BY <1>2, <2>1 DEF IsWorker
    <2>3. PICK items \in SetToSeqs(writer.in_flight_items) :
             writer' = [writer EXCEPT !.write_queue = Requeued(items),
                                      !.in_flight_items = {}]
      BY <2>2 DEF WorkerReturns
    <2>4. PICK queue : queue = items \o writer.write_queue
      OBVIOUS
    <2>5. IsSeq(items) /\ ToSet(items) = writer.in_flight_items
      BY <1>2, SetToSeqsFacts DEF IsWriter
    <2>6. IsSeq(queue) /\ ToSet(queue) = ToSet(items) \cup ToSet(writer.write_queue)
      BY <1>2, <2>4, <2>5, ConcatSeq DEF IsWriter
    <2>7. /\ IsWriter(writer') /\ writer'.write_queue = queue
          /\ writer'.in_flight_items = {} /\ writer'.reading = writer.reading
      BY <1>2, <2>3, <2>4, <2>6, FS_EmptySet DEF IsWriter, Requeued
    <2>8. ItemsOf(writer') = ItemsOf(writer)
      BY <2>5, <2>6, <2>7 DEF ItemsOf
    <2>9. ServerInv'
      BY <1>1, ServerStays DEF TrajectoryInv
    <2>10. OnStream(worker, writer.reading)'
      BY <1>1, <1>3, <1>5, <2>7 DEF TrajectoryInv, OnStream
    <2> QED
      BY <1>1, <1>3, <1>5, <2>7, <2>8, <2>9, <2>10 DEF TrajectoryInv, ItemsOk, Booked
  <1> QED
    BY <1>4, <1>5 DEF WorkerReturns

-----------------------------------------------------------------------------
(* Callbacks, the client and the servers. *)

LEMMA SignalledFacts ==
    ASSUME NEW w, IsWorker(w), NEW w2,
           w2 = w \/ w2 = IF w.pc = "asleep" THEN [w EXCEPT !.pc = "top"] ELSE w
    PROVE  /\ IsWorker(w2) /\ w2.stream = w.stream
           /\ \A queue : HasFront(w, queue) => HasFront(w2, queue)
           /\ \A str : Knows(w, str) => Knows(w2, str)
  <1>1. CASE w2 = w
    BY <1>1
  <1>2. CASE w2 # w
    <2>1. w.pc = "asleep" /\ w2 = [w EXCEPT !.pc = "top"]
      BY <1>2
    <2>2. /\ IsWorker(w2) /\ w2.pc = "top" /\ w2.stream = w.stream
          /\ w2.streamed = w.streamed /\ w2.request = w.request
      BY <2>1 DEF IsWorker
    <2> QED
      BY <2>1, <2>2 DEF HasFront, Knows
  <1> QED
    BY <1>1, <1>2

LEMMA KnowsKept ==
    ASSUME NEW w, NEW str, Knows(w, str), NEW str2, Keeps(str, str2)
    PROVE  Knows(w, str2)
  BY HasKept DEF Knows, Prepared

\* A step that makes no item and sends nothing.
LEMMA CalmStep ==
    ASSUME TrajectoryInv, ServerInv', table.items \subseteq table'.items,
           \A t \in Streams : Keeps(stream[t], stream'[t]),
           IsWriter(writer'), writer'.write_queue = writer.write_queue,
           writer'.in_flight_items \subseteq writer.in_flight_items,
           \A x \in writer.in_flight_items :
               x \in writer'.in_flight_items \/ x.key \in table.items,
           writer'.reading => writer.reading,
           worker' = worker \/ worker' = Signalled,
           IsClient(client'), client'.made = client.made,
           ChunkerOk(chunker'), Evolves(chunker, chunker')
    PROVE  TrajectoryInv'
  <1>1. /\ IsWorker(worker') /\ worker'.stream = worker.stream
        /\ HasFront(worker', writer.write_queue)
        /\ \A str : Knows(worker, str) => Knows(worker', str)
    BY SignalledFacts DEF TrajectoryInv, Signalled
  <1>2. OnStream(worker, writer.reading)'
    <2>1. ASSUME worker.stream # 0
          PROVE  /\ stream'[worker.stream].open
                 /\ Knows(worker', stream'[worker.stream])
      <3>1. worker.stream \in Streams
        BY <2>1 DEF TrajectoryInv, IsWorker
      <3>2. /\ stream[worker.stream].open /\ Knows(worker, stream[worker.stream])
            /\ Keeps(stream[worker.stream], stream'[worker.stream])
        BY <2>1, <3>1 DEF TrajectoryInv, OnStream
      <3> QED
        BY <1>1, <3>2, KnowsKept DEF Keeps
    <2> QED
      BY <1>1, <2>1 DEF TrajectoryInv, OnStream
  <1>3. ItemsOf(writer') \subseteq ItemsOf(writer)
    BY DEF ItemsOf
  <1>4. ItemsOk(writer', chunker')
    BY <1>3, ItemsEvolve DEF TrajectoryInv
  <1>5. Booked(client'.made, writer', table'.items)
    <2>1. ASSUME NEW x \in ItemsOf(writer)
          PROVE  x \in ItemsOf(writer') \/ x.key \in table'.items
      BY DEF ItemsOf
    <2>2. Booked(client.made, writer, table.items)
      BY DEF TrajectoryInv
    <2>3. ASSUME NEW item \in ToSet(client.made)
          PROVE  item.key \in table'.items \/ \E x \in ItemsOf(writer') : x.key = item.key
      <3>1. CASE item.key \in table.items
        BY <3>1
      <3>2. CASE item.key \notin table.items
        <4>1. PICK x \in ItemsOf(writer) : x.key = item.key
          BY <2>2, <3>2 DEF Booked
        <4> QED
          BY <2>1, <4>1
      <3> QED
        BY <3>1, <3>2
    <2> QED
      BY <2>3 DEF Booked
  <1> QED
    BY <1>1, <1>2, <1>4, <1>5 DEF TrajectoryInv

\* A step that leaves the streams and the items alone.
LEMMA LocalStep ==
    ASSUME TrajectoryInv, stream' = stream, table' = table,
           IsWriter(writer'), writer'.write_queue = writer.write_queue,
           writer'.in_flight_items = writer.in_flight_items,
           writer'.reading => writer.reading,
           worker' = worker \/ worker' = Signalled,
           IsClient(client'), client'.made = client.made,
           ChunkerOk(chunker'), Evolves(chunker, chunker')
    PROVE  TrajectoryInv'
  <1>1. ServerInv'
    BY ServerStays DEF TrajectoryInv
  <1>2. \A t \in Streams : Keeps(stream[t], stream'[t])
    BY DEF Keeps
  <1> QED
    BY <1>1, <1>2, CalmStep

LEMMA CallbackStep ==
    ASSUME TrajectoryInv, CallbackNext
    PROVE  TrajectoryInv'
  <1>1. /\ IsWriter(writer) /\ IsClient(client) /\ ChunkerOk(chunker)
        /\ Evolves(chunker, chunker)
    BY EvolvesNot DEF TrajectoryInv
  <1>2. CASE OnRead
    <2>1. /\ writer.reading /\ CanRead(worker.stream)
          /\ stream' = ReadFrom(worker.stream) /\ worker' = Signalled
          /\ client' = client /\ chunker' = chunker /\ table' = table
      BY <1>2 DEF OnRead
    <2>2. worker.stream \in Streams /\ stream[worker.stream].open
      BY <2>1 DEF TrajectoryInv, OnStream, IsWorker
    <2>3. /\ ServerInv' /\ ToSet(Response(worker.stream)) \subseteq table.items
          /\ \A t \in Streams : Keeps(stream[t], stream'[t])
      BY <2>1, <2>2, ReadFromStep DEF TrajectoryInv
    <2>4. PICK flying : flying = {i \in writer.in_flight_items :
                                     i.key \notin ToSet(Response(worker.stream))}
      OBVIOUS
    <2>5. writer' = [writer EXCEPT !.in_flight_items = flying]
      BY <1>2, <2>4 DEF OnRead
    <2>6. IsFiniteSet(flying) /\ flying \subseteq writer.in_flight_items
      BY <1>1, <2>4, FS_Subset DEF IsWriter
    <2>7. /\ IsWriter(writer') /\ writer'.write_queue = writer.write_queue
          /\ writer'.in_flight_items = flying /\ writer'.reading = writer.reading
      BY <1>1, <2>5, <2>6 DEF IsWriter
    <2>8. \A x \in writer.in_flight_items : x \in flying \/ x.key \in table.items
      BY <2>3, <2>4
    <2> QED
      BY <1>1, <2>1, <2>3, <2>6, <2>7, <2>8, CalmStep
  <1>3. CASE OnReadFails \/ OnWritten
    <2>1. /\ IsWriter(writer') /\ writer'.write_queue = writer.write_queue
          /\ writer'.in_flight_items = writer.in_flight_items
          /\ writer'.reading => writer.reading
      BY <1>1, <1>3 DEF OnReadFails, OnWritten, IsWriter
    <2>2. /\ stream' = stream /\ table' = table /\ client' = client
          /\ chunker' = chunker /\ (worker' = worker \/ worker' = Signalled)
      BY <1>3 DEF OnReadFails, OnWritten
    <2> QED
      BY <1>1, <2>1, <2>2, LocalStep
  <1> QED
    BY <1>2, <1>3 DEF CallbackNext

LEMMA CallFailsStep ==
    ASSUME TrajectoryInv, NEW status, CallFails(status)
    PROVE  TrajectoryInv'
  <1>1. IsClient(client') /\ client'.made = client.made
    BY DEF CallFails, Returns, TrajectoryInv, IsClient
  <1> QED
    BY <1>1, LocalStep, EvolvesNot DEF CallFails, TrajectoryInv

LEMMA AppendCellStep ==
    ASSUME TrajectoryInv, NEW increment, AppendCell(increment)
    PROVE  TrajectoryInv'
  <1>1. CASE \E status : CallFails(status)
    BY <1>1, CallFailsStep
  <1>2. CASE /\ chunker' = AppendToChunker(chunker, client.episode, client.step)
             /\ client' = [client EXCEPT !.appended = @ + 1,
                               !.pc = IF increment THEN "append" ELSE "partial"]
             /\ UNCHANGED <<writer, worker, stream, table>>
    <2>1. PICK n, pc : /\ n = client.appended + 1
                       /\ pc = IF increment THEN "append" ELSE "partial"
      OBVIOUS
    <2>2. client' = [client EXCEPT !.appended = n, !.pc = pc] /\ pc # "end_clear"
      BY <1>2, <2>1
    <2>3. IsClient(client') /\ client'.made = client.made
      BY <2>2 DEF TrajectoryInv, IsClient
    <2>4. ChunkerOk(chunker') /\ Evolves(chunker, chunker')
      BY <1>2, AppendFacts DEF TrajectoryInv
    <2> QED
      BY <1>2, <2>3, <2>4, LocalStep DEF TrajectoryInv
  <1> QED
    BY <1>1, <1>2 DEF AppendCell

LEMMA AppendReturnsStep ==
    ASSUME TrajectoryInv, AppendReturns
    PROVE  TrajectoryInv'
  <1>1. PICK n : n = IF client.pc = "append" THEN client.step + 1 ELSE client.step
    OBVIOUS
  <1>2. client' = [client EXCEPT !.pc = "idle", !.ignore = 0, !.step = n]
    BY <1>1 DEF AppendReturns, Returns, TrajectoryInv, IsClient
  <1>3. IsClient(client') /\ client'.made = client.made
    BY <1>2 DEF TrajectoryInv, IsClient
  <1> QED
    BY <1>3, LocalStep, EvolvesNot DEF AppendReturns, TrajectoryInv

\* The client takes the cells of an item from the references it has.
LEMMA SelectionFacts ==
    ASSUME ChunkerOk(chunker), NEW n \in Nat \ {0}, NEW d \in Nat \ {0},
           Selection(n, d) # << >>
    PROVE  \A cell \in ToSet(Selection(n, d)) : Usable(chunker, cell)
  <1>1. PICK refs, k : refs = chunker.active_refs /\ k = Len(refs)
    OBVIOUS
  <1>2. /\ IsChunker(chunker) /\ InOrder(chunker) /\ k \in Nat
        /\ \A i \in 1 .. k : refs[i] \in ToSet(refs)
    BY <1>1, IsSeqFacts DEF ChunkerOk, IsChunker
  <1>3. PICK cells : cells = [i \in 1 .. n |-> refs[k - (n - i) * d]]
    OBVIOUS
  <1>4. Selection(n, d) = cells /\ ~(1 + (n - 1) * d > k)
    BY <1>1, <1>3 DEF Selection
  <1>5. ASSUME NEW i \in 1 .. n PROVE cells[i] \in ToSet(refs)
    <2>1. PICK a, b, m : a = (n - i) * d /\ b = (i - 1) * d /\ m = (n - 1) * d
      OBVIOUS
    <2>2. n - i \in Nat /\ i - 1 \in Nat
      OBVIOUS
    <2>3. a \in Nat /\ b \in Nat /\ m \in Int
      BY <2>1, <2>2
    <2>4. m = a + b
      BY <2>1
    <2>5. k - a \in 1 .. k
      BY <1>2, <1>4, <2>1, <2>3, <2>4
    <2> QED
      BY <1>2, <1>3, <2>1, <2>5
  <1>6. \A cell \in ToSet(cells) : cell \in ToSet(refs)
    <2>1. DOMAIN cells = 1 .. n
      BY <1>3
    <2> QED
      BY <1>5, <2>1 DEF ToSet
  <1> QED
    BY <1>1, <1>2, <1>4, <1>6, ActiveUsable

LEMMA CreateItemStep ==
    ASSUME TrajectoryInv, NEW t, NEW n \in Nat \ {0}, NEW d \in Nat \ {0},
           CreateItem(t, n, d)
    PROVE  TrajectoryInv'
  <1>1. CASE \E status : CallFails(status)
    BY <1>1, CallFailsStep
  <1>2. CASE /\ writer' = [writer EXCEPT !.write_queue =
                               Append(@, NewItem(t, Selection(n, d)))]
             /\ client' = [Returns("ok") EXCEPT !.made =
                               Append(@, NewItem(t, Selection(n, d)))]
             /\ UNCHANGED <<worker, chunker, stream, table>>
    <2>1. PICK cells, slices, key :
             /\ cells = Selection(n, d) /\ slices = MergeAdjacent(cells)
             /\ key = Len(client.made) + 1
      OBVIOUS
    <2>2. PICK item : item = [key |-> key, table |-> t, cells |-> cells,
                              slices |-> slices]
      OBVIOUS
    <2>3. PICK queue, made : /\ queue = Append(writer.write_queue, item)
                             /\ made = Append(client.made, item)
      OBVIOUS
    <2>4. IsWriter(writer) /\ IsClient(client)
      BY DEF TrajectoryInv
    <2>5. NewItem(t, Selection(n, d)) = item
      BY <2>1, <2>2 DEF NewItem
    <2>6. /\ writer' = [writer EXCEPT !.write_queue = queue]
          /\ client' = [client EXCEPT !.pc = "idle", !.ignore = 0, !.made = made]
      BY <1>2, <2>3, <2>4, <2>5 DEF Returns, IsClient
    <2>7. /\ IsSeq(queue) /\ ToSet(queue) = ToSet(writer.write_queue) \cup {item}
          /\ IsSeq(made) /\ ToSet(made) = ToSet(client.made) \cup {item}
      BY <2>3, <2>4, AppendSeq DEF IsWriter, IsClient
    <2>8. queue # << >> /\ (writer.write_queue # << >> => Head(queue) = Head(writer.write_queue))
      <3>1. PICK q : q = writer.write_queue
        OBVIOUS
      <3>2. IsSeq(q) /\ queue = Append(q, item)
        BY <2>3, <2>4, <3>1 DEF IsWriter
      <3>3. /\ Len(queue) = Len(q) + 1 /\ \A i \in 1 .. Len(q) : queue[i] = q[i]
            /\ Len(q) \in Nat
        BY <3>2, AppendSeq, IsSeqFacts
      <3>4. queue # << >>
        BY <2>7, <3>3, IsSeqFacts
      <3>5. q # << >> => 1 \in 1 .. Len(q)
        BY <3>2, <3>3, IsSeqFacts
      <3>6. Head(queue) = queue[1] /\ (q # << >> => Head(q) = q[1])
        BY <2>7, <3>2, <3>4, TailSeq
      <3> QED
        BY <3>1, <3>3, <3>4, <3>5, <3>6
    <2>9. /\ IsWriter(writer') /\ writer'.write_queue = queue
          /\ writer'.in_flight_items = writer.in_flight_items
          /\ writer'.reading = writer.reading
      BY <2>4, <2>6, <2>7 DEF IsWriter
    <2>10. IsClient(client') /\ client'.made = made
      BY <2>4, <2>6, <2>7 DEF IsClient
    <2>11. ItemsOf(writer') = ItemsOf(writer) \cup {item}
      BY <2>7, <2>9 DEF ItemsOf
    <2>12. item.key \in Nat /\ \A cell \in ToSet(item.cells) : Usable(chunker, cell)
      <3>1. item.key = key /\ item.cells = cells
        BY <2>2
      <3>2. key \in Nat
        BY <2>1, <2>4, IsSeqFacts DEF IsClient
      <3>3. cells # << >>
        BY <2>1 DEF CreateItem
      <3> QED
        BY <2>1, <3>1, <3>2, <3>3, SelectionFacts DEF TrajectoryInv
    <2>13. ItemsOk(writer', chunker')
      BY <1>2, <2>11, <2>12 DEF TrajectoryInv, ItemsOk
    <2>14. Booked(client'.made, writer', table'.items)
      BY <1>2, <2>7, <2>10, <2>11 DEF TrajectoryInv, Booked
    <2>15. HasFront(worker', writer'.write_queue)
      BY <1>2, <2>8, <2>9 DEF TrajectoryInv, HasFront
    <2>16. ServerInv'
      BY <1>2, ServerStays DEF TrajectoryInv
    <2>17. OnStream(worker, writer.reading)'
      BY <1>2, <2>9 DEF TrajectoryInv, OnStream
    <2> QED
      BY <1>2, <2>9, <2>10, <2>13, <2>14, <2>15, <2>16, <2>17 DEF TrajectoryInv
  <1> QED
    BY <1>1, <1>2 DEF CreateItem

LEMMA WaitForStep ==
    ASSUME TrajectoryInv, NEW ignore, NEW pc, WaitFor(ignore, pc),
           pc = "end_clear" => ignore = 0
    PROVE  TrajectoryInv'
  <1>1. IsClient(client') /\ client'.made = client.made
    BY DEF WaitFor, TrajectoryInv, IsClient
  <1>2. chunker' = chunker \/ chunker' = FlushChunker(chunker)
    BY DEF WaitFor, ForceChunks
  <1>3. ChunkerOk(chunker') /\ Evolves(chunker, chunker')
    BY <1>2, FlushOk, EvolvesNot DEF TrajectoryInv
  <1> QED
    BY <1>1, <1>3, LocalStep DEF WaitFor, TrajectoryInv

LEMMA EndEpisodeReturnsStep ==
    ASSUME TrajectoryInv, EndEpisodeReturns
    PROVE  TrajectoryInv'
  <1>1. CASE \E status : CallFails(status)
    BY <1>1, CallFailsStep
  <1>2. CASE ~\E status : CallFails(status)
    <2>1. PICK n : n = client.episode + 1
      OBVIOUS
    <2>2. /\ client.pc \in {"end", "end_clear"} /\ Flushed
          /\ chunker' = IF client.pc = "end" THEN FlushChunker(chunker)
                        ELSE Reset(chunker)
          /\ client' = [Returns("ok") EXCEPT !.episode = @ + 1, !.step = 0]
          /\ UNCHANGED <<writer, worker, stream, table>>
      BY <1>2 DEF EndEpisodeReturns
    <2>3. client' = [client EXCEPT !.pc = "idle", !.ignore = 0, !.episode = n,
                                   !.step = 0]
      BY <2>1, <2>2 DEF Returns, TrajectoryInv, IsClient
    <2>4. IsClient(client') /\ client'.made = client.made
      BY <2>3 DEF TrajectoryInv, IsClient
    <2>5. CASE client.pc = "end"
      <3>1. ChunkerOk(chunker') /\ Evolves(chunker, chunker')
        BY <2>2, <2>5, FlushOk DEF TrajectoryInv
      <3> QED
        BY <2>2, <2>4, <3>1, LocalStep DEF TrajectoryInv
    <2>6. CASE client.pc = "end_clear"
      <3>1. ChunkerOk(chunker')
        BY <2>2, <2>6, ResetFacts DEF TrajectoryInv
      <3>2. ItemsOf(writer) = {}
        <4>1. PICK a, b : a = Len(writer.write_queue)
                          /\ b = Cardinality(writer.in_flight_items)
          OBVIOUS
        <4>2. a + b <= client.ignore /\ client.ignore = 0
          BY <2>2, <2>6, <4>1 DEF Flushed, TrajectoryInv, IsClient
        <4>3. a \in Nat /\ b \in Nat
          BY <4>1, IsSeqFacts, FS_CardinalityType DEF TrajectoryInv, IsWriter
        <4>4. a = 0 /\ b = 0
          BY <4>2, <4>3
        <4>5. writer.write_queue = << >>
          <5>1. PICK q : q = writer.write_queue
            OBVIOUS
          <5>2. IsSeq(q)
            BY <5>1 DEF TrajectoryInv, IsWriter
          <5>3. Len(q) = 0
            BY <4>1, <4>4, <5>1
          <5>4. ~(Len(q) > 0)
            BY <5>3
          <5> QED
            BY <5>1, <5>2, <5>4, IsSeqFacts
        <4>6. writer.in_flight_items = {}
          BY <4>1, <4>4, FS_EmptySet DEF TrajectoryInv, IsWriter
        <4> QED
          BY <4>5, <4>6, EmptyIsSeq DEF ItemsOf
      <3>3. ItemsOk(writer', chunker')
        BY <2>2, <3>2 DEF ItemsOk
      <3>4. ServerInv'
        BY <2>2, ServerStays DEF TrajectoryInv
      <3>5. OnStream(worker, writer.reading)'
        BY <2>2 DEF TrajectoryInv, OnStream
      <3> QED
        BY <2>2, <2>4, <3>1, <3>3, <3>4, <3>5 DEF TrajectoryInv, Booked
    <2> QED
      BY <2>2, <2>5, <2>6
  <1> QED
    BY <1>1, <1>2

LEMMA CloseWriterStep ==
    ASSUME TrajectoryInv, CloseWriter, table' = table, chunker' = chunker,
           IsClient(client'), client'.made = client.made
    PROVE  TrajectoryInv'
  <1>1. /\ IsWriter(writer') /\ writer'.write_queue = writer.write_queue
        /\ writer'.in_flight_items = writer.in_flight_items
        /\ writer'.reading = writer.reading
    BY DEF CloseWriter, TrajectoryInv, IsWriter
  <1>2. ServerInv' /\ \A t \in Streams : Keeps(stream[t], stream'[t])
    <2>1. CASE worker.stream = 0
      <3>1. stream' = stream
        BY <2>1 DEF CloseWriter
      <3> QED
        BY <3>1, ServerStays DEF TrajectoryInv, Keeps
    <2>2. CASE worker.stream # 0
      <3>1. worker.stream \in Streams /\ stream[worker.stream].open
        BY <2>2 DEF TrajectoryInv, OnStream, IsWorker
      <3> QED
        BY <2>2, <3>1, CancelledStep DEF TrajectoryInv, CloseWriter
    <2> QED
      BY <2>1, <2>2
  <1> QED
    BY <1>1, <1>2, CalmStep, EvolvesNot DEF CloseWriter, TrajectoryInv

LEMMA DestroyReturnsStep ==
    ASSUME TrajectoryInv, DestroyReturns
    PROVE  TrajectoryInv'
  <1>1. IsClient(client') /\ client'.made = client.made
    BY DEF DestroyReturns, TrajectoryInv, IsClient
  <1> QED
    BY <1>1, CloseWriterStep, LocalStep, EvolvesNot DEF DestroyReturns, TrajectoryInv

LEMMA ConfigureChunkerStep ==
    ASSUME TrajectoryInv, NEW o, o.max_chunk_length \in Nat,
           o.num_keep_alive_refs \in Nat, ConfigureChunker(o)
    PROVE  TrajectoryInv'
  <1>1. CASE MayApplyConfig(chunker, o)
    <2>1. ChunkerOk(chunker') /\ Evolves(chunker, chunker')
      BY <1>1, ConfigFacts DEF ConfigureChunker, TrajectoryInv
    <2>2. IsClient(client') /\ client'.made = client.made
      BY <1>1 DEF ConfigureChunker, Returns, TrajectoryInv, IsClient
    <2> QED
      BY <1>1, <2>1, <2>2, LocalStep DEF ConfigureChunker, TrajectoryInv
  <1>2. CASE ~MayApplyConfig(chunker, o)
    BY <1>2, CallFailsStep DEF ConfigureChunker
  <1> QED
    BY <1>1, <1>2

-----------------------------------------------------------------------------
(* The invariant holds. *)

LEMMA TrajectoryInit ==
    ASSUME ConstantsOk, Init
    PROVE  TrajectoryInv
  <1>1. ServerInv
    BY ServerInvInit DEF Init
  <1>2. PICK empty, q : empty = << >> /\ q = NoRequest
    OBVIOUS
  <1>3. IsSeq(empty) /\ ToSet(empty) = {} /\ IsRequest(q)
    BY <1>2, EmptyIsSeq, NoRequestFacts
  <1>4. /\ IsWriter(writer) /\ writer.write_queue = empty
        /\ writer.in_flight_items = {} /\ ~writer.reading
    BY <1>2, <1>3, FS_EmptySet DEF Init, IsWriter
  <1>5. IsWorker(worker) /\ worker.pc = "connect" /\ worker.stream = 0
    BY <1>2, <1>3 DEF Init, IsWorker
  <1>6. IsClient(client) /\ client.made = empty
    BY <1>2, <1>3 DEF Init, IsClient
  <1>7. ChunkerOk(chunker)
    BY NewChunkerFacts DEF Init, ConstantsOk
  <1>8. ItemsOf(writer) = {}
    BY <1>3, <1>4 DEF ItemsOf
  <1> QED
    BY <1>1, <1>3, <1>4, <1>5, <1>6, <1>7, <1>8
       DEF TrajectoryInv, HasFront, OnStream, ItemsOk, Booked

\* Every step of the writer, of its worker, of gRPC and of the servers keeps
\* the invariant.
LEMMA TrajectoryStep ==
    ASSUME ConstantsOk, TrajectoryInv, Next
    PROVE  TrajectoryInv'
  <1>1. CASE WorkerNext
    BY <1>1, ConnectStep, DoNotConnectStep, WaitForPendingItemsStep, SendChunkStep,
       AllChunksSentStep, CheckAllReadyStep, MoveItemStep, WriteReturnsStep,
       WorkerReturnsStep DEF WorkerNext
  <1>2. CASE CallbackNext
    BY <1>2, CallbackStep
  <1>3. CASE ClientNext
    <2>1. ASSUME NEW ignore, Flush(ignore) PROVE TrajectoryInv'
      BY <2>1, WaitForStep DEF Flush
    <2>2. ASSUME NEW clear_buffers, EndEpisode(clear_buffers) PROVE TrajectoryInv'
      BY <2>2, WaitForStep, CallFailsStep DEF EndEpisode
    <2>3. CASE Destroy
      BY <2>3, WaitForStep DEF Destroy
    <2>4. CASE FlushReturns \/ TimesOut
      BY <2>4, CallFailsStep DEF FlushReturns, TimesOut
    <2>5. CASE Close
      BY <2>5, CloseWriterStep DEF Close, TrajectoryInv
    <2>6. ASSUME NEW o \in ChunkerOptions, ConfigureChunker(o) PROVE TrajectoryInv'
      BY <2>6, ConfigureChunkerStep DEF ConstantsOk
    <2>7. ASSUME NEW t, NEW n \in ItemLengths, NEW d \in Strides, CreateItem(t, n, d)
          PROVE  TrajectoryInv'
      BY <2>7, CreateItemStep DEF ConstantsOk
    <2> QED
      BY <1>3, <2>1, <2>2, <2>3, <2>4, <2>5, <2>6, <2>7, AppendCellStep,
         AppendReturnsStep, EndEpisodeReturnsStep, DestroyReturnsStep DEF ClientNext
  <1>4. CASE ServerNext /\ UNCHANGED <<writer, worker, client, chunker>>
    <2>1. /\ ServerInv' /\ table.items \subseteq table'.items
          /\ \A t \in Streams : Keeps(stream[t], stream'[t])
      BY <1>4, ServerStep DEF TrajectoryInv
    <2> QED
      BY <1>4, <2>1, CalmStep, EvolvesNot DEF TrajectoryInv
  <1> QED
    BY <1>1, <1>2, <1>3, <1>4 DEF Next
=============================================================================
