--------------------------- MODULE StreamingProofs --------------------------
(***************************************************************************)
(* The StreamingTrajectoryWriter against its servers, for every number of  *)
(* streams, items and cells: the server has the chunks of every item it is *)
(* sent, what was made is in the table or known to be in flight, and the   *)
(* chunks that were moved out of the references are on the stream.         *)
(***************************************************************************)
EXTENDS StreamingTrajectoryWriter, InsertStreamProofs

\* What Writers assumes of the constants of a StreamingTrajectoryWriter.
ConstantsOk ==
    /\ \A o \in ChunkerOptions :
          /\ o \in [max_chunk_length : Nat, num_keep_alive_refs : Nat,
                    auto_tuned : BOOLEAN]
          /\ ValidOptions(o)
    /\ ItemLengths \subseteq Nat \ {0}

-----------------------------------------------------------------------------
(* The loops of StreamChunks and MergeAdjacent. *)

SliceTurn(p, slices, cell) == AddToSlices(slices, cell)
SliceLoop == INSTANCE FoldFacts WITH Op <- SliceTurn

\* An item refers to the chunks of its cells only.
LEMMA MergedFacts ==
    ASSUME NEW cells, IsSeq(cells), NEW slices, slices = MergeAdjacent(cells),
           NEW i \in DOMAIN slices
    PROVE  \E cell \in ToSet(cells) : slices[i].chunk = cell.chunk
  <1>1. PICK n : n = Len(cells)
    OBVIOUS
  <1>2. n \in Nat /\ DOMAIN cells = 1 .. n /\ \A k \in 1 .. n : cells[k] \in ToSet(cells)
    BY <1>1, IsSeqFacts
  <1>3. PICK S : S = [chunk : {c.chunk : c \in ToSet(cells)},
                      offset : {c.offset : c \in ToSet(cells)}, length : Nat]
    OBVIOUS
  <1>4. PICK I : I = [k \in 0 .. n |-> Seq(S)]
    OBVIOUS
  <1>5. PICK empty : empty = << >>
    OBVIOUS
  <1>6. slices = SliceLoop!Fold(0, empty, cells)
    BY <1>5 DEF MergeAdjacent, SliceLoop!Fold, SliceTurn, FoldLeft, MapThenFoldSet,
           SliceLoop!FoldLeft, SliceLoop!MapThenFoldSet, Max, SliceLoop!Max
  <1>7. empty \in I[0]
    <2>1. 0 \in 0 .. n
      BY <1>2
    <2> QED
      BY <1>4, <1>5, <2>1
  <1>8. ASSUME NEW k \in 1 .. n, NEW a \in I[k - 1]
        PROVE  SliceTurn(0, a, cells[k]) \in I[k]
    <2>1. k - 1 \in 0 .. n /\ k \in 0 .. n
      BY <1>2
    <2>2. PICK cell : cell = cells[k]
      OBVIOUS
    <2>3. a \in Seq(S) /\ cell \in ToSet(cells)
      BY <1>2, <1>4, <2>1, <2>2
    <2>4. PICK m : m = Len(a)
      OBVIOUS
    <2>5. CASE a # << >> /\ Last(a).chunk = cell.chunk
      <3>1. m \in DOMAIN a /\ a[m] \in S
        BY <2>3, <2>4, <2>5
      <3>2. PICK x : x = [a[m] EXCEPT !.length = a[m].length + 1]
        OBVIOUS
      <3>3. x \in S
        BY <1>3, <3>1, <3>2
      <3>4. AddToSlices(a, cell) = [a EXCEPT ![m] = x]
        BY <2>4, <2>5, <3>1, <3>2 DEF AddToSlices
      <3>5. [a EXCEPT ![m] = x] \in Seq(S)
        BY <2>3, <3>1, <3>3
      <3> QED
        BY <1>4, <2>1, <2>2, <3>4, <3>5 DEF SliceTurn
    <2>6. CASE ~(a # << >> /\ Last(a).chunk = cell.chunk)
      <3>1. PICK x : x = [chunk |-> cell.chunk, offset |-> cell.offset, length |-> 1]
        OBVIOUS
      <3>2. x \in S
        BY <1>3, <2>3, <3>1
      <3>3. AddToSlices(a, cell) = Append(a, x)
        BY <2>6, <3>1 DEF AddToSlices
      <3>4. Append(a, x) \in Seq(S)
        BY <2>3, <3>2
      <3> QED
        BY <1>4, <2>1, <2>2, <3>3, <3>4 DEF SliceTurn
    <2> QED
      BY <2>5, <2>6
  <1>9. slices \in I[n]
    BY <1>2, <1>6, <1>7, <1>8, SliceLoop!FoldInvariant
  <1>10. slices \in Seq(S)
    BY <1>2, <1>4, <1>9
  <1>11. slices[i] \in S
    BY <1>10
  <1> QED
    BY <1>3, <1>11

MoveTurn(d, keys, r) ==
    IF \/ ~IsReady(d, r) \/ r.chunk \in writer.moved
       \/ r.chunk \in ToSet(keys)
    THEN keys ELSE Append(keys, r.chunk)
MoveLoop == INSTANCE FoldFacts WITH Op <- MoveTurn

\* The chunks that are moved are those of ready references, and afterwards
\* there is no ready reference whose chunk was not moved.
LEMMA MovableFacts ==
    ASSUME NEW d, NEW refs, IsSeq(refs), NEW keys, keys = Movable(d, refs)
    PROVE  /\ IsSeq(keys)
           /\ \A k \in ToSet(keys) :
                 k \notin writer.moved /\ \E r \in ToSet(refs) : r \in d.ready /\ k = r.chunk
           /\ \A r \in ToSet(refs) : r \in d.ready => r.chunk \in writer.moved \cup ToSet(keys)
  <1>1. PICK n : n = Len(refs)
    OBVIOUS
  <1>2. n \in Nat /\ DOMAIN refs = 1 .. n /\ \A k \in 1 .. n : refs[k] \in ToSet(refs)
    BY <1>1, IsSeqFacts
  <1>3. PICK S : S = {c \in {r.chunk : r \in ToSet(refs)} :
                        c \notin writer.moved
                        /\ \E r \in ToSet(refs) : r \in d.ready /\ c = r.chunk}
    OBVIOUS
  <1>4. PICK I : I = [k \in 0 .. n |->
                        {a \in Seq(S) : \A j \in 1 .. k : refs[j] \in d.ready =>
                             refs[j].chunk \in writer.moved \cup ToSet(a)}]
    OBVIOUS
  <1>5. PICK empty : empty = << >>
    OBVIOUS
  <1>6. keys = MoveLoop!Fold(d, empty, refs)
    BY <1>5 DEF Movable, MoveLoop!Fold, MoveTurn, FoldLeft, MapThenFoldSet,
           MoveLoop!FoldLeft, MoveLoop!MapThenFoldSet, Max, MoveLoop!Max
  <1>7. empty \in I[0]
    <2>1. 0 \in 0 .. n /\ 1 .. 0 = {} /\ empty \in Seq(S)
      BY <1>2, <1>5
    <2> QED
      BY <1>4, <2>1
  <1>8. ASSUME NEW k \in 1 .. n, NEW a \in I[k - 1]
        PROVE  MoveTurn(d, a, refs[k]) \in I[k]
    <2>1. k - 1 \in 0 .. n /\ k \in 0 .. n
          /\ \A j \in 1 .. k : j \in 1 .. k - 1 \/ j = k
      BY <1>2
    <2>2. PICK r : r = refs[k]
      OBVIOUS
    <2>3. /\ a \in Seq(S) /\ r \in ToSet(refs)
          /\ \A j \in 1 .. k - 1 : refs[j] \in d.ready =>
                refs[j].chunk \in writer.moved \cup ToSet(a)
      BY <1>2, <1>4, <2>1, <2>2
    <2>4. PICK b : b = MoveTurn(d, a, r)
      OBVIOUS
    <2>5. CASE \/ ~IsReady(d, r) \/ r.chunk \in writer.moved
               \/ r.chunk \in ToSet(a)
      <3>1. b = a
        BY <2>4, <2>5 DEF MoveTurn
      <3>2. r \in d.ready => r.chunk \in writer.moved \cup ToSet(a)
        BY <2>5 DEF IsReady
      <3>3. \A j \in 1 .. k : refs[j] \in d.ready =>
               refs[j].chunk \in writer.moved \cup ToSet(a)
        BY <2>1, <2>2, <2>3, <3>2
      <3> QED
        BY <1>4, <2>1, <2>2, <2>3, <2>4, <3>1, <3>3
    <2>6. CASE ~(\/ ~IsReady(d, r) \/ r.chunk \in writer.moved
                 \/ r.chunk \in ToSet(a))
      <3>1. b = Append(a, r.chunk) /\ r \in d.ready /\ r.chunk \notin writer.moved
        BY <2>4, <2>6 DEF MoveTurn, IsReady
      <3>2. r.chunk \in S
        BY <1>3, <2>3, <3>1
      <3>3. b \in Seq(S)
        BY <2>3, <3>1, <3>2
      <3>4. ToSet(b) = ToSet(a) \cup {r.chunk}
        BY <2>3, <3>1, AppendSeq, SeqIsSeq
      <3>5. \A j \in 1 .. k : refs[j] \in d.ready =>
               refs[j].chunk \in writer.moved \cup ToSet(b)
        BY <2>1, <2>2, <2>3, <3>4
      <3> QED
        BY <1>4, <2>1, <2>2, <2>4, <3>3, <3>5
    <2> QED
      BY <2>5, <2>6
  <1>9. keys \in I[n]
    BY <1>2, <1>6, <1>7, <1>8, MoveLoop!FoldInvariant
  <1>10. /\ keys \in Seq(S)
         /\ \A j \in 1 .. n : refs[j] \in d.ready =>
               refs[j].chunk \in writer.moved \cup ToSet(keys)
    BY <1>2, <1>4, <1>9
  <1>11. IsSeq(keys) /\ ToSet(keys) \subseteq S
    BY <1>10, SeqIsSeq
  <1>12. ASSUME NEW r \in ToSet(refs), r \in d.ready
         PROVE  r.chunk \in writer.moved \cup ToSet(keys)
    <2>1. PICK j \in 1 .. n : r = refs[j]
      BY <1>1, IsSeqFacts
    <2> QED
      BY <1>10, <1>12, <2>1
  <1> QED
    BY <1>3, <1>11, <1>12

ShardTurn(p, requests, key) == AddToRequests(requests, key)
ShardLoop == INSTANCE FoldFacts WITH Op <- ShardTurn

ChunksIn(requests) == UNION {q.chunks : q \in ToSet(requests)}

\* The chunks are distributed over requests without items.
LEMMA ShardedFacts ==
    ASSUME NEW keys, IsSeq(keys), NEW requests, requests = Sharded(keys)
    PROVE  /\ IsSeq(requests)
           /\ \A q \in ToSet(requests) : IsRequest(q) /\ q.items = << >>
           /\ ToSet(keys) \subseteq ChunksIn(requests)
  <1>1. PICK n, empty : n = Len(keys) /\ empty = << >>
    OBVIOUS
  <1>2. n \in Nat /\ DOMAIN keys = 1 .. n /\ \A k \in 1 .. n : keys[k] \in ToSet(keys)
    BY <1>1, IsSeqFacts
  <1>3. PICK S : S = [chunks : SUBSET ToSet(keys), items : {empty}, keep : {{}}]
    OBVIOUS
  <1>4. PICK I : I = [k \in 0 .. n |->
                        {a \in Seq(S) : a # empty
                             /\ \A j \in 1 .. k : keys[j] \in ChunksIn(a)}]
    OBVIOUS
  <1>5. PICK e, base : e = Request({}, << >>, {}) /\ base = <<e>>
    OBVIOUS
  <1>6. requests = ShardLoop!Fold(0, base, keys)
    BY <1>5 DEF Sharded, ShardLoop!Fold, ShardTurn, FoldLeft, MapThenFoldSet,
           ShardLoop!FoldLeft, ShardLoop!MapThenFoldSet, Max, ShardLoop!Max
  <1>7. e \in S
    BY <1>1, <1>3, <1>5 DEF Request
  <1>8. base \in I[0]
    <2>1. 0 \in 0 .. n /\ 1 .. 0 = {} /\ base \in Seq(S) /\ base # empty
      BY <1>1, <1>2, <1>5, <1>7
    <2> QED
      BY <1>4, <2>1
  <1>9. ASSUME NEW k \in 1 .. n, NEW a \in I[k - 1]
        PROVE  ShardTurn(0, a, keys[k]) \in I[k]
    <2>1. k - 1 \in 0 .. n /\ k \in 0 .. n
          /\ \A j \in 1 .. k : j \in 1 .. k - 1 \/ j = k
      BY <1>2
    <2>2. PICK key, m : key = keys[k] /\ m = Len(a)
      OBVIOUS
    <2>3. /\ a \in Seq(S) /\ key \in ToSet(keys) /\ a # empty
          /\ \A j \in 1 .. k - 1 : keys[j] \in ChunksIn(a)
      BY <1>2, <1>4, <2>1, <2>2
    <2>4. m \in DOMAIN a /\ a[m] \in S
      BY <1>1, <2>2, <2>3
    <2>5. PICK x, b : x = [a[m] EXCEPT !.chunks = a[m].chunks \cup {key}]
                      /\ b = [a EXCEPT ![m] = x]
      OBVIOUS
    <2>6. x \in S /\ x.chunks = a[m].chunks \cup {key}
      BY <1>3, <2>3, <2>4, <2>5
    <2>7. b \in Seq(S) /\ Len(b) = m /\ DOMAIN b = DOMAIN a
          /\ b[m] = x /\ \A j \in DOMAIN a : j # m => b[j] = a[j]
      BY <2>2, <2>3, <2>4, <2>5, <2>6
    <2>8. ChunksIn(a) \cup {key} \subseteq ChunksIn(b)
      BY <2>4, <2>6, <2>7 DEF ChunksIn, ToSet
    <2>9. b # empty
      BY <1>1, <2>4, <2>7
    <2>10. PICK c : c = IF key \in LargeChunks THEN Append(b, e) ELSE b
      OBVIOUS
    <2>11. AddToRequests(a, key) = c
      BY <1>5, <2>2, <2>4, <2>5, <2>10 DEF AddToRequests
    <2>12. c \in Seq(S) /\ c # empty /\ ChunksIn(b) \subseteq ChunksIn(c)
      <3>1. CASE key \in LargeChunks
        <4>1. c = Append(b, e)
          BY <2>10, <3>1
        <4>2. IsSeq(b)
          BY <2>7, SeqIsSeq
        <4>3. ToSet(c) = ToSet(b) \cup {e}
          BY <4>1, <4>2, AppendSeq
        <4>4. c \in Seq(S) /\ c # empty
          BY <1>1, <1>7, <2>7, <4>1
        <4> QED
          BY <4>3, <4>4 DEF ChunksIn
      <3>2. CASE key \notin LargeChunks
        BY <2>7, <2>9, <2>10, <3>2
      <3> QED
        BY <3>1, <3>2
    <2>13. \A j \in 1 .. k : keys[j] \in ChunksIn(c)
      BY <2>1, <2>2, <2>3, <2>8, <2>12
    <2> QED
      BY <1>4, <2>1, <2>2, <2>11, <2>12, <2>13 DEF ShardTurn
  <1>10. requests \in I[n]
    BY <1>2, <1>6, <1>8, <1>9, ShardLoop!FoldInvariant
  <1>11. requests \in Seq(S) /\ \A j \in 1 .. n : keys[j] \in ChunksIn(requests)
    BY <1>2, <1>4, <1>10
  <1>12. IsSeq(requests) /\ ToSet(requests) \subseteq S
    BY <1>11, SeqIsSeq
  <1>13. ASSUME NEW q \in S PROVE IsRequest(q) /\ q.items = << >>
    <2>1. q.items = empty /\ IsSeq(empty) /\ DOMAIN empty = {}
      BY <1>1, <1>3, EmptyIsSeq
    <2> QED
      BY <1>1, <1>3, <2>1 DEF IsRequest
  <1>14. \A x \in ToSet(keys) : x \in ChunksIn(requests)
    BY <1>1, <1>11, IsSeqFacts
  <1> QED
    BY <1>12, <1>13, <1>14

-----------------------------------------------------------------------------
(* The invariant. *)

IsWriter(wr) ==
    wr \in [streamed : {wr.streamed}, moved : {wr.moved},
            in_flight_items : {wr.in_flight_items}, stream : Streams,
            recoverable : {wr.recoverable}, unrecoverable : {wr.unrecoverable}]

FailedIn(wr) == wr.recoverable # "ok" \/ wr.unrecoverable # "ok"

IsClient(cl) ==
    /\ cl \in [pc : {"idle", "chunks", "item", "finish", "flush", "end",
                     "end_clear", "destroy", "destroyed"},
               requests : {cl.requests}, chunks : {cl.chunks}, item : {cl.item},
               ignore : {cl.ignore}, appended : {cl.appended},
               episode : {cl.episode}, step : {cl.step}, made : {cl.made}]
    /\ IsSeq(cl.requests) /\ IsSeq(cl.made)
    /\ cl.item # None => cl.item.key \in Nat
    /\ cl.pc \notin {"chunks", "item", "finish"} => cl.item = None
    /\ cl.pc \notin {"chunks", "finish"} => cl.chunks = {}
    /\ cl.pc \notin {"chunks", "item"} => cl.requests = << >>

\* What the writer takes for streamed the server has, unless the writer knows
\* of an error; the rest of the chunks is in the requests that follow.
Sends(cl, wr, str) ==
    /\ cl.pc \in {"chunks", "item", "finish"} => ~FailedIn(wr)
    /\ ~FailedIn(wr) => Has(str, wr.streamed)
    /\ cl.pc = "chunks" =>
          /\ \A q \in ToSet(cl.requests) : IsRequest(q) /\ q.items = << >>
          /\ \E S : /\ Has(str, S) /\ wr.streamed \subseteq S
                    /\ cl.chunks \subseteq S \cup ChunksIn(cl.requests)
          /\ cl.item # None => ChunksOf(cl.item) \subseteq wr.streamed \cup cl.chunks
    /\ cl.pc = "item" =>
          /\ cl.item # None /\ ChunksOf(cl.item) \subseteq wr.streamed
          /\ cl.requests = <<Request({}, <<cl.item>>, wr.streamed)>>

\* The stream is half-closed by the destructor only.
StreamOpen(cl, str) ==
    str.open /\ (cl.pc \notin {"destroy", "destroyed"} => ~str.writes_done)

\* The chunks that were moved out of references are streamed.
RefsOk(cl, wr, c) ==
    /\ \A m \in wr.moved : Older(c, m)
    /\ ~FailedIn(wr) =>
          \A r \in ToSet(c.active_refs) :
              r.chunk \in wr.moved => r.chunk \in wr.streamed \cup cl.chunks

\* An item that was made is in the table or in flight.
Booked(made, wr, items) ==
    \A item \in ToSet(made) : item.key \in items \cup wr.in_flight_items

StreamingInv ==
    /\ ServerInv
    /\ IsWriter(writer) /\ IsClient(client) /\ ChunkerOk(chunker)
    /\ Sends(client, writer, stream[writer.stream])
    /\ StreamOpen(client, stream[writer.stream])
    /\ RefsOk(client, writer, chunker)
    /\ Booked(client.made, writer, table.items)

-----------------------------------------------------------------------------
(* Steps. *)

\* A client whose call has ended.
IsResting(cl, pc, made) ==
    /\ cl \in [pc : {pc}, requests : {<< >>}, chunks : {{}}, item : {None},
               ignore : {cl.ignore}, appended : {cl.appended},
               episode : {cl.episode}, step : {cl.step}, made : {made}]
    /\ IsSeq(made)

LEMMA RestingFacts ==
    ASSUME NEW cl, NEW pc \in {"idle", "flush", "end", "end_clear", "destroy",
                              "destroyed"}, NEW made, IsResting(cl, pc, made)
    PROVE  /\ IsClient(cl) /\ cl.pc = pc /\ cl.made = made
           /\ cl.chunks = {} /\ cl.item = None
  <1>1. PICK empty : empty = << >>
    OBVIOUS
  <1>2. IsSeq(empty)
    BY <1>1, EmptyIsSeq
  <1>3. /\ cl.pc = pc /\ cl.made = made /\ cl.chunks = {} /\ cl.item = None
        /\ cl.requests = empty
    BY <1>1 DEF IsResting
  <1>4. cl \in [pc : {"idle", "chunks", "item", "finish", "flush", "end",
                     "end_clear", "destroy", "destroyed"},
                requests : {cl.requests}, chunks : {cl.chunks},
                item : {cl.item}, ignore : {cl.ignore},
                appended : {cl.appended}, episode : {cl.episode},
                step : {cl.step}, made : {cl.made}]
    BY <1>1, <1>3 DEF IsResting
  <1>5. IsSeq(cl.requests) /\ IsSeq(cl.made)
    BY <1>2, <1>3 DEF IsResting
  <1>6. IsClient(cl)
    BY <1>1, <1>3, <1>4, <1>5, Zenon DEF IsClient
  <1> QED
    BY <1>3, <1>6

LEMMA ReturnedIs ==
    ASSUME StreamingInv, NEW cl, cl = Returned
    PROVE  IsResting(cl, "idle", client.made)
  <1>1. IsClient(client) /\ IsSeq(client.made)
    BY DEF StreamingInv, IsClient
  <1>2. PICK empty : empty = << >>
    OBVIOUS
  <1>3. cl = [client EXCEPT !.pc = "idle", !.requests = empty, !.chunks = {},
                            !.item = None, !.ignore = 0]
    BY <1>2 DEF Returned
  <1>4. cl \in [pc : {"idle"}, requests : {empty}, chunks : {{}}, item : {None},
                ignore : {cl.ignore}, appended : {cl.appended},
                episode : {cl.episode}, step : {cl.step}, made : {client.made}]
    BY <1>1, <1>3 DEF IsClient
  <1> QED
    BY <1>1, <1>2, <1>4 DEF IsResting

\* A step of a client that is not about to write, and makes no item.
LEMMA CalmStep ==
    ASSUME StreamingInv, ServerInv', table.items \subseteq table'.items,
           \A t \in Streams : Keeps(stream[t], stream'[t]),
           IsWriter(writer'), writer'.stream = writer.stream,
           writer'.streamed = writer.streamed, writer'.moved = writer.moved,
           writer'.recoverable = writer.recoverable,
           writer'.unrecoverable = writer.unrecoverable,
           writer.in_flight_items \subseteq writer'.in_flight_items \cup table.items,
           \/ client' = client
           \/ /\ IsClient(client') /\ client'.made = client.made
              /\ client.chunks = {} \/ FailedIn(writer)
              /\ client'.pc \notin {"chunks", "item", "finish"}
              /\ client.pc \in {"destroy", "destroyed"} =>
                    client'.pc \in {"destroy", "destroyed"},
           chunker' = chunker
    PROVE  StreamingInv'
  <1>1. PICK s, str, str2 : s = writer.stream /\ str = stream[s] /\ str2 = stream'[s]
    OBVIOUS
  <1>2. s \in Streams /\ Keeps(str, str2) /\ Sends(client, writer, str)
        /\ StreamOpen(client, str) /\ RefsOk(client, writer, chunker)
        /\ IsClient(client)
    BY <1>1 DEF StreamingInv, IsWriter
  <1>3. \A S : Has(str, S) => Has(str2, S)
    BY <1>2, HasKept
  <1>4. FailedIn(writer') <=> FailedIn(writer)
    BY DEF FailedIn
  <1>5. Sends(client', writer', str2)
    <2>1. CASE client' = client
      BY <1>2, <1>3, <1>4, <2>1 DEF Sends
    <2>2. CASE client'.pc \notin {"chunks", "item", "finish"}
      BY <1>2, <1>3, <1>4, <2>2 DEF Sends
    <2> QED
      BY <2>1, <2>2
  <1>6. StreamOpen(client', str2)
    <2>1. str2.open = str.open /\ str2.writes_done = str.writes_done
      BY <1>2 DEF Keeps
    <2> QED
      BY <1>2, <2>1 DEF StreamOpen
  <1>7. RefsOk(client', writer', chunker')
    <2>1. CASE client' = client
      BY <1>2, <1>4, <2>1 DEF RefsOk
    <2>2. CASE client.chunks = {} \/ FailedIn(writer)
      BY <1>2, <1>4, <2>2 DEF RefsOk
    <2> QED
      BY <2>1, <2>2
  <1>8. Booked(client'.made, writer', table'.items)
    BY DEF StreamingInv, Booked
  <1>9. IsClient(client')
    BY <1>2
  <1> QED
    BY <1>1, <1>5, <1>6, <1>7, <1>8, <1>9 DEF StreamingInv

LEMMA LocalStep ==
    ASSUME StreamingInv, UNCHANGED <<stream, table, writer, chunker>>,
           \/ client' = client
           \/ /\ IsClient(client') /\ client'.made = client.made
              /\ client.chunks = {} \/ FailedIn(writer)
              /\ client'.pc \notin {"chunks", "item", "finish"}
              /\ client.pc \in {"destroy", "destroyed"} =>
                    client'.pc \in {"destroy", "destroyed"}
    PROVE  StreamingInv'
  <1>1. ServerInv'
    BY ServerStays DEF StreamingInv
  <1>2. \A t \in Streams : Keeps(stream[t], stream'[t])
    BY DEF Keeps
  <1>3. IsWriter(writer')
    BY DEF StreamingInv
  <1> QED
    BY <1>1, <1>2, <1>3, CalmStep

LEMMA WorkerReadsStep ==
    ASSUME StreamingInv, WorkerReads
    PROVE  StreamingInv'
  <1>1. PICK s, rest : s = writer.stream
                       /\ rest = writer.in_flight_items \ ToSet(Response(s))
    OBVIOUS
  <1>2. /\ CanRead(s) /\ stream' = ReadFrom(s) /\ table' = table
        /\ client' = client /\ chunker' = chunker
        /\ writer' = [writer EXCEPT !.in_flight_items = rest]
    BY <1>1 DEF WorkerReads
  <1>3. s \in Streams /\ stream[s].open
    BY <1>1 DEF StreamingInv, IsWriter, StreamOpen
  <1>4. /\ ServerInv' /\ ToSet(Response(s)) \subseteq table.items
        /\ \A t \in Streams : Keeps(stream[t], stream'[t])
    BY <1>2, <1>3, ReadFromStep DEF StreamingInv
  <1>5. /\ IsWriter(writer') /\ writer'.stream = writer.stream
        /\ writer'.streamed = writer.streamed /\ writer'.moved = writer.moved
        /\ writer'.recoverable = writer.recoverable
        /\ writer'.unrecoverable = writer.unrecoverable
        /\ writer'.in_flight_items = rest
    BY <1>2 DEF StreamingInv, IsWriter
  <1>6. writer.in_flight_items \subseteq rest \cup table.items
    BY <1>1, <1>4
  <1> QED
    BY <1>2, <1>4, <1>5, <1>6, CalmStep

LEMMA CallReturnsStep ==
    ASSUME StreamingInv, CallReturns, client.pc \in {"idle", "flush", "end", "end_clear"}
    PROVE  StreamingInv'
  <1>1. IsClient(client') /\ client'.pc = "idle" /\ client'.made = client.made
    BY ReturnedIs, RestingFacts DEF CallReturns
  <1>2. client.chunks = {}
    BY DEF StreamingInv, IsClient
  <1> QED
    BY <1>1, <1>2, LocalStep DEF CallReturns

\* The chunk under construction was not moved.
LEMMA NotMoved ==
    ASSUME StreamingInv
    PROVE  <<chunker.column, chunker.next>> \notin writer.moved
  <1>1. chunker.next \in Int
    BY DEF StreamingInv, ChunkerOk, IsChunker
  <1> QED
    BY <1>1 DEF StreamingInv, RefsOk, Older

\* StreamChunks takes the chunks of refs, and cl is the client.
LEMMA StreamChunksStep ==
    ASSUME StreamingInv, client.pc = "idle", ~FailedIn(writer),
           NEW d, ChunkerOk(d), d.column = chunker.column, chunker.next <= d.next,
           \A r \in ToSet(d.active_refs) :
               r.chunk \in writer.moved => r.chunk \in writer.streamed,
           NEW refs, IsSeq(refs),
           NEW cl, cl \in [pc : {cl.pc}, requests : {cl.requests}, chunks : {cl.chunks},
                           item : {cl.item}, ignore : {cl.ignore},
                           appended : {cl.appended}, episode : {cl.episode},
                           step : {cl.step}, made : {client.made}],
           cl.item # None =>
               /\ cl.item.key \in Nat
               /\ ChunksOf(cl.item) \subseteq writer.streamed \cup ToSet(Movable(d, refs)),
           StreamChunks(d, refs, cl)
    PROVE  StreamingInv'
  <1>1. PICK s, str, keys, moving : s = writer.stream /\ str = stream[s]
                      /\ keys = Movable(d, refs) /\ moving = ToSet(keys)
    OBVIOUS
  <1>2. PICK requests, moved : /\ requests = IF keys = << >> THEN << >> ELSE Sharded(keys)
                               /\ moved = writer.moved \cup moving
    OBVIOUS
  <1>3. /\ chunker' = d /\ writer' = [writer EXCEPT !.moved = moved]
        /\ client' = [cl EXCEPT !.pc = "chunks", !.chunks = moving,
                                !.requests = requests]
        /\ stream' = stream /\ table' = table
    BY <1>1, <1>2 DEF StreamChunks
  <1>4. /\ IsSeq(keys)
        /\ \A k \in moving :
              k \notin writer.moved /\ \E r \in ToSet(refs) : r \in d.ready /\ k = r.chunk
    BY <1>1, MovableFacts
  <1>5. /\ IsSeq(requests)
        /\ \A q \in ToSet(requests) : IsRequest(q) /\ q.items = << >>
        /\ moving \subseteq ChunksIn(requests)
    <2>1. CASE keys = << >>
      <3>1. requests = << >> /\ moving = {}
        BY <1>1, <1>2, <2>1, EmptyIsSeq
      <3> QED
        BY <3>1, EmptyIsSeq
    <2>2. CASE keys # << >>
      <3>1. requests = Sharded(keys)
        BY <1>2, <2>2
      <3> QED
        BY <1>1, <1>4, <3>1, ShardedFacts
    <2> QED
      BY <2>1, <2>2
  <1>6. /\ IsWriter(writer') /\ writer'.stream = s /\ writer'.moved = moved
        /\ writer'.streamed = writer.streamed
        /\ writer'.in_flight_items = writer.in_flight_items
        /\ writer'.recoverable = writer.recoverable
        /\ writer'.unrecoverable = writer.unrecoverable
    BY <1>1, <1>3 DEF StreamingInv, IsWriter
  <1>7. ~FailedIn(writer')
    BY <1>6 DEF FailedIn
  <1>8. /\ client'.pc = "chunks" /\ client'.made = client.made
        /\ client'.requests = requests /\ client'.chunks = moving
        /\ client'.item = cl.item
        /\ client' \in [pc : {"chunks"}, requests : {client'.requests},
               chunks : {client'.chunks}, item : {client'.item},
               ignore : {client'.ignore}, appended : {client'.appended},
               episode : {client'.episode}, step : {client'.step},
               made : {client'.made}]
    BY <1>3
  <1>9. IsClient(client')
    <2>1. IsSeq(client'.made)
      BY <1>8 DEF StreamingInv, IsClient
    <2>2. IsSeq(client'.requests)
      BY <1>5, <1>8
    <2>3. client' \in [pc : {"idle", "chunks", "item", "finish", "flush", "end",
                             "end_clear", "destroy", "destroyed"},
               requests : {client'.requests},
               chunks : {client'.chunks}, item : {client'.item},
               ignore : {client'.ignore}, appended : {client'.appended},
               episode : {client'.episode}, step : {client'.step},
               made : {client'.made}]
      BY <1>8
    <2>4. client'.item # None => client'.item.key \in Nat
      BY <1>8
    <2> QED
      BY <1>8, <2>1, <2>2, <2>3, <2>4, Zenon DEF IsClient
  <1>10. Has(str, writer.streamed)
    BY <1>1 DEF StreamingInv, Sends
  <1>11. Sends(client', writer', str)
    <2>1. \E S : /\ Has(str, S) /\ writer'.streamed \subseteq S
                 /\ client'.chunks \subseteq S \cup ChunksIn(client'.requests)
      BY <1>5, <1>6, <1>8, <1>10
    <2>2. client'.item # None => ChunksOf(client'.item) \subseteq writer'.streamed \cup client'.chunks
      BY <1>1, <1>6, <1>8
    <2> QED
      BY <1>5, <1>6, <1>7, <1>8, <1>10, <2>1, <2>2 DEF Sends
  <1>12. StreamOpen(client', str)
    BY <1>1, <1>8 DEF StreamingInv, StreamOpen
  <1>13. RefsOk(client', writer', d)
    <2>1. ASSUME NEW m \in moved PROVE Older(d, m)
      <3>1. CASE m \in writer.moved
        <4>1. Older(chunker, m) /\ chunker.next \in Int /\ d.next \in Int
          BY <3>1 DEF StreamingInv, RefsOk, ChunkerOk, IsChunker
        <4> QED
          BY <4>1, OlderGrows
      <3>2. CASE m \in moving
        BY <1>4, <3>2 DEF ChunkerOk, InOrder
      <3> QED
        BY <1>2, <3>1, <3>2
    <2>2. ASSUME NEW r \in ToSet(d.active_refs), r.chunk \in moved
          PROVE  r.chunk \in writer.streamed \cup moving
      BY <1>2, <2>2
    <2> QED
      BY <1>6, <1>8, <2>1, <2>2 DEF RefsOk
  <1>14. ServerInv'
    BY <1>3, ServerStays DEF StreamingInv
  <1>15. Booked(client'.made, writer', table'.items)
    BY <1>3, <1>6, <1>8 DEF StreamingInv, Booked
  <1> QED
    BY <1>1, <1>3, <1>6, <1>9, <1>11, <1>12, <1>13, <1>14, <1>15 DEF StreamingInv

LEMMA IdleRefs ==
    ASSUME StreamingInv, client.pc = "idle", ~FailedIn(writer)
    PROVE  /\ client.item = None
           /\ \A r \in ToSet(chunker.active_refs) :
                 r.chunk \in writer.moved => r.chunk \in writer.streamed
  <1>1. client.chunks = {} /\ client.item = None
    BY DEF StreamingInv, IsClient
  <1> QED
    BY <1>1 DEF StreamingInv, RefsOk

LEMMA AppendCellStep ==
    ASSUME StreamingInv, NEW increment, AppendCell(increment)
    PROVE  StreamingInv'
  <1>1. client.pc = "idle"
    BY DEF AppendCell
  <1>2. CASE Failed \/ ~MayAppend(chunker, client.episode, client.step)
    BY <1>1, <1>2, CallReturnsStep DEF AppendCell
  <1>3. CASE ~(Failed \/ ~MayAppend(chunker, client.episode, client.step))
    <2>1. PICK d, cl, n, m :
             /\ d = AppendToChunker(chunker, client.episode, client.step)
             /\ n = client.appended + 1
             /\ m = IF increment THEN client.step + 1 ELSE client.step
             /\ cl = [client EXCEPT !.appended = n, !.step = m]
      OBVIOUS
    <2>2. PICK last, refs : last = Last(d.active_refs) /\ refs = <<last>>
      OBVIOUS
    <2>3. StreamChunks(d, refs, cl)
      BY <1>3, <2>1, <2>2 DEF AppendCell
    <2>4. /\ ChunkerOk(d) /\ Evolves(chunker, d)
          /\ last.chunk = <<chunker.column, chunker.next>>
          /\ ToSet(d.active_refs) \subseteq ToSet(chunker.active_refs) \cup {last}
      BY <2>1, <2>2, AppendFacts DEF StreamingInv
    <2>5. ~FailedIn(writer)
      BY <1>3 DEF Failed, FailedIn
    <2>6. \A r \in ToSet(d.active_refs) :
             r.chunk \in writer.moved => r.chunk \in writer.streamed
      BY <1>1, <2>4, <2>5, IdleRefs, NotMoved
    <2>7. cl.item = None
      BY <1>1, <2>1, <2>5, IdleRefs DEF StreamingInv, IsClient
    <2>8. cl \in [pc : {cl.pc}, requests : {cl.requests}, chunks : {cl.chunks},
                  item : {cl.item}, ignore : {cl.ignore},
                  appended : {cl.appended}, episode : {cl.episode},
                  step : {cl.step}, made : {client.made}]
      BY <2>1 DEF StreamingInv, IsClient
    <2>9. IsSeq(refs)
      BY <2>2, OneIsSeq
    <2>10. d.column = chunker.column /\ chunker.next <= d.next
      BY <2>4 DEF Evolves
    <2> QED
      BY <1>1, <2>3, <2>4, <2>5, <2>6, <2>7, <2>8, <2>9, <2>10, StreamChunksStep
  <1> QED
    BY <1>2, <1>3

LEMMA SelectionFacts ==
    ASSUME ChunkerOk(chunker), NEW n \in Nat \ {0}, Selection(n) # << >>
    PROVE  IsSeq(Selection(n)) /\ ToSet(Selection(n)) \subseteq ToSet(chunker.active_refs)
  <1>1. PICK refs, k, a : refs = chunker.active_refs /\ k = Len(refs) /\ a = k - n + 1
    OBVIOUS
  <1>2. IsSeq(refs) /\ k \in Nat
    BY <1>1, IsSeqFacts DEF ChunkerOk, IsChunker
  <1>3. Selection(n) = SubSeq(refs, a, k) /\ ~(n > k)
    BY <1>1 DEF Selection
  <1>4. a \in Int /\ 1 <= a /\ a <= k + 1 /\ k \in Int /\ k <= Len(refs)
    BY <1>1, <1>2, <1>3
  <1>5. IsSeq(SubSeq(refs, a, k)) /\ ToSet(SubSeq(refs, a, k)) \subseteq ToSet(refs)
    BY <1>2, <1>4, SubSeqSeq, ZenonT(30)
  <1> QED
    BY <1>1, <1>3, <1>5

LEMMA CreateItemStep ==
    ASSUME StreamingInv, NEW t, NEW n \in Nat \ {0}, CreateItem(t, n)
    PROVE  StreamingInv'
  <1>1. client.pc = "idle"
    BY DEF CreateItem
  <1>2. CASE Failed
    BY <1>1, <1>2, CallReturnsStep DEF CreateItem
  <1>3. CASE ~Failed
    <2>1. PICK refs, slices, key : /\ refs = Selection(n)
                                   /\ slices = MergeAdjacent(refs)
                                   /\ key = Len(client.made) + 1
      OBVIOUS
    <2>2. PICK d, item, cl :
             /\ d = IF \E i \in DOMAIN refs : ~IsReady(chunker, refs[i])
                    THEN FlushChunker(chunker) ELSE chunker
             /\ item = [key |-> key, table |-> t, cells |-> refs, slices |-> slices]
             /\ cl = [client EXCEPT !.item = item]
      OBVIOUS
    <2>3. StreamChunks(d, refs, cl) /\ refs # << >>
      BY <1>3, <2>1, <2>2 DEF CreateItem, NewItem
    <2>4. IsSeq(refs) /\ ToSet(refs) \subseteq ToSet(chunker.active_refs)
      BY <2>1, <2>3, SelectionFacts DEF StreamingInv
    <2>5. ~FailedIn(writer)
      BY <1>3 DEF Failed, FailedIn
    <2>6. /\ ChunkerOk(d) /\ Evolves(chunker, d) /\ d.active_refs = chunker.active_refs
          /\ ToSet(refs) \subseteq d.ready
      <3>0. ChunkerOk(chunker)
        BY DEF StreamingInv
      <3>1. CASE \E i \in DOMAIN refs : ~IsReady(chunker, refs[i])
        <4>1. d = FlushChunker(chunker)
          BY <2>2, <3>1
        <4>2. d.active_refs = chunker.active_refs /\ ToSet(d.active_refs) \subseteq d.ready
          BY <3>0, <4>1, FlushFacts DEF ChunkerOk
        <4> QED
          BY <2>4, <3>0, <4>1, <4>2, FlushOk
      <3>2. CASE ~\E i \in DOMAIN refs : ~IsReady(chunker, refs[i])
        <4>1. d = chunker
          BY <2>2, <3>2
        <4>2. ToSet(refs) \subseteq chunker.ready
          BY <3>2 DEF IsReady, ToSet
        <4> QED
          BY <3>0, <4>1, <4>2, EvolvesNot
      <3> QED
        BY <3>1, <3>2
    <2>7. \A r \in ToSet(d.active_refs) :
             r.chunk \in writer.moved => r.chunk \in writer.streamed
      BY <1>1, <2>5, <2>6, IdleRefs
    <2>8. cl.item = item /\ item.key = key /\ item.slices = slices
      BY <2>2 DEF StreamingInv, IsClient
    <2>9. key \in Nat
      BY <2>1, IsSeqFacts DEF StreamingInv, IsClient
    <2>10. ASSUME NEW k \in ChunksOf(item)
           PROVE  k \in writer.streamed \cup ToSet(Movable(d, refs))
      <3>1. PICK i \in DOMAIN slices : k = slices[i].chunk
        BY <2>8 DEF ChunksOf
      <3>2. PICK cell \in ToSet(refs) : k = cell.chunk
        BY <2>1, <2>4, <3>1, MergedFacts
      <3>3. cell.chunk \in writer.moved \cup ToSet(Movable(d, refs))
        BY <2>4, <2>6, <3>2, MovableFacts
      <3> QED
        BY <2>4, <2>6, <2>7, <3>2, <3>3
    <2>11. cl \in [pc : {cl.pc}, requests : {cl.requests}, chunks : {cl.chunks},
                   item : {cl.item}, ignore : {cl.ignore},
                   appended : {cl.appended}, episode : {cl.episode},
                   step : {cl.step}, made : {client.made}]
      BY <2>2 DEF StreamingInv, IsClient
    <2>12. d.column = chunker.column /\ chunker.next <= d.next
      BY <2>6 DEF Evolves
    <2>13. cl.item.key \in Nat
           /\ ChunksOf(cl.item) \subseteq writer.streamed \cup ToSet(Movable(d, refs))
      BY <2>8, <2>9, <2>10
    <2> QED
      BY <1>1, <2>3, <2>4, <2>5, <2>6, <2>7, <2>11, <2>12, <2>13, StreamChunksStep
  <1> QED
    BY <1>2, <1>3

\* A client in the middle of a call.
LEMMA CallingFacts ==
    ASSUME NEW cl, NEW pc \in {"chunks", "item", "finish"}, NEW requests, IsSeq(requests),
           NEW chunks, IsSeq(cl.made),
           cl \in [pc : {pc}, requests : {requests}, chunks : {chunks},
                   item : {cl.item}, ignore : {cl.ignore}, appended : {cl.appended},
                   episode : {cl.episode}, step : {cl.step}, made : {cl.made}],
           cl.item # None => cl.item.key \in Nat,
           pc = "item" => chunks = {}, pc = "finish" => requests = << >>
    PROVE  IsClient(cl)
  <1>1. cl.pc = pc /\ cl.requests = requests /\ cl.chunks = chunks
    OBVIOUS
  <1>2. cl \in [pc : {"idle", "chunks", "item", "finish", "flush", "end",
                     "end_clear", "destroy", "destroyed"},
                requests : {cl.requests}, chunks : {cl.chunks}, item : {cl.item},
                ignore : {cl.ignore}, appended : {cl.appended},
                episode : {cl.episode}, step : {cl.step}, made : {cl.made}]
    BY <1>1
  <1> QED
    BY <1>1, <1>2, Zenon DEF IsClient

\* WriteStream of chunks: what was in the request is under way.
LEMMA WriteChunksStep ==
    ASSUME StreamingInv, WriteSucceeds, client.pc = "chunks"
    PROVE  StreamingInv'
  <1>1. PICK s, str, str2, q, rest :
           /\ s = writer.stream /\ str = stream[s] /\ str2 = stream'[s]
           /\ q = Head(client.requests) /\ rest = Tail(client.requests)
    OBVIOUS
  <1>2. /\ client.requests # << >> /\ stream' = Sent(s, q) /\ table' = table
        /\ writer' = [writer EXCEPT !.in_flight_items =
                          writer.in_flight_items \cup ItemKeys(q)]
        /\ client' = [client EXCEPT !.requests = rest]
        /\ chunker' = chunker
    BY <1>1 DEF WriteSucceeds, StreamingInv, IsWriter, IsClient
  <1>3. IsSeq(client.requests) /\ IsSeq(client.made) /\ s \in Streams /\ str.open
        /\ ~str.writes_done /\ ~FailedIn(writer) /\ IsClient(client)
    BY <1>1 DEF StreamingInv, IsClient, IsWriter, StreamOpen, Sends
  <1>4. /\ IsSeq(rest) /\ q \in ToSet(client.requests)
        /\ ToSet(client.requests) = {q} \cup ToSet(rest)
    BY <1>1, <1>2, <1>3, TailSeq
  <1>5. IsRequest(q) /\ q.items = << >>
        /\ \A x \in ToSet(rest) : IsRequest(x) /\ x.items = << >>
    BY <1>1, <1>4 DEF StreamingInv, Sends
  <1>6. PICK S : /\ Has(str, S) /\ writer.streamed \subseteq S
                 /\ client.chunks \subseteq S \cup ChunksIn(client.requests)
    BY <1>1 DEF StreamingInv, Sends
  <1>7. PICK T : T = S \cup q.chunks
    OBVIOUS
  <1>8. /\ ServerInv' /\ Has(str2, T)
        /\ str2.open /\ str2.writes_done = str.writes_done
    <2>1. \A i \in DOMAIN q.items : ChunksOf(q.items[i]) \subseteq S \cup q.chunks
      BY <1>5
    <2> QED
      BY <1>1, <1>2, <1>3, <1>5, <1>6, <1>7, <2>1, SentStep DEF StreamingInv
  <1>9. ItemKeys(q) = {}
    BY <1>5 DEF ItemKeys
  <1>10. /\ IsWriter(writer') /\ writer'.stream = s /\ writer'.moved = writer.moved
         /\ writer'.streamed = writer.streamed
         /\ writer'.in_flight_items = writer.in_flight_items
         /\ writer'.recoverable = writer.recoverable
         /\ writer'.unrecoverable = writer.unrecoverable
    BY <1>1, <1>2, <1>9 DEF StreamingInv, IsWriter
  <1>11. /\ client'.pc = "chunks" /\ client'.made = client.made
         /\ client'.requests = rest /\ client'.chunks = client.chunks
         /\ client'.item = client.item
         /\ client' \in [pc : {"chunks"}, requests : {rest}, chunks : {client.chunks},
                item : {client'.item}, ignore : {client'.ignore},
                appended : {client'.appended}, episode : {client'.episode},
                step : {client'.step}, made : {client'.made}]
    BY <1>2, <1>3 DEF IsClient
  <1>12. IsClient(client')
    BY <1>3, <1>4, <1>11, CallingFacts DEF IsClient
  <1>13. ~FailedIn(writer')
    BY <1>3, <1>10 DEF FailedIn
  <1>14. client.chunks \subseteq T \cup ChunksIn(rest)
    BY <1>4, <1>6, <1>7 DEF ChunksIn
  <1>15. Sends(client', writer', str2)
    <2>1. Has(str2, writer.streamed)
      BY <1>6, <1>7, <1>8, HasLess
    <2>2. \E Q : /\ Has(str2, Q) /\ writer'.streamed \subseteq Q
                 /\ client'.chunks \subseteq Q \cup ChunksIn(client'.requests)
      BY <1>6, <1>7, <1>8, <1>10, <1>11, <1>14
    <2>3. client.item # None => ChunksOf(client.item) \subseteq writer.streamed \cup client.chunks
      BY DEF StreamingInv, Sends
    <2> QED
      BY <1>5, <1>10, <1>11, <1>13, <2>1, <2>2, <2>3 DEF Sends
  <1>16. StreamOpen(client', str2)
    BY <1>3, <1>8 DEF StreamOpen
  <1>17. RefsOk(client', writer', chunker')
    BY <1>2, <1>3, <1>10, <1>11 DEF StreamingInv, RefsOk
  <1>18. Booked(client'.made, writer', table'.items)
    BY <1>2, <1>10, <1>11 DEF StreamingInv, Booked
  <1> QED
    BY <1>1, <1>2, <1>8, <1>10, <1>12, <1>15, <1>16, <1>17, <1>18 DEF StreamingInv

\* What holds of a client whose call has ended.
LEMMA RestingStep ==
    ASSUME NEW pc \in {"idle", "flush", "end", "end_clear", "destroy", "destroyed"},
           IsResting(client', pc, client'.made),
           ServerInv', IsWriter(writer'), ChunkerOk(chunker'),
           ~FailedIn(writer') => Has(stream'[writer'.stream], writer'.streamed),
           StreamOpen(client', stream'[writer'.stream]),
           \A m \in writer'.moved : Older(chunker', m),
           FailedIn(writer')
           \/ \A r \in ToSet(chunker'.active_refs) :
                 r.chunk \in writer'.moved => r.chunk \in writer'.streamed,
           Booked(client'.made, writer', table'.items)
    PROVE  StreamingInv'
  <1>1. IsClient(client') /\ client'.pc = pc /\ client'.chunks = {}
    BY RestingFacts
  <1>2. Sends(client', writer', stream'[writer'.stream])
    BY <1>1 DEF Sends
  <1>3. RefsOk(client', writer', chunker')
    BY <1>1 DEF RefsOk
  <1> QED
    BY <1>1, <1>2, <1>3 DEF StreamingInv

\* WriteStream of an item: it is in flight.
LEMMA WriteItemStep ==
    ASSUME StreamingInv, WriteSucceeds, client.pc = "item"
    PROVE  StreamingInv'
  <1>1. PICK s, str, str2, item, q, made, flight, cl :
           /\ s = writer.stream /\ str = stream[s] /\ str2 = stream'[s]
           /\ item = client.item
           /\ q = Request({}, <<item>>, writer.streamed)
           /\ made = Append(client.made, item)
           /\ flight = writer.in_flight_items \cup {item.key}
           /\ cl = Returned
    OBVIOUS
  <1>2. PICK one : one = <<item>>
    OBVIOUS
  <1>3. IsSeq(one) /\ one[1] = item /\ DOMAIN one = {1} /\ one # << >>
    BY <1>2, OneIsSeq, IsSeqFacts
  <1>4. /\ q \in [chunks : {{}}, items : {one}, keep : {writer.streamed}]
        /\ q.items = one /\ q.keep = writer.streamed /\ q.chunks = {}
    BY <1>1, <1>2 DEF Request
  <1>5. ItemKeys(q) = {item.key}
    BY <1>3, <1>4 DEF ItemKeys
  <1>6. /\ client.requests = <<q>> /\ item # None /\ ~FailedIn(writer)
        /\ ChunksOf(item) \subseteq writer.streamed /\ Has(str, writer.streamed)
    BY <1>1 DEF StreamingInv, Sends
  <1>7. Head(client.requests) = q
    BY <1>6, OneIsSeq
  <1>8. /\ stream' = Sent(s, q) /\ table' = table
        /\ writer' = [writer EXCEPT !.in_flight_items = flight]
        /\ client' = [cl EXCEPT !.made = Append(cl.made, item)]
        /\ chunker' = chunker
    <2>1. writer' = [writer EXCEPT !.in_flight_items =
                         writer.in_flight_items \cup ItemKeys(q)]
      BY <1>7 DEF WriteSucceeds
    <2>2. client' = [Returned EXCEPT !.made = Append(@, item)]
      BY <1>1 DEF WriteSucceeds
    <2>3. client' = [cl EXCEPT !.made = Append(cl.made, item)]
      BY <1>1, <2>2
    <2> QED
      BY <1>1, <1>5, <1>7, <2>1, <2>3 DEF WriteSucceeds
  <1>9. IsSeq(client.made) /\ s \in Streams /\ str.open
        /\ ~str.writes_done /\ item.key \in Nat
    BY <1>1, <1>6 DEF StreamingInv, IsClient, IsWriter, StreamOpen
  <1>10. IsRequest(q)
    BY <1>3, <1>4, <1>9 DEF IsRequest
  <1>11. /\ ServerInv' /\ Has(str2, writer.streamed)
         /\ str2.open /\ str2.writes_done = str.writes_done
    <2>1. \A i \in DOMAIN q.items :
             ChunksOf(q.items[i]) \subseteq writer.streamed \cup q.chunks
      BY <1>3, <1>4, <1>6
    <2>2. q.keep \subseteq writer.streamed \cup q.chunks /\ q.items # << >>
      BY <1>3, <1>4
    <2>3. Has(str2, q.keep)
          /\ ServerInv' /\ str2.open /\ str2.writes_done = str.writes_done
      BY <1>1, <1>6, <1>8, <1>9, <1>10, <2>1, <2>2, SentStep DEF StreamingInv
    <2> QED
      BY <1>4, <2>3
  <1>12. /\ IsWriter(writer') /\ writer'.stream = s /\ writer'.moved = writer.moved
         /\ writer'.streamed = writer.streamed
         /\ writer'.in_flight_items = flight
    BY <1>1, <1>8 DEF StreamingInv, IsWriter
  <1>13. IsSeq(made) /\ ToSet(made) = ToSet(client.made) \cup {item}
    BY <1>1, <1>9, AppendSeq
  <1>14. /\ IsResting(client', "idle", client'.made) /\ client'.made = made
         /\ client'.pc = "idle"
    <2>1. PICK empty : empty = << >>
      OBVIOUS
    <2>2. IsResting(cl, "idle", client.made)
      BY <1>1, ReturnedIs
    <2>3. cl \in [pc : {"idle"}, requests : {empty}, chunks : {{}}, item : {None},
                  ignore : {cl.ignore}, appended : {cl.appended},
                  episode : {cl.episode}, step : {cl.step}, made : {client.made}]
      BY <2>1, <2>2 DEF IsResting
    <2>4. client' = [cl EXCEPT !.made = made]
      BY <1>1, <1>8, <2>3
    <2>5. /\ client' \in [pc : {"idle"}, requests : {empty}, chunks : {{}},
                          item : {None}, ignore : {client'.ignore},
                          appended : {client'.appended}, episode : {client'.episode},
                          step : {client'.step}, made : {made}]
          /\ client'.made = made /\ client'.pc = "idle"
      BY <2>3, <2>4
    <2> QED
      BY <1>13, <2>1, <2>5 DEF IsResting
  <1>15. StreamOpen(client', str2)
    BY <1>9, <1>11 DEF StreamOpen
  <1>16. Booked(client'.made, writer', table'.items)
    BY <1>1, <1>8, <1>12, <1>13, <1>14 DEF StreamingInv, Booked
  <1>17. client.chunks = {}
    BY DEF StreamingInv, IsClient
  <1>18. /\ \A m \in writer'.moved : Older(chunker', m)
         /\ \A r \in ToSet(chunker'.active_refs) :
               r.chunk \in writer'.moved => r.chunk \in writer'.streamed
    BY <1>6, <1>8, <1>12, <1>17 DEF StreamingInv, RefsOk
  <1>19. ChunkerOk(chunker')
    BY <1>8 DEF StreamingInv
  <1> QED
    BY <1>1, <1>11, <1>12, <1>14, <1>15, <1>16, <1>18, <1>19, RestingStep

LEMMA WriteSucceedsStep ==
    ASSUME StreamingInv, WriteSucceeds
    PROVE  StreamingInv'
  <1>1. client.pc \in {"chunks", "item"}
    BY DEF WriteSucceeds, StreamingInv, IsClient
  <1> QED
    BY <1>1, WriteChunksStep, WriteItemStep

LEMMA WriteFailsStep ==
    ASSUME StreamingInv, WriteFails
    PROVE  StreamingInv'
  <1>1. PICK empty : empty = << >>
    OBVIOUS
  <1>2. /\ client' = [client EXCEPT !.pc = "finish", !.requests = empty]
        /\ UNCHANGED <<writer, worker, chunker, stream, table>>
        /\ client.pc \in {"chunks", "item"}
    BY <1>1 DEF WriteFails, StreamingInv, IsClient
  <1>3. IsSeq(empty) /\ IsClient(client) /\ IsSeq(client.made)
    BY <1>1, EmptyIsSeq DEF StreamingInv, IsClient
  <1>4. /\ client' \in [pc : {"finish"}, requests : {empty}, chunks : {client.chunks},
               item : {client'.item}, ignore : {client'.ignore},
               appended : {client'.appended}, episode : {client'.episode},
               step : {client'.step}, made : {client'.made}]
        /\ client'.pc = "finish" /\ client'.item = client.item
        /\ client'.made = client.made /\ client'.chunks = client.chunks
    BY <1>2, <1>3 DEF IsClient
  <1>5. IsClient(client')
    BY <1>1, <1>3, <1>4, CallingFacts DEF IsClient
  <1>6. Sends(client', writer', stream'[writer'.stream])
    BY <1>2, <1>4 DEF StreamingInv, Sends
  <1>7. StreamOpen(client', stream'[writer'.stream])
    BY <1>2, <1>4 DEF StreamingInv, StreamOpen
  <1>8. RefsOk(client', writer', chunker')
    BY <1>2, <1>4 DEF StreamingInv, RefsOk
  <1>9. ServerInv'
    BY <1>2, ServerStays DEF StreamingInv
  <1> QED
    BY <1>2, <1>4, <1>5, <1>6, <1>7, <1>8, <1>9 DEF StreamingInv

\* A stream that was not half-closed never ends without an error.
LEMMA StreamReplacedStep ==
    ASSUME StreamingInv, StreamReplaced
    PROVE  StreamingInv'
  <1>1. PICK s, str, status : s = writer.stream /\ str = stream[s] /\ status = StreamStatus(s)
    OBVIOUS
  <1>2. /\ client.pc = "finish" /\ AtEnd(s) /\ client' = Returned
        /\ chunker' = chunker /\ table' = table
    BY <1>1 DEF StreamReplaced
  <1>3. s \in Streams /\ str.open /\ ~str.writes_done /\ EndsRightly(str) /\ IsWriter(writer)
    BY <1>1, <1>2 DEF StreamingInv, IsWriter, StreamOpen, ServerInv, StreamOk
  <1>4. /\ IsResting(client', "idle", client'.made) /\ client'.made = client.made
        /\ client'.pc = "idle"
    <2>1. IsResting(client', "idle", client.made)
      BY <1>2, ReturnedIs
    <2> QED
      BY <2>1, RestingFacts
  <1>5. ChunkerOk(chunker') /\ \A m \in writer.moved : Older(chunker', m)
    BY <1>2 DEF StreamingInv, RefsOk
  <1>6. CASE IsTransientError(status)
    <2>1. PICK t : t = NextStream
      OBVIOUS
    <2>2. PICK loss : loss = "data_loss"
      OBVIOUS
    <2>3. /\ Unopened # {} /\ stream' = Opened(t)
          /\ writer' = [writer EXCEPT !.stream = t, !.recoverable = loss]
      BY <1>1, <1>6, <2>1, <2>2 DEF StreamReplaced
    <2>4. t \in Streams /\ ~stream[t].open
      BY <2>1, <2>3, NextStreamIsNew DEF StreamingInv
    <2>5. ServerInv' /\ stream'[t].open /\ ~stream'[t].writes_done
      BY <1>2, <2>3, <2>4, OpenedStep DEF StreamingInv
    <2>6. /\ IsWriter(writer') /\ writer'.stream = t /\ writer'.moved = writer.moved
          /\ writer'.in_flight_items = writer.in_flight_items
          /\ writer'.recoverable = loss
      BY <1>3, <2>3, <2>4 DEF IsWriter
    <2>7. FailedIn(writer')
      BY <2>2, <2>6 DEF FailedIn
    <2>8. StreamOpen(client', stream'[writer'.stream])
      BY <2>5, <2>6 DEF StreamOpen
    <2>9. Booked(client'.made, writer', table'.items)
      BY <1>2, <1>4, <2>6 DEF StreamingInv, Booked
    <2> QED
      BY <1>4, <1>5, <2>5, <2>6, <2>7, <2>8, <2>9, RestingStep
  <1>7. CASE ~IsTransientError(status)
    <2>1. stream' = stream /\ writer' = [writer EXCEPT !.unrecoverable = status]
      BY <1>1, <1>7 DEF StreamReplaced
    <2>2. status # "ok"
      BY <1>1, <1>2, <1>3 DEF StreamStatus, AtEnd, EndsRightly
    <2>3. /\ IsWriter(writer') /\ writer'.stream = s /\ writer'.moved = writer.moved
          /\ writer'.in_flight_items = writer.in_flight_items
          /\ writer'.unrecoverable = status
      BY <1>1, <1>3, <2>1 DEF IsWriter
    <2>4. FailedIn(writer')
      BY <2>2, <2>3 DEF FailedIn
    <2>5. ServerInv'
      BY <1>2, <2>1, ServerStays DEF StreamingInv
    <2>6. StreamOpen(client', stream'[writer'.stream])
      BY <1>1, <1>3, <2>1, <2>3 DEF StreamOpen
    <2>7. Booked(client'.made, writer', table'.items)
      BY <1>2, <1>4, <2>3 DEF StreamingInv, Booked
    <2> QED
      BY <1>4, <1>5, <2>3, <2>4, <2>5, <2>6, <2>7, RestingStep
  <1> QED
    BY <1>6, <1>7

\* The chunks of the call count as streamed once all requests are written.
LEMMA ChunksStreamedStep ==
    ASSUME StreamingInv, ChunksStreamed
    PROVE  StreamingInv'
  <1>1. PICK s, str, all, q : /\ s = writer.stream /\ str = stream[s]
                              /\ all = writer.streamed \cup client.chunks
                              /\ q = Request({}, <<client.item>>, all)
    OBVIOUS
  <1>2. /\ client.pc = "chunks" /\ client.requests = << >>
        /\ writer' = [writer EXCEPT !.streamed = all]
        /\ client' = IF \/ client.item = None
                        \/ client.item.table \notin SignatureTables
                     THEN Returned
                     ELSE [client EXCEPT !.pc = "item", !.requests = <<q>>,
                                         !.chunks = {}]
        /\ chunker' = chunker /\ stream' = stream /\ table' = table
    BY <1>1 DEF ChunksStreamed, KeysStreamed
  <1>3. /\ s \in Streams /\ str.open /\ ~str.writes_done /\ ~FailedIn(writer)
        /\ IsWriter(writer) /\ IsClient(client) /\ ChunkerOk(chunker)
    BY <1>1, <1>2 DEF StreamingInv, IsWriter, StreamOpen, Sends
  <1>4. Has(str, all)
    <2>1. PICK S : /\ Has(str, S) /\ writer.streamed \subseteq S
                   /\ client.chunks \subseteq S \cup ChunksIn(client.requests)
      BY <1>1, <1>2 DEF StreamingInv, Sends
    <2>2. ChunksIn(client.requests) = {}
      BY <1>2, EmptyIsSeq DEF ChunksIn
    <2>3. all \subseteq S
      BY <1>1, <2>1, <2>2
    <2> QED
      BY <2>1, <2>3, HasLess
  <1>5. /\ IsWriter(writer') /\ writer'.stream = s /\ writer'.moved = writer.moved
        /\ writer'.in_flight_items = writer.in_flight_items
        /\ writer'.streamed = all
        /\ writer'.recoverable = writer.recoverable
        /\ writer'.unrecoverable = writer.unrecoverable
    BY <1>1, <1>2, <1>3 DEF IsWriter
  <1>6. ~FailedIn(writer')
    BY <1>3, <1>5 DEF FailedIn
  <1>7. ServerInv'
    BY <1>2, ServerStays DEF StreamingInv
  <1>8. /\ \A m \in writer'.moved : Older(chunker', m)
        /\ \A r \in ToSet(chunker'.active_refs) :
              r.chunk \in writer'.moved => r.chunk \in writer'.streamed
    BY <1>1, <1>2, <1>3, <1>5 DEF StreamingInv, RefsOk
  <1>9. Has(stream'[writer'.stream], writer'.streamed)
    BY <1>1, <1>2, <1>4, <1>5
  <1>10. CASE \/ client.item = None
              \/ client.item.table \notin SignatureTables
    <2>1. client' = Returned
      BY <1>2, <1>10
    <2>2. /\ IsResting(client', "idle", client'.made) /\ client'.made = client.made
          /\ client'.pc = "idle"
      <3>1. IsResting(client', "idle", client.made)
        BY <2>1, ReturnedIs
      <3> QED
        BY <3>1, RestingFacts
    <2>3. StreamOpen(client', stream'[writer'.stream])
      BY <1>1, <1>2, <1>3, <1>5 DEF StreamOpen
    <2>4. Booked(client'.made, writer', table'.items)
      BY <1>2, <1>5, <2>2 DEF StreamingInv, Booked
    <2> QED
      BY <1>2, <1>3, <1>5, <1>7, <1>8, <1>9, <2>2, <2>3, <2>4, RestingStep
  <1>11. CASE ~(\/ client.item = None
                \/ client.item.table \notin SignatureTables)
    <2>1. PICK requests, pc : requests = <<q>> /\ pc = "item"
      OBVIOUS
    <2>2. client' = [client EXCEPT !.pc = pc, !.requests = requests, !.chunks = {}]
          /\ client.item # None
      BY <1>2, <1>11, <2>1
    <2>3. /\ client' \in [pc : {pc}, requests : {requests}, chunks : {{}},
               item : {client'.item}, ignore : {client'.ignore},
               appended : {client'.appended}, episode : {client'.episode},
               step : {client'.step}, made : {client'.made}]
          /\ client'.pc = pc /\ client'.item = client.item
          /\ client'.made = client.made /\ client'.chunks = {}
          /\ client'.requests = requests
      BY <1>3, <2>2 DEF IsClient
    <2>4. IsSeq(requests) /\ IsSeq(client'.made)
      BY <1>3, <2>1, <2>3, OneIsSeq DEF IsClient
    <2>5. client'.item.key \in Nat
      BY <1>3, <2>2, <2>3 DEF IsClient
    <2>6. IsClient(client')
      BY <2>1, <2>3, <2>4, <2>5, CallingFacts
    <2>7. ChunksOf(client.item) \subseteq all
      BY <1>1, <1>2, <2>2 DEF StreamingInv, Sends
    <2>8. client'.requests = <<Request({}, <<client'.item>>, writer'.streamed)>>
      BY <1>1, <1>5, <2>1, <2>3
    <2>9. Sends(client', writer', stream'[writer'.stream])
      BY <1>5, <1>6, <1>9, <2>1, <2>2, <2>3, <2>7, <2>8 DEF Sends
    <2>10. StreamOpen(client', stream'[writer'.stream])
      BY <1>1, <1>2, <1>3, <1>5 DEF StreamOpen
    <2>11. RefsOk(client', writer', chunker')
      BY <1>8 DEF RefsOk
    <2>12. Booked(client'.made, writer', table'.items)
      BY <1>2, <1>5, <2>3 DEF StreamingInv, Booked
    <2> QED
      BY <1>2, <1>3, <1>5, <1>7, <2>6, <2>9, <2>10, <2>11, <2>12 DEF StreamingInv
  <1> QED
    BY <1>10, <1>11

\* A new call, or the end of one that was only waiting.
LEMMA WaitStep ==
    ASSUME StreamingInv, UNCHANGED <<stream, table, writer, chunker>>,
           client.pc \notin {"chunks", "item", "finish"},
           NEW pc \in {"idle", "flush", "end", "end_clear", "destroyed"},
           client.pc \in {"destroy", "destroyed"} => pc = "destroyed",
           NEW ignore, NEW episode, NEW step,
           client' = [client EXCEPT !.pc = pc, !.ignore = ignore,
                                    !.episode = episode, !.step = step]
    PROVE  StreamingInv'
  <1>1. IsClient(client) /\ client.chunks = {} /\ client.item = None
        /\ client.requests = << >> /\ IsSeq(client.made)
    BY DEF StreamingInv, IsClient
  <1>2. PICK empty : empty = << >>
    OBVIOUS
  <1>3. client' \in [pc : {pc}, requests : {empty}, chunks : {{}}, item : {None},
                     ignore : {client'.ignore}, appended : {client'.appended},
                     episode : {client'.episode}, step : {client'.step},
                     made : {client.made}]
    BY <1>1, <1>2 DEF IsClient
  <1>4. IsResting(client', pc, client.made)
    BY <1>1, <1>2, <1>3 DEF IsResting
  <1>5. IsClient(client') /\ client'.pc = pc /\ client'.made = client.made
    BY <1>4, RestingFacts
  <1> QED
    BY <1>1, <1>5, LocalStep

LEMMA EndEpisodeReturnsStep ==
    ASSUME StreamingInv, EndEpisodeReturns
    PROVE  StreamingInv'
  <1>1. PICK n, cl, empty : n = client.episode + 1 /\ cl = Returned /\ empty = << >>
    OBVIOUS
  <1>2. /\ client.pc \in {"end", "end_clear"}
        /\ client' = [cl EXCEPT !.episode = cl.episode + 1, !.step = 0]
        /\ stream' = stream /\ table' = table
    BY <1>1 DEF EndEpisodeReturns
  <1>3. IsResting(cl, "idle", client.made)
    BY <1>1, ReturnedIs
  <1>4. cl \in [pc : {"idle"}, requests : {empty}, chunks : {{}}, item : {None},
                ignore : {cl.ignore}, appended : {cl.appended},
                episode : {cl.episode}, step : {cl.step}, made : {client.made}]
    BY <1>1, <1>3 DEF IsResting
  <1>5. PICK m : m = cl.episode + 1
    OBVIOUS
  <1>6. client' \in [pc : {"idle"}, requests : {empty}, chunks : {{}}, item : {None},
                     ignore : {client'.ignore}, appended : {client'.appended},
                     episode : {client'.episode}, step : {client'.step},
                     made : {client.made}]
    BY <1>2, <1>4, <1>5
  <1>7. IsResting(client', "idle", client.made)
    BY <1>1, <1>3, <1>6 DEF IsResting
  <1>8. /\ IsResting(client', "idle", client'.made) /\ client'.made = client.made
        /\ client'.pc = "idle" /\ IsClient(client')
    BY <1>7, RestingFacts
  <1>9. client.chunks = {} /\ IsWriter(writer) /\ ChunkerOk(chunker)
    BY <1>2 DEF StreamingInv, IsClient
  <1>10. CASE client.pc = "end"
    <2>1. writer' = writer /\ chunker' = chunker
      BY <1>10 DEF EndEpisodeReturns
    <2> QED
      BY <1>2, <1>8, <1>9, <2>1, LocalStep
  <1>11. CASE client.pc = "end_clear"
    <2>1. PICK ok : ok = "ok"
      OBVIOUS
    <2>2. /\ writer' = [writer EXCEPT !.recoverable = ok, !.streamed = {}]
          /\ chunker' = Reset(chunker)
      BY <1>2, <1>11, <2>1 DEF EndEpisodeReturns, EpisodeCleared
    <2>3. /\ IsWriter(writer') /\ writer'.stream = writer.stream
          /\ writer'.moved = writer.moved /\ writer'.streamed = {}
          /\ writer'.in_flight_items = writer.in_flight_items
      BY <1>9, <2>2 DEF IsWriter
    <2>4. /\ ChunkerOk(chunker') /\ chunker'.active_refs = << >>
          /\ chunker'.column = chunker.column /\ chunker.next <= chunker'.next
      BY <1>9, <2>2, ResetFacts
    <2>5. ToSet(chunker'.active_refs) = {}
      BY <2>4, EmptyIsSeq
    <2>6. chunker.next \in Int /\ chunker'.next \in Int
      BY <1>9, <2>4 DEF ChunkerOk, IsChunker
    <2>7. ASSUME NEW x \in writer.moved PROVE Older(chunker', x)
      <3>1. Older(chunker, x)
        BY <2>7 DEF StreamingInv, RefsOk
      <3> QED
        BY <2>4, <2>6, <3>1, OlderGrows
    <2>8. ServerInv'
      BY <1>2, ServerStays DEF StreamingInv
    <2>9. Has(stream[writer.stream], {})
      BY <1>9 DEF StreamingInv, ServerInv, StreamOk, Has, IsWriter
    <2>10. StreamOpen(client', stream'[writer'.stream])
      BY <1>2, <1>8, <2>3 DEF StreamingInv, StreamOpen
    <2>11. Booked(client'.made, writer', table'.items)
      BY <1>2, <1>8, <2>3 DEF StreamingInv, Booked
    <2> QED
      BY <1>2, <1>8, <2>3, <2>4, <2>5, <2>7, <2>8, <2>9, <2>10, <2>11, RestingStep
  <1> QED
    BY <1>2, <1>10, <1>11

LEMMA DestroyStep ==
    ASSUME StreamingInv, Destroy
    PROVE  StreamingInv'
  <1>1. PICK s, empty : s = writer.stream /\ empty = << >>
    OBVIOUS
  <1>2. /\ client.pc = "idle" /\ stream' = HalfClosed(s)
        /\ client' = [client EXCEPT !.pc = "destroy"]
        /\ writer' = writer /\ chunker' = chunker /\ table' = table
    BY <1>1 DEF Destroy
  <1>3. IsClient(client) /\ client.chunks = {} /\ client.item = None
        /\ client.requests = empty /\ IsSeq(client.made)
    BY <1>1, <1>2 DEF StreamingInv, IsClient
  <1>4. client' \in [pc : {"destroy"}, requests : {empty}, chunks : {{}},
                     item : {None}, ignore : {client'.ignore},
                     appended : {client'.appended}, episode : {client'.episode},
                     step : {client'.step}, made : {client.made}]
    BY <1>2, <1>3 DEF IsClient
  <1>5. IsResting(client', "destroy", client.made)
    BY <1>1, <1>3, <1>4 DEF IsResting
  <1>6. /\ IsResting(client', "destroy", client'.made) /\ client'.made = client.made
        /\ client'.pc = "destroy"
    BY <1>5, RestingFacts
  <1>7. s \in Streams /\ stream[s].open
    BY <1>1 DEF StreamingInv, IsWriter, StreamOpen
  <1>8. /\ ServerInv' /\ stream'[s].open
        /\ \A S : Has(stream[s], S) => Has(stream'[s], S)
    BY <1>2, <1>7, HalfClosedStep DEF StreamingInv
  <1>9. ~FailedIn(writer') => Has(stream'[writer'.stream], writer'.streamed)
    BY <1>1, <1>2, <1>8 DEF StreamingInv, Sends
  <1>10. StreamOpen(client', stream'[writer'.stream])
    BY <1>1, <1>2, <1>6, <1>8 DEF StreamOpen
  <1>11. /\ \A m \in writer'.moved : Older(chunker', m)
         /\ FailedIn(writer')
            \/ \A r \in ToSet(chunker'.active_refs) :
                  r.chunk \in writer'.moved => r.chunk \in writer'.streamed
    BY <1>2, <1>3 DEF StreamingInv, RefsOk
  <1>12. Booked(client'.made, writer', table'.items)
    BY <1>2, <1>6 DEF StreamingInv, Booked
  <1>13. IsWriter(writer') /\ ChunkerOk(chunker')
    BY <1>2 DEF StreamingInv
  <1> QED
    BY <1>6, <1>8, <1>9, <1>10, <1>11, <1>12, <1>13, RestingStep

-----------------------------------------------------------------------------
(* The invariant holds. *)

LEMMA StreamingInit ==
    ASSUME ConstantsOk, Init
    PROVE  StreamingInv
  <1>1. PICK empty, ok, open : /\ empty = << >> /\ ok = "ok"
                               /\ open = [UnusedStream EXCEPT !.open = TRUE]
    OBVIOUS
  <1>2. IsSeq(empty) /\ ToSet(empty) = {}
    BY <1>1, EmptyIsSeq
  <1>3. 1 \in Streams
    BY InsertStreamAssumption
  <1>4. stream = [[s \in Streams |-> UnusedStream] EXCEPT ![1] = open]
    <2>1. stream = [[s \in Streams |-> UnusedStream] EXCEPT ![1].open = TRUE]
      BY DEF Init
    <2>2. PICK u : u = [s \in Streams |-> UnusedStream]
      OBVIOUS
    <2>3. u[1] = UnusedStream /\ stream = [u EXCEPT ![1].open = TRUE]
      BY <1>3, <2>1, <2>2
    <2>4. stream = [u EXCEPT ![1] = [u[1] EXCEPT !.open = TRUE]]
      BY <2>3
    <2>5. stream = [u EXCEPT ![1] = open]
      BY <1>1, <2>3, <2>4
    <2> QED
      BY <2>2, <2>5
  <1>5. /\ stream \in [Streams -> {stream[s] : s \in Streams}]
        /\ stream[1] = open /\ \A s \in Streams : s # 1 => stream[s] = UnusedStream
    BY <1>3, <1>4
  <1>6. ServerInv /\ ~stream[1].writes_done
    BY <1>1, <1>3, <1>5, ServerInvStart DEF Init
  <1>7. stream[1].open
    BY <1>1, <1>5 DEF UnusedStream
  <1>8. writer = [streamed |-> {}, moved |-> {}, in_flight_items |-> {}, stream |-> 1,
                  recoverable |-> ok, unrecoverable |-> ok]
    BY <1>1 DEF Init
  <1>9. /\ IsWriter(writer) /\ writer.stream = 1 /\ writer.streamed = {}
        /\ writer.moved = {}
    BY <1>3, <1>8 DEF IsWriter
  <1>10. client = [pc |-> "idle", requests |-> empty, chunks |-> {},
                   item |-> None, ignore |-> 0, appended |-> 0,
                   episode |-> 1, step |-> 0, made |-> empty]
    BY <1>1 DEF Init
  <1>11. client \in [pc : {"idle"}, requests : {empty}, chunks : {{}}, item : {None},
                     ignore : {client.ignore}, appended : {client.appended},
                     episode : {client.episode}, step : {client.step}, made : {empty}]
    BY <1>10
  <1>12. IsResting(client, "idle", empty)
    BY <1>1, <1>2, <1>11 DEF IsResting
  <1>13. IsClient(client) /\ client.pc = "idle" /\ client.made = empty
         /\ client.chunks = {}
    BY <1>12, RestingFacts
  <1>14. ChunkerOk(chunker)
    <2>1. PICK o \in ChunkerOptions : chunker = NewChunker(1, [o EXCEPT !.auto_tuned = FALSE])
      BY DEF Init
    <2>2. PICK p : p = [o EXCEPT !.auto_tuned = FALSE]
      OBVIOUS
    <2>3. o \in [max_chunk_length : Nat, num_keep_alive_refs : Nat,
                 auto_tuned : BOOLEAN] /\ ValidOptions(o)
      BY <2>1 DEF ConstantsOk
    <2>4. p.max_chunk_length = o.max_chunk_length
          /\ p.num_keep_alive_refs = o.num_keep_alive_refs
      BY <2>2, <2>3
    <2>5. p.max_chunk_length \in Nat /\ p.num_keep_alive_refs \in Nat /\ ValidOptions(p)
      BY <2>3, <2>4 DEF ValidOptions
    <2> QED
      BY <2>1, <2>2, <2>5, NewChunkerFacts
  <1>15. Has(stream[1], {})
    BY <1>3, <1>6 DEF ServerInv, StreamOk, Has
  <1>16. Sends(client, writer, stream[writer.stream])
    BY <1>9, <1>13, <1>15 DEF Sends
  <1>17. StreamOpen(client, stream[writer.stream])
    BY <1>6, <1>7, <1>9 DEF StreamOpen
  <1>18. RefsOk(client, writer, chunker)
    BY <1>9 DEF RefsOk
  <1>19. Booked(client.made, writer, table.items)
    BY <1>2, <1>13 DEF Booked
  <1> QED
    BY <1>6, <1>9, <1>13, <1>14, <1>16, <1>17, <1>18, <1>19 DEF StreamingInv

\* Every step of the client, of the worker, of gRPC and of the servers keeps
\* the invariant.
LEMMA StreamingStep ==
    ASSUME ConstantsOk, StreamingInv, Next
    PROVE  StreamingInv'
  <1>0. client = [client EXCEPT !.pc = client.pc] /\ IsClient(client)
    BY DEF StreamingInv, IsClient
  <1>1. CASE WorkerEnds
    BY <1>1, LocalStep DEF WorkerEnds
  <1>2. ASSUME NEW t, NEW n \in ItemLengths, CreateItem(t, n) PROVE StreamingInv'
    <2>1. n \in Nat \ {0}
      BY DEF ConstantsOk
    <2> QED
      BY <1>2, <2>1, CreateItemStep
  <1>3. ASSUME NEW ignore, Flush(ignore) PROVE StreamingInv'
    <2>1. client' = [client EXCEPT !.pc = "flush", !.ignore = ignore,
                         !.episode = client.episode, !.step = client.step]
      BY <1>0, <1>3 DEF Flush, IsClient
    <2>2. client.pc = "idle" /\ UNCHANGED <<stream, table, writer, chunker>>
      BY <1>3 DEF Flush
    <2> QED
      BY <2>1, <2>2, WaitStep, Zenon
  <1>4. ASSUME NEW clear_buffers, EndEpisode(clear_buffers) PROVE StreamingInv'
    <2>1. PICK pc : pc = IF clear_buffers THEN "end_clear" ELSE "end"
      OBVIOUS
    <2>2. client' = [client EXCEPT !.pc = pc, !.ignore = 0,
                         !.episode = client.episode, !.step = client.step]
      BY <1>0, <1>4, <2>1 DEF EndEpisode, IsClient
    <2>3. pc \in {"end", "end_clear"}
      BY <2>1
    <2>4. client.pc = "idle" /\ UNCHANGED <<stream, table, writer, chunker>>
      BY <1>4 DEF EndEpisode
    <2> QED
      BY <2>2, <2>3, <2>4, WaitStep, Zenon
  <1>5. CASE DestroyReturns
    <2>1. client' = [client EXCEPT !.pc = "destroyed", !.ignore = client.ignore,
                         !.episode = client.episode, !.step = client.step]
      BY <1>0, <1>5 DEF DestroyReturns, IsClient
    <2>2. client.pc = "destroy" /\ UNCHANGED <<stream, table, writer, chunker>>
      BY <1>5 DEF DestroyReturns
    <2> QED
      BY <2>1, <2>2, WaitStep, Zenon
  <1>6. CASE FlushReturns \/ FlushTimesOut
    BY <1>6, CallReturnsStep DEF FlushReturns, FlushTimesOut
  <1>7. CASE ServerNext /\ UNCHANGED <<writer, worker, client, chunker>>
    <2>1. /\ ServerInv' /\ table.items \subseteq table'.items
          /\ \A t \in Streams : Keeps(stream[t], stream'[t])
      BY <1>7, ServerStep DEF StreamingInv
    <2>2. IsWriter(writer')
      BY <1>7 DEF StreamingInv
    <2> QED
      BY <1>7, <2>1, <2>2, CalmStep
  <1> QED
    BY <1>1, <1>2, <1>3, <1>4, <1>5, <1>6, <1>7, WorkerReadsStep, AppendCellStep,
       WriteSucceedsStep, WriteFailsStep, StreamReplacedStep, ChunksStreamedStep,
       EndEpisodeReturnsStep, DestroyStep DEF Next
=============================================================================
