---------------------------- MODULE WriterProofs ----------------------------
(***************************************************************************)
(* The older Writer against its servers, for every number of streams,      *)
(* items and rows.  First, the server has the chunks of every item it is   *)
(* sent.  Then, the items that are not confirmed are the last ones, and no *)
(* more than the writer counts: their keys are consecutive along the       *)
(* responses, the queue of the table and the requests under way.           *)
(***************************************************************************)
EXTENDS Writer, InsertStreamProofs

\* What Writers assumes of the constants of a Writer.
ConstantsOk ==
    /\ ChunkLength \in Nat \ {0} /\ MaxTimesteps \in Nat \ {0}
    /\ ItemLengths \subseteq Nat \ {0}

-----------------------------------------------------------------------------
(* The loops of WritePendingData, of CreateItem and of Finish. *)

MissTurn(streamed, acc, c) ==
    IF c.key \in PendingChunks /\ c.key \notin streamed
    THEN Append(acc, c) ELSE acc
MissLoop == INSTANCE FoldFacts WITH Op <- MissTurn

\* The chunks that are missing are the pending ones that were not streamed.
LEMMA MissingFacts ==
    ASSUME NEW chunks, chunks = chunker.chunks_, IsSeq(chunks),
           NEW streamed, NEW missing, missing = Missing(streamed)
    PROVE  /\ IsSeq(missing) /\ ToSet(missing) \subseteq ToSet(chunks)
           /\ \A c \in ToSet(chunks) : c.key \in PendingChunks =>
                 c.key \in KeysOf(missing) \cup streamed
  <1>1. PICK n, empty : n = Len(chunks) /\ empty = << >>
    OBVIOUS
  <1>2. n \in Nat /\ DOMAIN chunks = 1 .. n /\ \A k \in 1 .. n : chunks[k] \in ToSet(chunks)
    BY <1>1, IsSeqFacts
  <1>3. PICK S : S = ToSet(chunks)
    OBVIOUS
  <1>4. PICK I : I = [k \in 0 .. n |->
                        {a \in Seq(S) : \A j \in 1 .. k : chunks[j].key \in PendingChunks =>
                             chunks[j] \in ToSet(a) \/ chunks[j].key \in streamed}]
    OBVIOUS
  <1>5. missing = MissLoop!Fold(streamed, empty, chunks)
    BY <1>1 DEF Missing, MissLoop!Fold, MissTurn, FoldLeft, MapThenFoldSet,
           MissLoop!FoldLeft, MissLoop!MapThenFoldSet, Max, MissLoop!Max
  <1>6. empty \in I[0]
    <2>1. 0 \in 0 .. n /\ 1 .. 0 = {} /\ empty \in Seq(S)
      BY <1>1, <1>2
    <2> QED
      BY <1>4, <2>1
  <1>7. ASSUME NEW k \in 1 .. n, NEW a \in I[k - 1]
        PROVE  MissTurn(streamed, a, chunks[k]) \in I[k]
    <2>1. k - 1 \in 0 .. n /\ k \in 0 .. n
          /\ \A j \in 1 .. k : j \in 1 .. k - 1 \/ j = k
      BY <1>2
    <2>2. PICK c : c = chunks[k]
      OBVIOUS
    <2>3. /\ a \in Seq(S) /\ c \in S
          /\ \A j \in 1 .. k - 1 : chunks[j].key \in PendingChunks =>
                chunks[j] \in ToSet(a) \/ chunks[j].key \in streamed
      BY <1>2, <1>3, <1>4, <2>1, <2>2
    <2>4. PICK b : b = MissTurn(streamed, a, c)
      OBVIOUS
    <2>5. CASE c.key \in PendingChunks /\ c.key \notin streamed
      <3>1. b = Append(a, c)
        BY <2>4, <2>5 DEF MissTurn
      <3>2. b \in Seq(S)
        BY <2>3, <3>1
      <3>3. ToSet(b) = ToSet(a) \cup {c}
        BY <2>3, <3>1, AppendSeq, SeqIsSeq
      <3>4. \A j \in 1 .. k : chunks[j].key \in PendingChunks =>
               chunks[j] \in ToSet(b) \/ chunks[j].key \in streamed
        BY <2>1, <2>2, <2>3, <3>3
      <3> QED
        BY <1>4, <2>1, <2>2, <2>4, <3>2, <3>4
    <2>6. CASE ~(c.key \in PendingChunks /\ c.key \notin streamed)
      <3>1. b = a
        BY <2>4, <2>6 DEF MissTurn
      <3>2. \A j \in 1 .. k : chunks[j].key \in PendingChunks =>
               chunks[j] \in ToSet(a) \/ chunks[j].key \in streamed
        BY <2>1, <2>2, <2>3, <2>6
      <3> QED
        BY <1>4, <2>1, <2>2, <2>3, <2>4, <3>1, <3>2
    <2> QED
      BY <2>5, <2>6
  <1>8. missing \in I[n]
    BY <1>2, <1>5, <1>6, <1>7, MissLoop!FoldInvariant
  <1>9. /\ missing \in Seq(S)
        /\ \A j \in 1 .. n : chunks[j].key \in PendingChunks =>
              chunks[j] \in ToSet(missing) \/ chunks[j].key \in streamed
    BY <1>2, <1>4, <1>8
  <1>10. IsSeq(missing) /\ ToSet(missing) \subseteq S
    BY <1>9, SeqIsSeq
  <1>11. ASSUME NEW c \in ToSet(chunks), c.key \in PendingChunks
         PROVE  c.key \in KeysOf(missing) \cup streamed
    <2>1. PICK j \in 1 .. n : c = chunks[j]
      BY <1>1, IsSeqFacts
    <2> QED
      BY <1>9, <1>11, <2>1 DEF KeysOf
  <1> QED
    BY <1>3, <1>10, <1>11

RowTurn(p, acc, c) == acc + Len(c.rows)
RowLoop == INSTANCE FoldFacts WITH Op <- RowTurn

NumRows(chunks) == FoldLeft(LAMBDA acc, c : acc + Len(c.rows), 0, chunks)

\* Chunks whose rows are sequences.
AreChunks(chunks) == IsSeq(chunks) /\ \A c \in ToSet(chunks) : IsSeq(c.rows)

LEMMA NumRowsFacts ==
    ASSUME NEW chunks, AreChunks(chunks)
    PROVE  NumRows(chunks) \in Int
  <1>1. PICK n : n = Len(chunks)
    OBVIOUS
  <1>2. n \in Nat /\ DOMAIN chunks = 1 .. n /\ \A k \in 1 .. n : chunks[k] \in ToSet(chunks)
    BY <1>1, IsSeqFacts DEF AreChunks
  <1>3. PICK I : I = [k \in 0 .. n |-> Int]
    OBVIOUS
  <1>4. NumRows(chunks) = RowLoop!Fold(0, 0, chunks)
    BY DEF NumRows, RowLoop!Fold, RowTurn, FoldLeft, MapThenFoldSet,
           RowLoop!FoldLeft, RowLoop!MapThenFoldSet, Max, RowLoop!Max
  <1>5. 0 \in I[0]
    BY <1>2, <1>3
  <1>6. ASSUME NEW k \in 1 .. n, NEW a \in I[k - 1]
        PROVE  RowTurn(0, a, chunks[k]) \in I[k]
    <2>1. k - 1 \in 0 .. n /\ k \in 0 .. n
      BY <1>2
    <2>2. a \in Int /\ Len(chunks[k].rows) \in Nat
      BY <1>2, <1>3, <2>1, IsSeqFacts DEF AreChunks
    <2>3. a + Len(chunks[k].rows) \in Int
      BY <2>2
    <2> QED
      BY <1>3, <2>1, <2>3 DEF RowTurn
  <1>7. NumRows(chunks) \in I[n]
    BY <1>2, <1>4, <1>5, <1>6, RowLoop!FoldInvariant
  <1> QED
    BY <1>2, <1>3, <1>7

FlatTurn(offset, acc, c) ==
    LET o == IF acc.slices = << >> THEN offset ELSE 0
        n == IF Len(c.rows) - o < acc.left THEN Len(c.rows) - o
             ELSE acc.left
    IN  [slices |-> Append(acc.slices,
                       [chunk |-> c.key, offset |-> o, length |-> n]),
         left |-> acc.left - n]
FlatLoop == INSTANCE FoldFacts WITH Op <- FlatTurn

\* The slices are slices of the chunks.
LEMMA FlatFacts ==
    ASSUME NEW chunks, AreChunks(chunks), NEW offset \in Int, NEW length \in Int,
           NEW slices, slices = FlatTimestepTrajectory(chunks, offset, length)
    PROVE  IsSeq(slices) /\ \A i \in DOMAIN slices : slices[i].chunk \in KeysOf(chunks)
  <1>1. PICK n, empty, base : /\ n = Len(chunks) /\ empty = << >>
                              /\ base = [slices |-> empty, left |-> length]
    OBVIOUS
  <1>2. n \in Nat /\ DOMAIN chunks = 1 .. n /\ \A k \in 1 .. n : chunks[k] \in ToSet(chunks)
    BY <1>1, IsSeqFacts DEF AreChunks
  <1>3. PICK S : S = [chunk : KeysOf(chunks), offset : Int, length : Int]
    OBVIOUS
  <1>4. PICK A : A = [slices : Seq(S), left : Int]
    OBVIOUS
  <1>5. PICK I : I = [k \in 0 .. n |-> A]
    OBVIOUS
  <1>6. slices = FlatLoop!Fold(offset, base, chunks).slices
    <2>1. slices = FlatLoop!Fold(offset, [slices |-> << >>, left |-> length],
                                 chunks).slices
      BY DEF FlatTimestepTrajectory, FlatLoop!Fold, FlatTurn, FoldLeft,
         MapThenFoldSet, FlatLoop!FoldLeft, FlatLoop!MapThenFoldSet, Max, FlatLoop!Max
    <2> QED
      BY <1>1, <2>1
  <1>7. base \in I[0]
    <2>1. 0 \in 0 .. n /\ empty \in Seq(S)
      BY <1>1, <1>2
    <2>2. base \in A
      BY <1>1, <1>4, <2>1
    <2> QED
      BY <1>5, <2>1, <2>2
  <1>8. ASSUME NEW k \in 1 .. n, NEW a \in I[k - 1]
        PROVE  FlatTurn(offset, a, chunks[k]) \in I[k]
    <2>1. k - 1 \in 0 .. n /\ k \in 0 .. n
      BY <1>2
    <2>2. PICK c, rows : c = chunks[k] /\ rows = Len(c.rows)
      OBVIOUS
    <2>3. a \in A /\ rows \in Int /\ c.key \in KeysOf(chunks)
      BY <1>2, <1>5, <2>1, <2>2, IsSeqFacts DEF AreChunks, KeysOf
    <2>4. PICK o : o = IF a.slices = << >> THEN offset ELSE 0
      OBVIOUS
    <2>5. PICK m : m = IF rows - o < a.left THEN rows - o ELSE a.left
      OBVIOUS
    <2>6. a.slices \in Seq(S) /\ a.left \in Int /\ o \in Int
      BY <1>4, <2>3, <2>4
    <2>7. m \in Int
      BY <2>3, <2>5, <2>6
    <2>8. PICK x, left : /\ x = [chunk |-> c.key, offset |-> o, length |-> m]
                         /\ left = a.left - m
      OBVIOUS
    <2>9. x \in S /\ left \in Int
      BY <1>3, <2>3, <2>6, <2>7, <2>8
    <2>10. Append(a.slices, x) \in Seq(S)
      BY <2>6, <2>9
    <2>11. FlatTurn(offset, a, c) = [slices |-> Append(a.slices, x), left |-> left]
      BY <2>2, <2>4, <2>5, <2>8 DEF FlatTurn
    <2>12. FlatTurn(offset, a, c) \in A
      BY <1>4, <2>9, <2>10, <2>11
    <2> QED
      BY <1>5, <2>1, <2>2, <2>12
  <1>9. FlatLoop!Fold(offset, base, chunks) \in I[n]
    BY <1>2, <1>7, <1>8, FlatLoop!FoldInvariant
  <1>10. slices \in Seq(S)
    BY <1>2, <1>4, <1>5, <1>6, <1>9
  <1>11. \A i \in DOMAIN slices : slices[i] \in S
    BY <1>10
  <1> QED
    BY <1>3, <1>10, <1>11, SeqIsSeq

LEMMA GreatestExists ==
    ASSUME NEW n \in Nat, NEW S \in SUBSET (1 .. n), S # {}
    PROVE  \E i \in S : \A j \in S : j <= i
  <1>1. PICK T : T = {n - i : i \in S}
    OBVIOUS
  <1>2. T \in SUBSET Nat /\ T # {}
    <2>1. \A i \in S : n - i \in Nat
      OBVIOUS
    <2> QED
      BY <1>1, <2>1
  <1>3. PICK x \in T : \A y \in T : x <= y
    BY <1>2, LeastExists
  <1>4. PICK i \in S : x = n - i
    BY <1>1, <1>3
  <1>5. ASSUME NEW j \in S PROVE j <= i
    <2>1. n - j \in T
      BY <1>1
    <2>2. n - i <= n - j
      BY <1>3, <1>4, <2>1
    <2> QED
      BY <1>4, <2>2
  <1> QED
    BY <1>5

AllChunks ==
    chunker.chunks_ \o
        (IF chunker.buffer = << >> THEN << >>
         ELSE <<[key |-> NextKey, rows |-> chunker.buffer]>>)

FirstOf(enough) ==
    IF enough = {} THEN 1 ELSE CHOOSE i \in enough : \A j \in enough : j <= i
EnoughOf(all, n) ==
    {i \in DOMAIN all : NumRows(SubSeq(all, i, Len(all))) >= n}
BackOf(all, n, first) ==
    [chunks |-> SubSeq(all, first, Len(all)),
     offset |-> NumRows(SubSeq(all, first, Len(all))) - n]

LEMMA ChunksBackToIs ==
    ASSUME NEW n
    PROVE  ChunksBackTo(n) = BackOf(AllChunks, n, FirstOf(EnoughOf(AllChunks, n)))
  BY DEF ChunksBackTo, AllChunks, NumRows, FirstOf, EnoughOf, BackOf

\* CreateItem finds chunks that exist, or the one under construction.
LEMMA BackFacts ==
    ASSUME AreChunks(AllChunks), NEW n \in Int, NEW back, back = ChunksBackTo(n)
    PROVE  /\ AreChunks(back.chunks) /\ back.offset \in Int
           /\ ToSet(back.chunks) \subseteq ToSet(AllChunks)
  <1>1. PICK all, len : all = AllChunks /\ len = Len(all)
    OBVIOUS
  <1>2. PICK enough : enough = EnoughOf(all, n)
    OBVIOUS
  <1>3. PICK first : first = FirstOf(enough)
    OBVIOUS
  <1>4. back = BackOf(all, n, first)
    BY <1>1, <1>2, <1>3, ChunksBackToIs
  <1>5. len \in Nat /\ DOMAIN all = 1 .. len /\ IsSeq(all)
    BY <1>1, IsSeqFacts DEF AreChunks
  <1>6. first \in Int /\ 1 <= first /\ first <= len + 1
    <2>1. CASE enough = {}
      BY <1>3, <1>5, <2>1 DEF FirstOf
    <2>2. CASE enough # {}
      <3>1. enough \in SUBSET (1 .. len)
        BY <1>2, <1>5 DEF EnoughOf
      <3>2. \E i \in enough : \A j \in enough : j <= i
        BY <1>5, <2>2, <3>1, GreatestExists
      <3>3. first \in enough
        BY <1>3, <2>2, <3>2 DEF FirstOf
      <3> QED
        BY <1>5, <3>1, <3>3
    <2> QED
      BY <2>1, <2>2
  <1>7. PICK used : used = SubSeq(all, first, len)
    OBVIOUS
  <1>8. IsSeq(used) /\ ToSet(used) \subseteq ToSet(all)
    <2>1. len \in Int /\ len <= Len(all)
      BY <1>1, <1>5
    <2>2. IsSeq(SubSeq(all, first, len)) /\ ToSet(SubSeq(all, first, len)) \subseteq ToSet(all)
      BY <1>5, <1>6, <2>1, SubSeqSeq, ZenonT(30)
    <2> QED
      BY <1>7, <2>2
  <1>9. AreChunks(used)
    BY <1>1, <1>8 DEF AreChunks
  <1>10. NumRows(used) \in Int
    BY <1>9, NumRowsFacts
  <1>11. back.chunks = used /\ back.offset = NumRows(used) - n
    <2>1. PICK d : d = NumRows(used) - n
      OBVIOUS
    <2>2. back = [chunks |-> used, offset |-> d]
      BY <1>1, <1>4, <1>7, <2>1 DEF BackOf
    <2> QED
      BY <2>1, <2>2
  <1>12. back.offset \in Int
    BY <1>10, <1>11
  <1> QED
    BY <1>1, <1>8, <1>9, <1>11, <1>12

\* Finish keeps some of the newest chunks.
LEMMA KeptFacts ==
    ASSUME ConstantsOk, NEW chunks, IsSeq(chunks), NEW kept, kept = KeptChunks(chunks)
    PROVE  IsSeq(kept) /\ ToSet(kept) \subseteq ToSet(chunks)
  <1>1. PICK n : n = Len(chunks)
    OBVIOUS
  <1>2. n \in Nat
    BY <1>1, IsSeqFacts
  <1>3. PICK drop : drop = {k \in 0 .. n : (n - k - 1) * ChunkLength < MaxTimesteps}
    OBVIOUS
  <1>4. n \in drop
    <2>1. n - n - 1 = -1
      BY <1>2
    <2>2. (-1) * ChunkLength < MaxTimesteps
      BY DEF ConstantsOk
    <2>3. n \in 0 .. n
      BY <1>2
    <2> QED
      BY <1>3, <2>1, <2>2, <2>3
  <1>5. PICK k : k = CHOOSE i \in drop : \A j \in drop : i <= j
    OBVIOUS
  <1>6. k \in drop
    <2>1. drop \in SUBSET Nat
      BY <1>2, <1>3
    <2>2. \E i \in drop : \A j \in drop : i <= j
      BY <1>4, <2>1, LeastExists
    <2> QED
      BY <1>5, <2>2
  <1>7. kept = SubSeq(chunks, k + 1, n)
    BY <1>1, <1>3, <1>5 DEF KeptChunks
  <1>8. PICK a : a = k + 1
    OBVIOUS
  <1>9. a \in Int /\ 1 <= a /\ a <= n + 1 /\ n \in Int /\ n <= Len(chunks)
    BY <1>1, <1>2, <1>3, <1>6, <1>8
  <1>10. IsSeq(SubSeq(chunks, a, n)) /\ ToSet(SubSeq(chunks, a, n)) \subseteq ToSet(chunks)
    BY <1>9, SubSeqSeq, ZenonT(30)
  <1> QED
    BY <1>7, <1>8, <1>10

-----------------------------------------------------------------------------
(* The invariant. *)

\* WriteWithRetries is under way.
Busy == {"open", "chunks", "items", "count", "failed", "stopping"}

PendingOf(wr) == UNION {ChunksOf(i) : i \in ToSet(wr.pending_items)}

IsWriter(wr) ==
    /\ wr \in [stream : Streams \cup {0}, pending_items : {wr.pending_items},
               streamed : {wr.streamed},
               num_items_in_flight : {wr.num_items_in_flight},
               closed : BOOLEAN, stop_requested : {wr.stop_requested}]
    /\ IsSeq(wr.pending_items)
    /\ \A i \in ToSet(wr.pending_items) : i.key \in Nat

\* A request before its item is added.
IsPlain(q) == q \in [chunks : {q.chunks}, items : {<< >>}, keep : {q.keep}]

IsClient(cl) ==
    /\ cl \in [pc : Busy \cup {"idle", "confirm", "close", "close_confirm", "close_stop"},
               call : {cl.call}, retry : {cl.retry}, request : {cl.request},
               appended : {cl.appended}, made : {cl.made}]
    /\ IsSeq(cl.made) /\ IsPlain(cl.request)

IsBuffers(c) ==
    /\ c \in [buffer : {c.buffer}, chunks_ : {c.chunks_}, next : {c.next},
              chunks : {c.chunks}]
    /\ IsSeq(c.buffer) /\ AreChunks(c.chunks_)

\* The stream that is in use is open; it is half-closed before it is given up.
Connected(cl, wr, wk, str) ==
    /\ wr.stream # 0 => str.open
    /\ cl.pc \in {"chunks", "items", "count", "failed", "stopping",
                  "close_confirm", "close_stop"} => wr.stream # 0
    /\ wk # "none" => wr.stream # 0
    /\ cl.pc = "stopping" => str.writes_done

\* What the writer takes for streamed the server has, and it has its data;
\* with the chunks of the next request that is all that pending items need.
Sends(cl, wr, c, str) ==
    wr.stream # 0 /\ ~str.writes_done =>
        /\ Has(str, wr.streamed) /\ wr.streamed \subseteq KeysOf(c.chunks_)
        /\ cl.pc \in {"items", "count"} =>
              /\ cl.request.chunks \subseteq KeysOf(c.chunks_)
              /\ cl.request.keep = cl.request.chunks \cup wr.streamed
              /\ PendingOf(wr) \subseteq cl.request.chunks \cup wr.streamed

\* The data of pending items is in chunks or in the buffer.
PendingOk(cl, wr, c) ==
    /\ cl.pc \in Busy =>
          /\ ~wr.closed /\ PendingOf(wr) \subseteq KeysOf(c.chunks_)
          /\ IF cl.call = "create"
             THEN IF cl.pc \in {"items", "count"} THEN Len(wr.pending_items) <= 1
                  ELSE Len(wr.pending_items) = 1
             ELSE /\ c.chunks_ # << >> /\ Last(c.chunks_).key = <<1, c.next>>
                  /\ Len(c.buffer) > 0
                  /\ cl.call = "append" /\ wr.pending_items # << >> => Len(c.buffer) > 1
    /\ cl.pc = "idle" /\ ~wr.closed /\ wr.pending_items # << >> =>
          /\ Len(c.buffer) > 0
          /\ PendingOf(wr) \subseteq KeysOf(c.chunks_) \cup {<<1, c.next>>}
    /\ cl.pc = "confirm" => wr.pending_items = << >>

WriterInv ==
    /\ ServerInv /\ IsWriter(writer) /\ IsClient(client) /\ IsBuffers(chunker)
    /\ Connected(client, writer, worker, stream[writer.stream])
    /\ Sends(client, writer, chunker, stream[writer.stream])
    /\ PendingOk(client, writer, chunker)

-----------------------------------------------------------------------------
(* Steps. *)

\* A step that leaves the client and its buffers alone.
LEMMA CalmStep ==
    ASSUME WriterInv, ServerInv', client' = client, chunker' = chunker,
           \A t \in Streams : Keeps(stream[t], stream'[t]),
           IsWriter(writer'), writer'.stream = writer.stream,
           writer'.streamed = writer.streamed, writer'.closed = writer.closed,
           writer'.pending_items = writer.pending_items,
           worker' # "none" => worker # "none"
    PROVE  WriterInv'
  <1>1. PICK s, str, str2 : s = writer.stream /\ str = stream[s] /\ str2 = stream'[s]
    OBVIOUS
  <1>2. PendingOf(writer') = PendingOf(writer)
    BY DEF PendingOf
  <1>3. PendingOk(client', writer', chunker')
    BY <1>2 DEF WriterInv, PendingOk
  <1>4. CASE s = 0
    <2>1. Connected(client', writer', worker', str2)
      BY <1>1, <1>4 DEF WriterInv, Connected
    <2>2. Sends(client', writer', chunker', str2)
      BY <1>1, <1>4 DEF Sends
    <2> QED
      BY <1>1, <1>3, <2>1, <2>2 DEF WriterInv
  <1>5. CASE s # 0
    <2>1. s \in Streams
      BY <1>1, <1>5 DEF WriterInv, IsWriter
    <2>2. Keeps(str, str2)
      BY <1>1, <2>1
    <2>3. str2.open = str.open /\ str2.writes_done = str.writes_done
      BY <2>2 DEF Keeps
    <2>4. Connected(client', writer', worker', str2)
      BY <1>1, <2>3 DEF WriterInv, Connected
    <2>5. Has(str, writer.streamed) => Has(str2, writer.streamed)
      BY <2>2, HasKept
    <2>6. Sends(client', writer', chunker', str2)
      BY <1>1, <1>2, <2>3, <2>5 DEF WriterInv, Sends
    <2> QED
      BY <1>1, <1>3, <2>4, <2>6 DEF WriterInv
  <1> QED
    BY <1>4, <1>5

LEMMA WorkerWakesStep ==
    ASSUME WriterInv, WorkerWakes
    PROVE  WriterInv'
  <1>1. ServerInv' /\ \A t \in Streams : Keeps(stream[t], stream'[t])
    BY ServerStays DEF WriterInv, WorkerWakes, Keeps
  <1> QED
    BY <1>1, CalmStep DEF WriterInv, WorkerWakes

LEMMA WorkerReadsStep ==
    ASSUME WriterInv, WorkerReads
    PROVE  WriterInv'
  <1>1. PICK s : s = writer.stream
    OBVIOUS
  <1>2. worker = "read" /\ client' = client /\ chunker' = chunker /\ table' = table
        /\ worker' \in {"wait", "ended"}
    BY DEF WorkerReads
  <1>3. s \in Streams /\ stream[s].open
    BY <1>1, <1>2 DEF WriterInv, Connected, IsWriter
  <1>4. CASE /\ CanRead(s) /\ stream' = ReadFrom(s)
             /\ writer' = [writer EXCEPT !.num_items_in_flight =
                               @ - ConfirmedBy(Response(s))]
    <2>1. ServerInv' /\ \A t \in Streams : Keeps(stream[t], stream'[t])
      BY <1>2, <1>3, <1>4, ReadFromStep DEF WriterInv
    <2>2. PICK n : n = writer.num_items_in_flight - ConfirmedBy(Response(s))
      OBVIOUS
    <2>3. writer' = [writer EXCEPT !.num_items_in_flight = n]
      BY <1>4, <2>2
    <2>4. /\ IsWriter(writer') /\ writer'.stream = writer.stream
          /\ writer'.streamed = writer.streamed /\ writer'.closed = writer.closed
          /\ writer'.pending_items = writer.pending_items
      BY <2>3 DEF WriterInv, IsWriter
    <2> QED
      BY <1>2, <2>1, <2>4, CalmStep
  <1>5. CASE stream' = stream /\ writer' = writer
    <2>1. ServerInv' /\ \A t \in Streams : Keeps(stream[t], stream'[t])
      BY <1>2, <1>5, ServerStays DEF WriterInv, Keeps
    <2> QED
      BY <1>2, <1>5, <2>1, CalmStep DEF WriterInv
  <1> QED
    BY <1>1, <1>4, <1>5 DEF WorkerReads

\* The call goes on at pc.
LEMMA ClientGoes ==
    ASSUME NEW pc \in Busy \cup {"idle", "confirm", "close", "close_confirm",
                                 "close_stop"},
           IsClient(client), client' = [client EXCEPT !.pc = pc]
    PROVE  /\ IsClient(client') /\ client'.pc = pc /\ client'.call = client.call
           /\ client'.request = client.request /\ client'.made = client.made
           /\ client'.retry = client.retry
  BY DEF IsClient

LEMMA PlainFacts ==
    ASSUME NEW chunks, NEW keep, NEW q, q = Request(chunks, << >>, keep)
    PROVE  /\ IsPlain(q) /\ IsRequest(q) /\ q.items = << >> /\ q.chunks = chunks
           /\ q.keep = keep
  <1>1. PICK empty : empty = << >>
    OBVIOUS
  <1>2. IsSeq(empty) /\ DOMAIN empty = {}
    BY <1>1, EmptyIsSeq
  <1>3. q = [chunks |-> chunks, items |-> empty, keep |-> keep]
    BY <1>1 DEF Request
  <1>4. q \in [chunks : {q.chunks}, items : {empty}, keep : {q.keep}]
        /\ q.items = empty /\ q.chunks = chunks /\ q.keep = keep
    BY <1>3
  <1> QED
    BY <1>1, <1>2, <1>4 DEF IsPlain, IsRequest

LEMMA IdleFacts ==
    ASSUME IsClient(client), NEW cl, cl = Idle
    PROVE  IsClient(cl) /\ cl.pc = "idle" /\ cl.made = client.made
  <1>1. PICK q : q = Request({}, << >>, {})
    OBVIOUS
  <1>2. IsPlain(q)
    BY <1>1, PlainFacts
  <1>3. cl = [client EXCEPT !.pc = "idle", !.call = None, !.retry = TRUE, !.request = q]
    BY <1>1 DEF Idle
  <1> QED
    BY <1>2, <1>3 DEF IsClient

LEMMA OpenStreamStep ==
    ASSUME WriterInv, OpenStream
    PROVE  WriterInv'
  <1>1. PICK t : t = NextStream
    OBVIOUS
  <1>2. /\ client.pc = "open" /\ writer.stream = 0 /\ Unopened # {}
        /\ stream' = Opened(t) /\ table' = table /\ chunker' = chunker
        /\ writer' = [writer EXCEPT !.stream = t, !.streamed = {}]
        /\ client' = [client EXCEPT !.pc = "chunks"]
    BY <1>1 DEF OpenStream, StreamedOnNew
  <1>3. t \in Streams /\ ~stream[t].open
    BY <1>1, <1>2, NextStreamIsNew DEF WriterInv
  <1>4. ServerInv' /\ Has(stream'[t], {}) /\ stream'[t].open
    BY <1>2, <1>3, OpenedStep DEF WriterInv
  <1>5. /\ IsWriter(writer') /\ writer'.stream = t /\ writer'.streamed = {}
        /\ writer'.pending_items = writer.pending_items
        /\ writer'.closed = writer.closed /\ t # 0
    BY <1>2, <1>3, InsertStreamAssumption DEF WriterInv, IsWriter
  <1>6. IsClient(client') /\ client'.pc = "chunks" /\ client'.call = client.call
    BY <1>2, ClientGoes DEF WriterInv, Busy
  <1>7. PendingOf(writer') = PendingOf(writer)
    BY <1>5 DEF PendingOf
  <1>8. Connected(client', writer', worker', stream'[writer'.stream])
    BY <1>4, <1>5, <1>6 DEF Connected
  <1>9. Sends(client', writer', chunker', stream'[writer'.stream])
    BY <1>4, <1>5, <1>6 DEF Sends
  <1>10. PendingOk(client', writer', chunker')
    BY <1>2, <1>5, <1>6, <1>7 DEF WriterInv, PendingOk, Busy
  <1> QED
    BY <1>2, <1>4, <1>5, <1>6, <1>8, <1>9, <1>10 DEF WriterInv

\* The writer leaves its streams, its items and its buffers alone.
LEMMA LocalStep ==
    ASSUME WriterInv, stream' = stream, table' = table, chunker' = chunker,
           worker' = worker, IsWriter(writer'),
           writer'.stream = writer.stream, writer'.streamed = writer.streamed,
           writer'.closed = writer.closed, writer'.pending_items = writer.pending_items,
           IsClient(client'), client'.call = client.call,
           client'.request = client.request,
           \/ client.pc = "open" /\ client'.pc = "chunks" /\ writer.stream # 0
           \/ client.pc = "count" /\ client'.pc = "items"
           \/ client.pc = "chunks" /\ client'.pc = "failed"
           \/ client.pc = "items" /\ client'.pc = "failed"
              /\ writer.pending_items # << >>
           \/ client.pc = "close_confirm" /\ client'.pc = "close_stop"
    PROVE  WriterInv'
  <1>1. ServerInv'
    BY ServerStays DEF WriterInv
  <1>2. PendingOf(writer') = PendingOf(writer)
    BY DEF PendingOf
  <1>3. Connected(client', writer', worker', stream'[writer'.stream])
    BY DEF WriterInv, Connected
  <1>4. Sends(client', writer', chunker', stream'[writer'.stream])
    BY <1>2 DEF WriterInv, Sends
  <1>5. PendingOk(client', writer', chunker')
    <2>1. Len(writer.pending_items) \in Nat
          /\ (writer.pending_items # << >> => Len(writer.pending_items) > 0)
      BY IsSeqFacts DEF WriterInv, IsWriter
    <2> QED
      BY <1>2, <2>1 DEF WriterInv, PendingOk, Busy
  <1> QED
    BY <1>1, <1>3, <1>4, <1>5 DEF WriterInv

LEMMA OldStreamStep ==
    ASSUME WriterInv, OldStream
    PROVE  WriterInv'
  <1>1. /\ IsClient(client') /\ client'.pc = "chunks" /\ client'.call = client.call
        /\ client'.request = client.request
    BY ClientGoes DEF WriterInv, OldStream, Busy
  <1> QED
    BY <1>1, LocalStep DEF WriterInv, OldStream

LEMMA CountItemStep ==
    ASSUME WriterInv, CountItem
    PROVE  WriterInv'
  <1>1. /\ IsClient(client') /\ client'.pc = "items" /\ client'.call = client.call
        /\ client'.request = client.request
    BY ClientGoes DEF WriterInv, CountItem, Busy
  <1>2. PICK n : n = writer.num_items_in_flight + 1
    OBVIOUS
  <1>3. writer' = [writer EXCEPT !.num_items_in_flight = n]
    BY <1>2 DEF CountItem
  <1>4. /\ IsWriter(writer') /\ writer'.stream = writer.stream
        /\ writer'.streamed = writer.streamed /\ writer'.closed = writer.closed
        /\ writer'.pending_items = writer.pending_items
    BY <1>3 DEF WriterInv, IsWriter
  <1> QED
    BY <1>1, <1>4, LocalStep DEF CountItem

LEMMA KeysLess ==
    ASSUME NEW a, NEW b, ToSet(a) \subseteq ToSet(b)
    PROVE  KeysOf(a) \subseteq KeysOf(b)
  BY DEF KeysOf

\* WritePendingData, the chunks.
LEMMA SendChunksStep ==
    ASSUME WriterInv, SendChunks
    PROVE  WriterInv'
  <1>1. PICK s, str, missing, keep, large :
           /\ s = writer.stream /\ str = stream[s]
           /\ missing = Missing(writer.streamed)
           /\ keep = KeysOf(missing) \cup (writer.streamed \cap KeysOf(chunker.chunks_))
           /\ large = {i \in DOMAIN missing : missing[i].key \in LargeChunks}
    OBVIOUS
  <1>2. PICK n : n = IF large = {} THEN 0
                     ELSE CHOOSE i \in large : \A j \in large : i <= j
    OBVIOUS
  <1>3. PICK q, p : /\ q = Request(KeysOf(SubSeq(missing, 1, n)), << >>, {})
                    /\ p = Request(KeysOf(missing), << >>, keep)
    OBVIOUS
  <1>4. /\ client.pc = "chunks"
        /\ \/ /\ n = 0 /\ client' = [client EXCEPT !.pc = "items", !.request = p]
              /\ UNCHANGED <<writer, stream>>
           \/ /\ n # 0 /\ MayWrite /\ stream' = Sent(s, q)
              /\ writer' = [writer EXCEPT !.streamed = @ \cup q.chunks]
              /\ client' = client
           \/ /\ n # 0 /\ client' = [client EXCEPT !.pc = "failed"]
              /\ UNCHANGED <<writer, stream>>
        /\ UNCHANGED <<worker, chunker, table>>
    BY <1>1, <1>2, <1>3 DEF SendChunks
  <1>5. /\ s \in Streams /\ str.open /\ s # 0 /\ IsSeq(chunker.chunks_)
        /\ PendingOf(writer) \subseteq KeysOf(chunker.chunks_)
    BY <1>1, <1>4 DEF WriterInv, Connected, IsWriter, IsBuffers, AreChunks, PendingOk, Busy
  <1>6. /\ IsSeq(missing) /\ ToSet(missing) \subseteq ToSet(chunker.chunks_)
        /\ \A c \in ToSet(chunker.chunks_) : c.key \in PendingChunks =>
              c.key \in KeysOf(missing) \cup writer.streamed
    BY <1>1, <1>5, MissingFacts
  <1>7. PendingOf(writer) \subseteq KeysOf(missing) \cup writer.streamed
    <2>1. ASSUME NEW k \in PendingOf(writer) PROVE k \in KeysOf(missing) \cup writer.streamed
      <3>1. k \in PendingChunks
        BY DEF PendingOf, PendingChunks
      <3>2. PICK c \in ToSet(chunker.chunks_) : k = c.key
        BY <1>5 DEF KeysOf
      <3> QED
        BY <1>6, <3>1, <3>2
    <2> QED
      BY <2>1
  <1>8. KeysOf(missing) \subseteq KeysOf(chunker.chunks_)
    BY <1>6, KeysLess
  <1>9. CASE n = 0 /\ client' = [client EXCEPT !.pc = "items", !.request = p]
             /\ UNCHANGED <<writer, stream>>
    <2>1. IsPlain(p) /\ p.chunks = KeysOf(missing) /\ p.keep = keep
      BY <1>3, PlainFacts
    <2>2. IsClient(client') /\ client'.pc = "items" /\ client'.request = p
          /\ client'.call = client.call
      BY <1>9, <2>1 DEF WriterInv, IsClient, Busy
    <2>3. ServerInv'
      BY <1>4, <1>9, ServerStays DEF WriterInv
    <2>4. Connected(client', writer', worker', stream'[writer'.stream])
      BY <1>1, <1>4, <1>5, <1>9, <2>2 DEF WriterInv, Connected
    <2>5. Sends(client', writer', chunker', stream'[writer'.stream])
      <3>1. ASSUME ~str.writes_done
            PROVE  /\ Has(str, writer.streamed)
                   /\ writer.streamed \subseteq KeysOf(chunker.chunks_)
                   /\ keep = KeysOf(missing) \cup writer.streamed
        BY <1>1, <1>5, <3>1 DEF WriterInv, Sends
      <3> QED
        BY <1>1, <1>4, <1>7, <1>8, <1>9, <2>1, <2>2, <3>1 DEF Sends
    <2>6. PendingOk(client', writer', chunker')
      <3>1. PICK a, b, call, pending, buffers, key :
               /\ a = client.pc /\ b = client'.pc /\ call = client.call
               /\ pending = writer.pending_items /\ buffers = chunker.chunks_
               /\ key = <<1, chunker.next>>
        OBVIOUS
      <3>2. a \in Busy /\ b \in Busy /\ b = "items" /\ a = "chunks"
        BY <1>4, <2>2, <3>1 DEF Busy
      <3>3. Len(pending) = 1 => Len(pending) <= 1
        OBVIOUS
      <3>4. chunker' = chunker /\ writer' = writer /\ client'.call = call
        BY <1>4, <1>9, <2>2, <3>1
      <3>5. PendingOk(client, writer, chunker)
        BY DEF WriterInv
      <3> QED
        BY <3>1, <3>2, <3>3, <3>4, <3>5 DEF PendingOk
    <2> QED
      BY <1>4, <1>9, <2>2, <2>3, <2>4, <2>5, <2>6 DEF WriterInv
  <1>10. CASE n # 0 /\ MayWrite /\ stream' = Sent(s, q) /\ client' = client
              /\ writer' = [writer EXCEPT !.streamed = @ \cup q.chunks]
    <2>1. IsRequest(q) /\ q.items = << >> /\ q.chunks = KeysOf(SubSeq(missing, 1, n))
      BY <1>3, PlainFacts
    <2>2. PICK all : all = writer.streamed \cup q.chunks
      OBVIOUS
    <2>3. /\ ~str.writes_done /\ Has(str, writer.streamed)
          /\ writer.streamed \subseteq KeysOf(chunker.chunks_)
      BY <1>1, <1>5, <1>10 DEF MayWrite, WriterInv, Sends
    <2>4. \A i \in DOMAIN q.items : ChunksOf(q.items[i]) \subseteq writer.streamed \cup q.chunks
      BY <2>1
    <2>5. /\ ServerInv' /\ Has(stream'[s], all) /\ stream'[s].open
          /\ stream'[s].writes_done = str.writes_done
      BY <1>1, <1>4, <1>5, <1>10, <2>1, <2>2, <2>3, <2>4, SentStep DEF WriterInv
    <2>6. n \in 1 .. Len(missing)
      <3>1. large # {} /\ DOMAIN missing = 1 .. Len(missing) /\ Len(missing) \in Nat
        BY <1>2, <1>6, <1>10, IsSeqFacts
      <3>2. large \in SUBSET Nat
        BY <1>1, <3>1
      <3>3. \E i \in large : \A j \in large : i <= j
        BY <3>1, <3>2, LeastExists
      <3>4. n \in large
        BY <1>2, <3>1, <3>3
      <3> QED
        BY <1>1, <3>1, <3>4
    <2>7. q.chunks \subseteq KeysOf(chunker.chunks_)
      <3>1. 1 \in Int /\ 1 <= 1 /\ n \in Int /\ 1 <= n + 1 /\ n <= Len(missing)
        BY <1>6, <2>6, IsSeqFacts
      <3>2. ToSet(SubSeq(missing, 1, n)) \subseteq ToSet(missing)
        BY <1>6, <3>1, SubSeqSeq, ZenonT(30)
      <3> QED
        BY <1>8, <2>1, <3>2, KeysLess
    <2>8. /\ IsWriter(writer') /\ writer'.stream = s /\ writer'.streamed = all
          /\ writer'.pending_items = writer.pending_items
          /\ writer'.closed = writer.closed
      BY <1>1, <1>10, <2>2 DEF WriterInv, IsWriter
    <2>9. PendingOf(writer') = PendingOf(writer)
      BY <2>8 DEF PendingOf
    <2>10. Connected(client', writer', worker', stream'[writer'.stream])
      BY <1>4, <1>5, <1>10, <2>5, <2>8 DEF WriterInv, Connected
    <2>11. Sends(client', writer', chunker', stream'[writer'.stream])
      BY <1>4, <1>10, <2>2, <2>3, <2>5, <2>7, <2>8 DEF Sends
    <2>12. PendingOk(client', writer', chunker')
      BY <1>4, <1>10, <2>8, <2>9 DEF WriterInv, PendingOk
    <2> QED
      BY <1>4, <1>10, <2>5, <2>8, <2>10, <2>11, <2>12 DEF WriterInv
  <1>11. CASE client' = [client EXCEPT !.pc = "failed"] /\ UNCHANGED <<writer, stream>>
    <2>1. /\ IsClient(client') /\ client'.pc = "failed" /\ client'.call = client.call
          /\ client'.request = client.request
      BY <1>11, ClientGoes DEF WriterInv, Busy
    <2> QED
      BY <1>4, <1>11, <2>1, LocalStep DEF WriterInv
  <1> QED
    BY <1>4, <1>9, <1>10, <1>11

\* WritePendingData, one item.
LEMMA SendItemStep ==
    ASSUME WriterInv, SendItem
    PROVE  WriterInv'
  <1>1. PICK s, str, item, rest, one, q :
           /\ s = writer.stream /\ str = stream[s]
           /\ item = Head(writer.pending_items) /\ rest = Tail(writer.pending_items)
           /\ one = <<item>> /\ q = [client.request EXCEPT !.items = one]
    OBVIOUS
  <1>2. /\ client.pc = "items" /\ writer.pending_items # << >>
        /\ \/ /\ MayWrite /\ stream' = Sent(s, q)
              /\ writer' = [writer EXCEPT !.streamed = @ \cup q.chunks,
                                          !.pending_items = rest]
              /\ client' = [client EXCEPT !.pc = "count"]
           \/ /\ client' = [client EXCEPT !.pc = "failed"]
              /\ UNCHANGED <<writer, stream>>
        /\ UNCHANGED <<worker, chunker, table>>
    BY <1>1 DEF SendItem, WriterInv, IsWriter
  <1>3. CASE client' = [client EXCEPT !.pc = "failed"] /\ UNCHANGED <<writer, stream>>
    <2>1. /\ IsClient(client') /\ client'.pc = "failed" /\ client'.call = client.call
          /\ client'.request = client.request
      BY <1>3, ClientGoes DEF WriterInv, Busy
    <2> QED
      BY <1>2, <1>3, <2>1, LocalStep DEF WriterInv
  <1>4. CASE /\ MayWrite /\ stream' = Sent(s, q)
             /\ writer' = [writer EXCEPT !.streamed = @ \cup q.chunks,
                                         !.pending_items = rest]
             /\ client' = [client EXCEPT !.pc = "count"]
    <2>1. s \in Streams /\ str.open /\ s # 0 /\ ~str.writes_done
      BY <1>1, <1>2, <1>4 DEF WriterInv, Connected, IsWriter, MayWrite
    <2>2. /\ Has(str, writer.streamed) /\ writer.streamed \subseteq KeysOf(chunker.chunks_)
          /\ client.request.chunks \subseteq KeysOf(chunker.chunks_)
          /\ client.request.keep = client.request.chunks \cup writer.streamed
          /\ PendingOf(writer) \subseteq client.request.chunks \cup writer.streamed
      BY <1>1, <1>2, <2>1 DEF WriterInv, Sends
    <2>3. /\ IsSeq(rest) /\ item \in ToSet(writer.pending_items)
          /\ ToSet(writer.pending_items) = {item} \cup ToSet(rest)
          /\ Len(rest) = Len(writer.pending_items) - 1
          /\ Len(writer.pending_items) \in Nat /\ Len(rest) \in Nat
      BY <1>1, <1>2, TailSeq, IsSeqFacts DEF WriterInv, IsWriter
    <2>4. item.key \in Nat /\ ChunksOf(item) \subseteq client.request.chunks \cup writer.streamed
      BY <2>2, <2>3 DEF WriterInv, IsWriter, PendingOf
    <2>5. /\ q \in [chunks : {q.chunks}, items : {one}, keep : {q.keep}]
          /\ q.chunks = client.request.chunks /\ q.keep = client.request.keep
          /\ q.items = one
      BY <1>1 DEF WriterInv, IsClient, IsPlain
    <2>6. IsSeq(one) /\ one[1] = item /\ DOMAIN one = {1} /\ one # << >>
      BY <1>1, OneIsSeq, IsSeqFacts
    <2>7. IsRequest(q)
      BY <2>4, <2>5, <2>6 DEF IsRequest
    <2>8. /\ \A i \in DOMAIN q.items : ChunksOf(q.items[i]) \subseteq writer.streamed \cup q.chunks
          /\ q.keep \subseteq writer.streamed \cup q.chunks /\ q.items # << >>
      BY <2>2, <2>4, <2>5, <2>6
    <2>9. /\ ServerInv' /\ Has(stream'[s], q.keep) /\ stream'[s].open
          /\ stream'[s].writes_done = str.writes_done
      BY <1>1, <1>2, <1>4, <2>1, <2>2, <2>7, <2>8, SentStep DEF WriterInv
    <2>10. /\ writer' \in [stream : Streams \cup {0}, pending_items : {rest},
                 streamed : {q.keep},
                 num_items_in_flight : {writer'.num_items_in_flight},
                 closed : BOOLEAN, stop_requested : {writer'.stop_requested}]
           /\ writer'.stream = s /\ writer'.streamed = q.keep
           /\ writer'.pending_items = rest /\ writer'.closed = writer.closed
      <3>1. writer.streamed \cup q.chunks = q.keep
        BY <2>2, <2>5
      <3>2. writer' = [writer EXCEPT !.streamed = q.keep, !.pending_items = rest]
        BY <1>4, <3>1 DEF WriterInv, IsWriter
      <3> QED
        BY <1>1, <3>2 DEF WriterInv, IsWriter
    <2>11. IsWriter(writer')
      BY <2>3, <2>10 DEF WriterInv, IsWriter
    <2>12. PendingOf(writer') \subseteq PendingOf(writer)
      BY <2>3, <2>10 DEF PendingOf
    <2>13. IsClient(client') /\ client'.pc = "count" /\ client'.call = client.call
           /\ client'.request = client.request
      BY <1>4, ClientGoes DEF WriterInv, Busy
    <2>14. Connected(client', writer', worker', stream'[writer'.stream])
      BY <2>1, <2>9, <2>10, <2>13 DEF Connected
    <2>15. Sends(client', writer', chunker', stream'[writer'.stream])
      BY <1>2, <2>1, <2>2, <2>5, <2>9, <2>10, <2>12, <2>13 DEF Sends
    <2>16. PendingOk(client', writer', chunker')
      BY <1>2, <2>3, <2>10, <2>12, <2>13 DEF WriterInv, PendingOk, Busy
    <2> QED
      BY <1>2, <2>9, <2>11, <2>13, <2>14, <2>15, <2>16 DEF WriterInv
  <1> QED
    BY <1>2, <1>3, <1>4

\* A sequence without its last element.
LEMMA FrontSeq ==
    ASSUME NEW s, IsSeq(s), NEW f, f = SubSeq(s, 1, Len(s) - 1)
    PROVE  /\ IsSeq(f) /\ ToSet(f) \subseteq ToSet(s)
           /\ s # << >> => /\ Len(f) = Len(s) - 1
                           /\ ToSet(s) \subseteq ToSet(f) \cup {Last(s)}
                           /\ \A i \in 1 .. Len(s) - 1 : f[i] = s[i]
  <1>1. PICK n, m : n = Len(s) /\ m = n - 1
    OBVIOUS
  <1>2. n \in Nat /\ DOMAIN s = 1 .. n /\ f = SubSeq(s, 1, m) /\ m \in Int
    BY <1>1, IsSeqFacts
  <1>3. CASE s = << >>
    <2>1. n = 0 /\ m = -1
      BY <1>1, <1>3, EmptyIsSeq
    <2>2. f = << >>
      BY <1>2, <1>3, <2>1
    <2> QED
      BY <1>3, <2>2, EmptyIsSeq
  <1>4. CASE s # << >>
    <2>1. n > 0
      BY <1>1, <1>4, IsSeqFacts
    <2>2. 1 <= m + 1 /\ m <= Len(s) /\ m - 1 + 1 = m /\ 1 \in Int /\ 1 <= 1
      BY <1>1, <1>2, <2>1
    <2>3. /\ IsSeq(SubSeq(s, 1, m)) /\ Len(SubSeq(s, 1, m)) = m - 1 + 1
          /\ \A i \in 1 .. m - 1 + 1 : SubSeq(s, 1, m)[i] = s[1 + i - 1]
          /\ ToSet(SubSeq(s, 1, m)) \subseteq ToSet(s)
      BY <1>2, <2>2, SubSeqSeq, ZenonT(30)
    <2>4. /\ IsSeq(f) /\ Len(f) = m /\ ToSet(f) \subseteq ToSet(s)
          /\ \A i \in 1 .. m : f[i] = s[1 + i - 1]
      BY <1>2, <2>2, <2>3
    <2>5. ASSUME NEW x \in ToSet(s) PROVE x \in ToSet(f) \cup {Last(s)}
      <3>1. PICK i \in 1 .. n : x = s[i]
        BY <1>1, IsSeqFacts
      <3>2. CASE i = n
        BY <1>1, <3>1, <3>2 DEF Last
      <3>3. CASE i # n
        <4>1. i \in 1 .. m /\ 1 + i - 1 = i
          BY <1>1, <1>2, <3>1, <3>3
        <4>2. f[i] = x
          BY <2>4, <3>1, <4>1
        <4> QED
          BY <2>4, <4>1, <4>2, IsSeqFacts
      <3> QED
        BY <3>2, <3>3
    <2>6. ASSUME NEW i \in 1 .. m PROVE f[i] = s[i]
      <3>1. 1 + i - 1 = i
        BY <1>2
      <3> QED
        BY <2>4, <3>1
    <2> QED
      BY <1>1, <2>4, <2>5, <2>6
  <1> QED
    BY <1>3, <1>4

LEMMA StopRequestedStep ==
    ASSUME WriterInv, StopRequested
    PROVE  WriterInv'
  <1>1. PICK s : s = writer.stream
    OBVIOUS
  <1>2. /\ client.pc = "failed" /\ stream' = HalfClosed(s)
        /\ writer' = [writer EXCEPT !.stop_requested = TRUE]
        /\ client' = [client EXCEPT !.pc = "stopping"]
        /\ worker' = worker /\ chunker' = chunker /\ table' = table
    BY <1>1 DEF StopRequested
  <1>3. s \in Streams /\ s # 0 /\ stream[s].open
    BY <1>1, <1>2 DEF WriterInv, Connected, IsWriter
  <1>4. ServerInv' /\ stream'[s].open /\ stream'[s].writes_done
    BY <1>2, <1>3, HalfClosedStep DEF WriterInv
  <1>5. /\ IsWriter(writer') /\ writer'.stream = s
        /\ writer'.pending_items = writer.pending_items /\ writer'.closed = writer.closed
    BY <1>1, <1>2 DEF WriterInv, IsWriter
  <1>6. IsClient(client') /\ client'.pc = "stopping" /\ client'.call = client.call
    BY <1>2, ClientGoes DEF WriterInv, Busy
  <1>7. PendingOf(writer') = PendingOf(writer)
    BY <1>5 DEF PendingOf
  <1>8. Connected(client', writer', worker', stream'[writer'.stream])
    BY <1>3, <1>4, <1>5 DEF Connected
  <1>9. Sends(client', writer', chunker', stream'[writer'.stream])
    BY <1>4, <1>5 DEF Sends
  <1>10. PendingOk(client', writer', chunker')
    BY <1>2, <1>5, <1>6, <1>7 DEF WriterInv, PendingOk, Busy
  <1> QED
    BY <1>2, <1>4, <1>5, <1>6, <1>8, <1>9, <1>10 DEF WriterInv

\* The caller of WriteWithRetries takes back what it has done.
LEMMA UndoFacts ==
    ASSUME WriterInv, client.pc = "stopping", NEW wr, IsWriter(wr),
           wr.pending_items = writer.pending_items, wr.closed = writer.closed,
           Undo(wr)
    PROVE  /\ IsClient(client') /\ client'.pc = "idle" /\ IsBuffers(chunker')
           /\ IsWriter(writer') /\ writer'.stream = wr.stream
           /\ PendingOk(client', writer', chunker')
  <1>1. PICK cl, made : /\ cl = Idle
                        /\ made = IF client.call = "create"
                                  THEN SubSeq(cl.made, 1, Len(cl.made) - 1) ELSE cl.made
    OBVIOUS
  <1>2. IsClient(cl) /\ cl.pc = "idle" /\ IsSeq(cl.made)
    BY <1>1, IdleFacts DEF WriterInv, IsClient
  <1>3. client' = [cl EXCEPT !.made = made]
    <2>1. client' = [Idle EXCEPT !.made =
                        IF client.call = "create" THEN SubSeq(@, 1, Len(@) - 1) ELSE @]
      BY DEF Undo
    <2> QED
      BY <1>1, <2>1
  <1>4. IsSeq(made)
    BY <1>1, <1>2, FrontSeq
  <1>5. IsClient(client') /\ client'.pc = "idle"
    BY <1>2, <1>3, <1>4 DEF IsClient
  <1>6. PICK pending, chunks, buffer :
           /\ pending = writer.pending_items /\ chunks = chunker.chunks_
           /\ buffer = chunker.buffer
    OBVIOUS
  <1>7. IsSeq(pending) /\ IsSeq(buffer) /\ IsSeq(chunks) /\ AreChunks(chunks)
        /\ Len(pending) \in Nat /\ Len(buffer) \in Nat
    BY <1>6, IsSeqFacts DEF WriterInv, IsWriter, IsBuffers, AreChunks
  <1>8. PendingOf(writer) \subseteq KeysOf(chunks)
    BY <1>6 DEF WriterInv, PendingOk, Busy
  <1>9. CASE client.call = "create"
    <2>1. PICK front : front = SubSeq(pending, 1, Len(pending) - 1)
      OBVIOUS
    <2>2. writer' = [wr EXCEPT !.pending_items = front] /\ chunker' = chunker
      BY <1>6, <1>9, <2>1 DEF Undo
    <2>3. Len(pending) = 1
      BY <1>6, <1>9 DEF WriterInv, PendingOk, Busy
    <2>4. IsSeq(front) /\ ToSet(front) \subseteq ToSet(pending) /\ Len(front) = 0
      <3>0. Len(pending) > 0
        BY <2>3
      <3>1. pending # << >>
        BY <1>7, <3>0, IsSeqFacts
      <3>2. IsSeq(front) /\ ToSet(front) \subseteq ToSet(pending) /\ Len(front) = Len(pending) - 1
        BY <1>7, <2>1, <3>1, FrontSeq
      <3> QED
        BY <2>3, <3>2
    <2>5. front = << >>
      <3>1. ~(Len(front) > 0)
        BY <2>4
      <3> QED
        BY <2>4, <3>1, IsSeqFacts
    <2>6. /\ writer' \in [stream : Streams \cup {0}, pending_items : {front},
                 streamed : {writer'.streamed},
                 num_items_in_flight : {writer'.num_items_in_flight},
                 closed : BOOLEAN, stop_requested : {writer'.stop_requested}]
          /\ writer'.pending_items = front /\ writer'.stream = wr.stream
      BY <2>2 DEF IsWriter
    <2>7. IsWriter(writer')
      BY <1>6, <2>4, <2>6 DEF IsWriter
    <2>8. PendingOk(client', writer', chunker')
      BY <1>5, <2>5, <2>6 DEF PendingOk, Busy
    <2>9. IsBuffers(chunker')
      BY <2>2 DEF WriterInv
    <2> QED
      BY <1>5, <2>6, <2>7, <2>8, <2>9
  <1>10. CASE client.call # "create"
    <2>1. PICK front, rest :
             /\ front = SubSeq(chunks, 1, Len(chunks) - 1)
             /\ rest = IF client.call = "append" THEN SubSeq(buffer, 1, Len(buffer) - 1)
                       ELSE buffer
      OBVIOUS
    <2>2. writer' = wr /\ chunker' = [chunker EXCEPT !.chunks_ = front, !.buffer = rest]
      BY <1>6, <1>10, <2>1 DEF Undo, WriterInv, IsBuffers
    <2>3. PICK key : key = <<1, chunker.next>>
      OBVIOUS
    <2>4. /\ chunks # << >> /\ Last(chunks).key = key /\ Len(buffer) > 0
          /\ client.call = "append" /\ pending # << >> => Len(buffer) > 1
      BY <1>6, <1>10, <2>3 DEF WriterInv, PendingOk, Busy
    <2>5. IsSeq(front) /\ ToSet(front) \subseteq ToSet(chunks)
          /\ ToSet(chunks) \subseteq ToSet(front) \cup {Last(chunks)}
      BY <1>7, <2>1, <2>4, FrontSeq
    <2>6. AreChunks(front) /\ KeysOf(chunks) \subseteq KeysOf(front) \cup {key}
      BY <1>7, <2>4, <2>5 DEF AreChunks, KeysOf
    <2>7. IsSeq(rest) /\ (pending # << >> => Len(rest) > 0)
      <3>1. CASE client.call = "append"
        <4>1. rest = SubSeq(buffer, 1, Len(buffer) - 1) /\ buffer # << >>
          BY <1>7, <2>1, <2>4, <3>1, IsSeqFacts
        <4>2. IsSeq(rest) /\ Len(rest) = Len(buffer) - 1
          BY <1>7, <4>1, FrontSeq
        <4> QED
          BY <1>7, <2>4, <3>1, <4>2
      <3>2. CASE client.call # "append"
        BY <1>7, <2>1, <2>4, <3>2
      <3> QED
        BY <3>1, <3>2
    <2>8. /\ IsBuffers(chunker') /\ chunker'.chunks_ = front /\ chunker'.buffer = rest
          /\ chunker'.next = chunker.next
      BY <2>2, <2>6, <2>7 DEF WriterInv, IsBuffers
    <2>9. PendingOf(writer') = PendingOf(writer) /\ writer'.pending_items = pending
      BY <1>6, <2>2 DEF PendingOf
    <2>10. PendingOf(writer') \subseteq KeysOf(front) \cup {<<1, chunker'.next>>}
      BY <1>8, <2>3, <2>6, <2>8, <2>9
    <2>11. PendingOk(client', writer', chunker')
      BY <1>5, <2>7, <2>8, <2>9, <2>10 DEF PendingOk, Busy
    <2> QED
      BY <1>5, <2>2, <2>8, <2>11
  <1> QED
    BY <1>9, <1>10

LEMMA DataLostStep ==
    ASSUME WriterInv, DataLost
    PROVE  WriterInv'
  <1>1. PICK s, wr : s = writer.stream /\ wr = Stopped(writer)
    OBVIOUS
  <1>2. /\ client.pc = "stopping" /\ worker' = "none" /\ Undo(wr)
        /\ stream' = stream /\ table' = table
    BY <1>1 DEF DataLost
  <1>3. /\ IsWriter(wr) /\ wr.pending_items = writer.pending_items
        /\ wr.closed = writer.closed /\ wr.stream = s
    BY <1>1 DEF Stopped, WriterInv, IsWriter
  <1>4. /\ IsClient(client') /\ client'.pc = "idle" /\ IsBuffers(chunker')
        /\ IsWriter(writer') /\ writer'.stream = s
        /\ PendingOk(client', writer', chunker')
    BY <1>2, <1>3, UndoFacts
  <1>5. stream[s].open /\ stream[s].writes_done
    BY <1>1, <1>2 DEF WriterInv, Connected
  <1>6. Connected(client', writer', worker', stream'[writer'.stream])
    BY <1>2, <1>4, <1>5 DEF Connected
  <1>7. Sends(client', writer', chunker', stream'[writer'.stream])
    BY <1>2, <1>4, <1>5 DEF Sends
  <1>8. ServerInv'
    BY <1>2, ServerStays DEF WriterInv
  <1> QED
    BY <1>4, <1>6, <1>7, <1>8 DEF WriterInv

\* A writer without a stream.
LEMMA NoStreamStep ==
    ASSUME WriterInv, ServerInv', IsWriter(writer'), writer'.stream = 0,
           worker' = "none", IsClient(client'), IsBuffers(chunker'),
           client'.pc \in {"idle", "open"},
           PendingOk(client', writer', chunker')
    PROVE  WriterInv'
  <1>1. Connected(client', writer', worker', stream'[writer'.stream])
    BY DEF Connected
  <1>2. Sends(client', writer', chunker', stream'[writer'.stream])
    BY DEF Sends
  <1> QED
    BY <1>1, <1>2 DEF WriterInv

LEMMA StreamFailsStep ==
    ASSUME WriterInv, StreamFails
    PROVE  WriterInv'
  <1>1. PICK wr : wr = Reset0(writer)
    OBVIOUS
  <1>2. /\ client.pc = "stopping" /\ worker' = "none"
        /\ \/ /\ client' = [client EXCEPT !.pc = "open"]
              /\ writer' = wr /\ chunker' = chunker
           \/ /\ client' = Idle /\ chunker' = [chunker EXCEPT !.chunks_ = << >>]
              /\ writer' = [wr EXCEPT !.closed = TRUE]
           \/ Undo(wr)
        /\ stream' = stream /\ table' = table
    BY <1>1 DEF StreamFails
  <1>3. /\ IsWriter(wr) /\ wr.pending_items = writer.pending_items
        /\ wr.closed = writer.closed /\ wr.stream = 0
    <2>1. PICK st : st = Stopped(writer)
      OBVIOUS
    <2>2. IsWriter(st) /\ st.pending_items = writer.pending_items
          /\ st.closed = writer.closed
      BY <2>1 DEF Stopped, WriterInv, IsWriter
    <2>3. wr = [st EXCEPT !.stream = 0, !.num_items_in_flight = 0]
      BY <1>1, <2>1 DEF Reset0
    <2> QED
      BY <2>2, <2>3 DEF IsWriter
  <1>4. ServerInv'
    BY <1>2, ServerStays DEF WriterInv
  <1>5. CASE client' = [client EXCEPT !.pc = "open"] /\ writer' = wr /\ chunker' = chunker
    <2>1. IsClient(client') /\ client'.pc = "open" /\ client'.call = client.call
      BY <1>5, ClientGoes DEF WriterInv, Busy
    <2>2. PendingOf(writer') = PendingOf(writer)
      BY <1>3, <1>5 DEF PendingOf
    <2>3. PendingOk(client', writer', chunker')
      BY <1>2, <1>3, <1>5, <2>1, <2>2 DEF WriterInv, PendingOk, Busy
    <2> QED
      BY <1>2, <1>3, <1>4, <1>5, <2>1, <2>3, NoStreamStep DEF WriterInv
  <1>6. CASE client' = Idle /\ chunker' = [chunker EXCEPT !.chunks_ = << >>]
             /\ writer' = [wr EXCEPT !.closed = TRUE]
    <2>1. IsClient(client') /\ client'.pc = "idle"
      BY <1>6, IdleFacts DEF WriterInv
    <2>2. IsWriter(writer') /\ writer'.closed /\ writer'.stream = 0
      BY <1>3, <1>6 DEF IsWriter
    <2>3. IsBuffers(chunker')
      <3>1. PICK empty : empty = << >>
        OBVIOUS
      <3>2. AreChunks(empty)
        BY <3>1, EmptyIsSeq DEF AreChunks
      <3> QED
        BY <1>6, <3>1, <3>2 DEF WriterInv, IsBuffers
    <2>4. PendingOk(client', writer', chunker')
      BY <2>1, <2>2 DEF PendingOk, Busy
    <2> QED
      BY <1>2, <1>4, <2>1, <2>2, <2>3, <2>4, NoStreamStep
  <1>7. CASE Undo(wr)
    <2>1. /\ IsClient(client') /\ client'.pc = "idle" /\ IsBuffers(chunker')
          /\ IsWriter(writer') /\ writer'.stream = 0
          /\ PendingOk(client', writer', chunker')
      BY <1>2, <1>3, <1>7, UndoFacts
    <2> QED
      BY <1>2, <1>4, <2>1, NoStreamStep
  <1> QED
    BY <1>2, <1>5, <1>6, <1>7

LEMMA WrittenStep ==
    ASSUME ConstantsOk, WriterInv, Written
    PROVE  WriterInv'
  <1>1. PICK s, str, kept, empty : /\ s = writer.stream /\ str = stream[s]
                                   /\ kept = KeptChunks(chunker.chunks_)
                                   /\ empty = << >>
    OBVIOUS
  <1>2. /\ client.pc = "items" /\ writer.pending_items = empty
        /\ worker' = worker /\ stream' = stream /\ table' = table
    BY <1>1 DEF Written
  <1>3. /\ IsClient(client') /\ client'.pc \in {"idle", "close"}
    <2>1. CASE client.call = "close"
      <3>1. client' = [client EXCEPT !.pc = "close"]
        BY <2>1 DEF Written
      <3> QED
        BY <3>1, ClientGoes DEF WriterInv
    <2>2. CASE client.call # "close"
      <3>1. client' = Idle
        BY <2>2 DEF Written
      <3> QED
        BY <3>1, IdleFacts DEF WriterInv
    <2> QED
      BY <2>1, <2>2
  <1>4. s # 0 /\ str.open /\ ServerInv'
    BY <1>1, <1>2, ServerStays DEF WriterInv, Connected
  <1>5. ASSUME ~str.writes_done
        PROVE  Has(str, writer.streamed) /\ writer.streamed \subseteq KeysOf(chunker.chunks_)
    BY <1>1, <1>4, <1>5 DEF WriterInv, Sends
  <1>6. /\ IsWriter(writer') /\ IsBuffers(chunker') /\ writer'.stream = s
        /\ writer'.pending_items = empty
        /\ ~str.writes_done => /\ Has(str, writer'.streamed)
                               /\ writer'.streamed \subseteq KeysOf(chunker'.chunks_)
    <2>1. CASE client.call = "create"
      <3>1. writer' = writer /\ chunker' = chunker
        BY <2>1 DEF Written
      <3> QED
        BY <1>1, <1>2, <1>5, <3>1 DEF WriterInv
    <2>2. CASE client.call # "create"
      <3>1. PICK next, gone : /\ next = chunker.next + 1
                              /\ gone = writer.streamed \ (KeysOf(chunker.chunks_) \ KeysOf(kept))
        OBVIOUS
      <3>2. /\ chunker' = [chunker EXCEPT !.buffer = empty, !.next = next, !.chunks_ = kept]
            /\ writer' = [writer EXCEPT !.streamed = gone]
        BY <1>1, <2>2, <3>1 DEF Written
      <3>3. IsSeq(kept) /\ ToSet(kept) \subseteq ToSet(chunker.chunks_) /\ AreChunks(chunker.chunks_)
        BY <1>1, KeptFacts DEF WriterInv, IsBuffers, AreChunks
      <3>4. AreChunks(kept) /\ IsSeq(empty)
        BY <1>1, <3>3, EmptyIsSeq DEF AreChunks
      <3>5. IsBuffers(chunker') /\ chunker'.chunks_ = kept
        BY <3>2, <3>4 DEF WriterInv, IsBuffers
      <3>6. /\ IsWriter(writer') /\ writer'.streamed = gone /\ writer'.stream = s
            /\ writer'.pending_items = empty
        BY <1>1, <1>2, <3>2 DEF WriterInv, IsWriter
      <3>7. gone \subseteq writer.streamed
            /\ (~str.writes_done => gone \subseteq KeysOf(kept))
        BY <1>5, <3>1
      <3>8. ~str.writes_done => Has(str, gone)
        BY <1>5, <3>7, HasLess
      <3> QED
        BY <3>5, <3>6, <3>7, <3>8
    <2> QED
      BY <2>1, <2>2
  <1>7. Connected(client', writer', worker', stream'[writer'.stream])
    BY <1>1, <1>2, <1>3, <1>4, <1>6 DEF Connected
  <1>8. Sends(client', writer', chunker', stream'[writer'.stream])
    BY <1>1, <1>2, <1>3, <1>6 DEF Sends
  <1>9. PendingOk(client', writer', chunker')
    BY <1>1, <1>3, <1>6 DEF PendingOk, Busy
  <1> QED
    BY <1>3, <1>4, <1>6, <1>7, <1>8, <1>9 DEF WriterInv

LEMMA MakeChunkFacts ==
    ASSUME NEW c, IsBuffers(c), c.next = chunker.next, NEW d, d = MakeChunk(c)
    PROVE  /\ IsBuffers(d) /\ d.buffer = c.buffer /\ d.next = c.next
           /\ d.chunks_ # << >> /\ Last(d.chunks_).key = <<1, c.next>>
           /\ KeysOf(d.chunks_) = KeysOf(c.chunks_) \cup {<<1, c.next>>}
  <1>1. PICK key, x, chunks, after :
           /\ key = <<1, c.next>> /\ x = [key |-> key, rows |-> c.buffer]
           /\ chunks = c.chunks_ /\ after = Append(chunks, x)
    OBVIOUS
  <1>2. NextKey = key
    BY <1>1 DEF NextKey
  <1>3. PICK all : all = [k \in DOMAIN c.chunks \cup {key} |->
                             IF k = key THEN c.buffer ELSE c.chunks[k]]
    OBVIOUS
  <1>4. d = [c EXCEPT !.chunks_ = after, !.chunks = all]
    BY <1>1, <1>2, <1>3 DEF MakeChunk, IsBuffers
  <1>5. IsSeq(c.buffer) /\ AreChunks(chunks) /\ IsSeq(chunks) /\ Len(chunks) \in Nat
    BY <1>1, IsSeqFacts DEF IsBuffers, AreChunks
  <1>6. x.key = key /\ x.rows = c.buffer
    BY <1>1
  <1>7. /\ IsSeq(after) /\ Len(after) = Len(chunks) + 1
        /\ ToSet(after) = ToSet(chunks) \cup {x} /\ after[Len(chunks) + 1] = x
    BY <1>1, <1>5, AppendSeq
  <1>8. AreChunks(after) /\ KeysOf(after) = KeysOf(chunks) \cup {key}
    BY <1>5, <1>6, <1>7 DEF AreChunks, KeysOf
  <1>9. Len(after) > 0
    BY <1>5, <1>7
  <1>10. after # << >> /\ Last(after) = x
    BY <1>7, <1>9, IsSeqFacts DEF Last
  <1>11. /\ d.chunks_ = after /\ d.buffer = c.buffer /\ d.next = c.next
         /\ d \in [buffer : {d.buffer}, chunks_ : {d.chunks_}, next : {d.next},
                   chunks : {d.chunks}]
    BY <1>4 DEF IsBuffers
  <1>12. IsBuffers(d)
    BY <1>5, <1>8, <1>11 DEF IsBuffers
  <1> QED
    BY <1>1, <1>6, <1>8, <1>10, <1>11, <1>12

\* A call that makes a chunk begins to write.
LEMMA CallStarts ==
    ASSUME WriterInv, client.pc = "idle", ~writer.closed,
           UNCHANGED <<writer, worker, stream, table>>,
           NEW c, IsBuffers(c), c.next = chunker.next, c.chunks_ = chunker.chunks_,
           Len(c.buffer) > 0, chunker' = MakeChunk(c),
           IsClient(client'), client'.pc = "open",
           client'.call \in {"append", "flush", "close"},
           client'.call = "append" /\ writer.pending_items # << >> => Len(c.buffer) > 1
    PROVE  WriterInv'
  <1>1. PICK key : key = <<1, c.next>>
    OBVIOUS
  <1>2. /\ IsBuffers(chunker') /\ chunker'.buffer = c.buffer /\ chunker'.next = c.next
        /\ chunker'.chunks_ # << >> /\ Last(chunker'.chunks_).key = key
        /\ KeysOf(chunker'.chunks_) = KeysOf(c.chunks_) \cup {key}
    BY <1>1, MakeChunkFacts
  <1>3. PendingOf(writer) \subseteq KeysOf(chunker'.chunks_)
    <2>1. CASE writer.pending_items = << >>
      BY <2>1, EmptyIsSeq DEF PendingOf
    <2>2. CASE writer.pending_items # << >>
      BY <1>1, <1>2, <2>2 DEF WriterInv, PendingOk
    <2> QED
      BY <2>1, <2>2
  <1>4. PendingOk(client', writer', chunker')
    BY <1>1, <1>2, <1>3 DEF PendingOk, Busy
  <1>5. ServerInv'
    BY ServerStays DEF WriterInv
  <1>6. Connected(client', writer', worker', stream'[writer'.stream])
    BY DEF WriterInv, Connected
  <1>7. Sends(client', writer', chunker', stream'[writer'.stream])
    BY <1>2 DEF WriterInv, Sends
  <1> QED
    BY <1>2, <1>4, <1>5, <1>6, <1>7 DEF WriterInv

\* A step of a call that does not write.
LEMMA WaitStep ==
    ASSUME WriterInv, UNCHANGED <<writer, worker, chunker, stream, table>>,
           IsClient(client'),
           \/ client.pc = "idle" /\ client'.pc = "confirm" /\ writer.pending_items = << >>
           \/ client.pc = "idle" /\ client'.pc = "close"
           \/ client.pc = "confirm" /\ client'.pc = "idle"
    PROVE  WriterInv'
  <1>1. ServerInv'
    BY ServerStays DEF WriterInv
  <1>2. Connected(client', writer', worker', stream'[writer'.stream])
    BY DEF WriterInv, Connected
  <1>3. Sends(client', writer', chunker', stream'[writer'.stream])
    BY DEF WriterInv, Sends
  <1>4. PendingOk(client', writer', chunker')
    BY DEF WriterInv, PendingOk, Busy
  <1> QED
    BY <1>1, <1>2, <1>3, <1>4 DEF WriterInv

LEMMA AppendRowStep ==
    ASSUME WriterInv, AppendRow
    PROVE  WriterInv'
  <1>1. PICK row, buffer, n : /\ row = <<1, client.appended>>
                              /\ buffer = Append(chunker.buffer, row)
                              /\ n = client.appended + 1
    OBVIOUS
  <1>2. PICK c, cl : /\ c = [chunker EXCEPT !.buffer = buffer]
                     /\ cl = [client EXCEPT !.appended = n]
    OBVIOUS
  <1>3. /\ client.pc = "idle" /\ ~writer.closed
        /\ IF Len(c.buffer) < ChunkLength THEN chunker' = c /\ client' = cl
           ELSE /\ chunker' = MakeChunk(c)
                /\ client' = [cl EXCEPT !.pc = "open", !.call = "append"]
        /\ UNCHANGED <<writer, worker, stream, table>>
    BY <1>1, <1>2 DEF AppendRow
  <1>4. IsSeq(chunker.buffer) /\ Len(chunker.buffer) \in Nat
    BY IsSeqFacts DEF WriterInv, IsBuffers
  <1>5. IsSeq(buffer) /\ Len(buffer) = Len(chunker.buffer) + 1
    BY <1>1, <1>4, AppendSeq
  <1>6. /\ IsBuffers(c) /\ c.buffer = buffer /\ c.next = chunker.next
        /\ c.chunks_ = chunker.chunks_
    BY <1>2, <1>5 DEF WriterInv, IsBuffers
  <1>7. IsClient(cl) /\ cl.pc = "idle"
    BY <1>2, <1>3 DEF WriterInv, IsClient
  <1>8. CASE Len(c.buffer) < ChunkLength
    <2>1. chunker' = c /\ client' = cl
      BY <1>3, <1>8
    <2>2. ServerInv'
      BY <1>3, ServerStays DEF WriterInv
    <2>3. Connected(client', writer', worker', stream'[writer'.stream])
      BY <1>3, <1>7, <2>1 DEF WriterInv, Connected
    <2>4. Sends(client', writer', chunker', stream'[writer'.stream])
      BY <1>3, <1>6, <1>7, <2>1 DEF WriterInv, Sends
    <2>5. Len(buffer) > 0
      BY <1>4, <1>5
    <2>6. PendingOk(client', writer', chunker')
      BY <1>3, <1>6, <1>7, <2>1, <2>5 DEF WriterInv, PendingOk, Busy
    <2> QED
      BY <1>3, <1>6, <1>7, <2>1, <2>2, <2>3, <2>4, <2>6 DEF WriterInv
  <1>9. CASE ~(Len(c.buffer) < ChunkLength)
    <2>1. chunker' = MakeChunk(c) /\ client' = [cl EXCEPT !.pc = "open", !.call = "append"]
      BY <1>3, <1>9
    <2>2. IsClient(client') /\ client'.pc = "open" /\ client'.call = "append"
      BY <1>7, <2>1 DEF IsClient, Busy
    <2>3. writer.pending_items # << >> => Len(chunker.buffer) > 0
      BY <1>3 DEF WriterInv, PendingOk
    <2>4. Len(c.buffer) > 0 /\ (writer.pending_items # << >> => Len(c.buffer) > 1)
      BY <1>4, <1>5, <1>6, <2>3
    <2> QED
      BY <1>3, <1>6, <2>1, <2>2, <2>4, CallStarts
  <1> QED
    BY <1>8, <1>9

\* Flush and Close.
LEMMA FlushStep ==
    ASSUME WriterInv, Flush \/ \E retry \in BOOLEAN : Close(retry)
    PROVE  WriterInv'
  <1>1. client.pc = "idle" /\ ~writer.closed /\ UNCHANGED <<writer, worker, stream, table>>
    BY DEF Flush, Close
  <1>2. CASE writer.pending_items # << >>
    <2>1. chunker' = MakeChunk(chunker)
      BY <1>2 DEF Flush, Close
    <2>2. IsClient(client') /\ client'.pc = "open" /\ client'.call \in {"flush", "close"}
      BY <1>2 DEF Flush, Close, WriterInv, IsClient, Busy
    <2>3. Len(chunker.buffer) > 0 /\ IsBuffers(chunker)
      BY <1>1, <1>2 DEF WriterInv, PendingOk
    <2> QED
      BY <1>1, <2>1, <2>2, <2>3, CallStarts
  <1>3. CASE writer.pending_items = << >>
    <2>1. chunker' = chunker
      BY <1>3 DEF Flush, Close
    <2>2. IsClient(client') /\ client'.pc \in {"confirm", "close"}
      BY <1>3 DEF Flush, Close, WriterInv, IsClient
    <2> QED
      BY <1>1, <1>3, <2>1, <2>2, WaitStep
  <1> QED
    BY <1>2, <1>3

LEMMA FlushConfirmedStep ==
    ASSUME WriterInv, FlushConfirmed
    PROVE  WriterInv'
  <1>1. IsClient(client') /\ client'.pc = "idle"
    BY IdleFacts DEF WriterInv, FlushConfirmed
  <1> QED
    BY <1>1, WaitStep DEF FlushConfirmed

LEMMA AllChunksFacts ==
    ASSUME IsBuffers(chunker)
    PROVE  /\ AreChunks(AllChunks)
           /\ KeysOf(AllChunks) \subseteq KeysOf(chunker.chunks_) \cup {<<1, chunker.next>>}
           /\ chunker.buffer = << >> => KeysOf(AllChunks) \subseteq KeysOf(chunker.chunks_)
  <1>1. PICK chunks, buffer, key, x : /\ chunks = chunker.chunks_ /\ buffer = chunker.buffer
                                      /\ key = <<1, chunker.next>>
                                      /\ x = [key |-> key, rows |-> buffer]
    OBVIOUS
  <1>2. PICK rest : rest = IF buffer = << >> THEN << >> ELSE <<x>>
    OBVIOUS
  <1>3. AllChunks = chunks \o rest
    BY <1>1, <1>2 DEF AllChunks, NextKey
  <1>4. /\ IsSeq(rest) /\ ToSet(rest) \subseteq {x}
        /\ buffer = << >> => ToSet(rest) = {}
    BY <1>2, OneIsSeq, EmptyIsSeq
  <1>5. IsSeq(chunks) /\ AreChunks(chunks) /\ IsSeq(buffer)
    BY <1>1 DEF IsBuffers, AreChunks
  <1>6. IsSeq(chunks \o rest) /\ ToSet(chunks \o rest) = ToSet(chunks) \cup ToSet(rest)
    BY <1>4, <1>5, ConcatSeq
  <1>7. x.key = key /\ x.rows = buffer
    BY <1>1
  <1> QED
    BY <1>1, <1>3, <1>4, <1>5, <1>6, <1>7 DEF AreChunks, KeysOf

LEMMA NewItemFacts ==
    ASSUME WriterInv, NEW t, NEW n \in Int, NEW item, item = NewItem(t, n)
    PROVE  /\ item.key \in Nat
           /\ ChunksOf(item) \subseteq KeysOf(chunker.chunks_) \cup {<<1, chunker.next>>}
           /\ chunker.buffer = << >> => ChunksOf(item) \subseteq KeysOf(chunker.chunks_)
  <1>1. PICK back, slices, key :
           /\ back = ChunksBackTo(n)
           /\ slices = FlatTimestepTrajectory(back.chunks, back.offset, n)
           /\ key = Len(client.made) + 1
    OBVIOUS
  <1>2. PICK cells : item = [key |-> key, table |-> t, cells |-> cells, slices |-> slices]
    BY <1>1 DEF NewItem
  <1>3. IsBuffers(chunker) /\ Len(client.made) \in Nat
    BY IsSeqFacts DEF WriterInv, IsClient
  <1>4. /\ AreChunks(AllChunks)
        /\ KeysOf(AllChunks) \subseteq KeysOf(chunker.chunks_) \cup {<<1, chunker.next>>}
        /\ chunker.buffer = << >> => KeysOf(AllChunks) \subseteq KeysOf(chunker.chunks_)
    BY <1>3, AllChunksFacts
  <1>5. /\ AreChunks(back.chunks) /\ back.offset \in Int
        /\ ToSet(back.chunks) \subseteq ToSet(AllChunks)
    BY <1>1, <1>4, BackFacts
  <1>6. IsSeq(slices) /\ \A i \in DOMAIN slices : slices[i].chunk \in KeysOf(back.chunks)
    BY <1>1, <1>5, FlatFacts
  <1>7. KeysOf(back.chunks) \subseteq KeysOf(AllChunks)
    BY <1>5, KeysLess
  <1>8. item.key = key /\ item.slices = slices
    BY <1>2
  <1>9. ChunksOf(item) \subseteq KeysOf(AllChunks)
    BY <1>6, <1>7, <1>8 DEF ChunksOf
  <1>10. key \in Nat
    BY <1>1, <1>3
  <1> QED
    BY <1>4, <1>8, <1>9, <1>10

LEMMA CreateItemStep ==
    ASSUME WriterInv, NEW t, NEW n \in Int, CreateItem(t, n)
    PROVE  WriterInv'
  <1>1. PICK item, pending, made : /\ item = NewItem(t, n)
                                   /\ pending = Append(writer.pending_items, item)
                                   /\ made = Append(client.made, item)
    OBVIOUS
  <1>2. /\ client.pc = "idle" /\ ~writer.closed
        /\ writer' = [writer EXCEPT !.pending_items = pending]
        /\ client' = IF chunker.buffer = << >>
                     THEN [client EXCEPT !.pc = "open", !.call = "create", !.made = made]
                     ELSE [client EXCEPT !.made = made]
        /\ worker' = worker /\ chunker' = chunker /\ stream' = stream /\ table' = table
    BY <1>1 DEF CreateItem
  <1>3. /\ item.key \in Nat
        /\ ChunksOf(item) \subseteq KeysOf(chunker.chunks_) \cup {<<1, chunker.next>>}
        /\ chunker.buffer = << >> => ChunksOf(item) \subseteq KeysOf(chunker.chunks_)
    BY <1>1, NewItemFacts
  <1>4. IsSeq(made) /\ IsSeq(pending)
        /\ ToSet(pending) = ToSet(writer.pending_items) \cup {item}
        /\ Len(pending) = Len(writer.pending_items) + 1
    BY <1>1, AppendSeq DEF WriterInv, IsClient, IsWriter
  <1>5. /\ IsWriter(writer') /\ writer'.pending_items = pending
        /\ writer'.closed = writer.closed /\ writer'.stream = writer.stream
        /\ writer'.streamed = writer.streamed
    BY <1>2, <1>3, <1>4 DEF WriterInv, IsWriter
  <1>6. PendingOf(writer') = PendingOf(writer) \cup ChunksOf(item)
    BY <1>4, <1>5 DEF PendingOf
  <1>7. ServerInv'
    BY <1>2, ServerStays DEF WriterInv
  <1>8. CASE chunker.buffer = << >>
    <2>1. client' = [client EXCEPT !.pc = "open", !.call = "create", !.made = made]
      BY <1>2, <1>8
    <2>2. IsClient(client') /\ client'.pc = "open" /\ client'.call = "create"
      BY <1>4, <2>1 DEF WriterInv, IsClient, Busy
    <2>3. writer.pending_items = << >>
      <3>1. ~(Len(chunker.buffer) > 0)
        BY <1>8, EmptyIsSeq
      <3> QED
        BY <1>2, <3>1 DEF WriterInv, PendingOk
    <2>4. Len(pending) = 1 /\ PendingOf(writer) = {}
      BY <1>4, <2>3, EmptyIsSeq DEF PendingOf
    <2>5. PendingOk(client', writer', chunker')
      BY <1>2, <1>3, <1>5, <1>6, <1>8, <2>2, <2>4 DEF PendingOk, Busy
    <2>6. Connected(client', writer', worker', stream'[writer'.stream])
      BY <1>2, <1>5, <2>2 DEF WriterInv, Connected
    <2>7. Sends(client', writer', chunker', stream'[writer'.stream])
      BY <1>2, <1>5, <2>2 DEF WriterInv, Sends
    <2> QED
      BY <1>2, <1>5, <1>7, <2>2, <2>5, <2>6, <2>7 DEF WriterInv
  <1>9. CASE chunker.buffer # << >>
    <2>1. client' = [client EXCEPT !.made = made]
      BY <1>2, <1>9
    <2>2. IsClient(client') /\ client'.pc = "idle"
      BY <1>2, <1>4, <2>1 DEF WriterInv, IsClient
    <2>3. Len(chunker.buffer) > 0
      BY <1>9, IsSeqFacts DEF WriterInv, IsBuffers
    <2>4. PendingOf(writer) \subseteq KeysOf(chunker.chunks_) \cup {<<1, chunker.next>>}
      <3>1. CASE writer.pending_items = << >>
        BY <3>1, EmptyIsSeq DEF PendingOf
      <3>2. CASE writer.pending_items # << >>
        BY <1>2, <3>2 DEF WriterInv, PendingOk
      <3> QED
        BY <3>1, <3>2
    <2>5. PendingOk(client', writer', chunker')
      BY <1>2, <1>3, <1>5, <1>6, <2>2, <2>3, <2>4 DEF PendingOk, Busy
    <2>6. Connected(client', writer', worker', stream'[writer'.stream])
      BY <1>2, <1>5, <2>2 DEF WriterInv, Connected
    <2>7. Sends(client', writer', chunker', stream'[writer'.stream])
      BY <1>2, <1>5, <2>2 DEF WriterInv, Sends
    <2> QED
      BY <1>2, <1>5, <1>7, <2>2, <2>5, <2>6, <2>7 DEF WriterInv
  <1> QED
    BY <1>8, <1>9

LEMMA ClosedFacts ==
    ASSUME WriterInv, NEW wr, IsWriter(wr), Closed(wr)
    PROVE  /\ IsWriter(writer') /\ writer'.stream = wr.stream /\ writer'.closed
           /\ IsClient(client') /\ client'.pc = "idle" /\ IsBuffers(chunker')
           /\ PendingOk(client', writer', chunker')
  <1>1. PICK empty : empty = << >>
    OBVIOUS
  <1>2. /\ writer' = [wr EXCEPT !.closed = TRUE] /\ client' = Idle
        /\ chunker' = [chunker EXCEPT !.chunks_ = empty]
    BY <1>1 DEF Closed
  <1>3. IsClient(client') /\ client'.pc = "idle"
    BY <1>2, IdleFacts DEF WriterInv
  <1>4. IsWriter(writer') /\ writer'.stream = wr.stream /\ writer'.closed
    BY <1>2 DEF IsWriter
  <1>5. AreChunks(empty)
    BY <1>1, EmptyIsSeq DEF AreChunks
  <1>6. IsBuffers(chunker')
    BY <1>2, <1>5 DEF WriterInv, IsBuffers
  <1>7. PendingOk(client', writer', chunker')
    BY <1>3, <1>4 DEF PendingOk, Busy
  <1> QED
    BY <1>3, <1>4, <1>6, <1>7

LEMMA CloseStreamStep ==
    ASSUME WriterInv, CloseStream
    PROVE  WriterInv'
  <1>1. PICK s : s = writer.stream
    OBVIOUS
  <1>2. client.pc = "close" /\ worker' = worker /\ table' = table
    BY DEF CloseStream
  <1>3. CASE s = 0
    <2>1. Closed(writer) /\ stream' = stream
      BY <1>1, <1>3 DEF CloseStream
    <2>2. worker' = "none"
      BY <1>1, <1>2, <1>3 DEF WriterInv, Connected
    <2>3. ServerInv'
      BY <1>2, <2>1, ServerStays DEF WriterInv
    <2>4. /\ IsWriter(writer') /\ writer'.stream = 0
          /\ IsClient(client') /\ client'.pc = "idle" /\ IsBuffers(chunker')
          /\ PendingOk(client', writer', chunker')
      BY <1>1, <1>3, <2>1, ClosedFacts DEF WriterInv
    <2> QED
      BY <2>2, <2>3, <2>4, NoStreamStep
  <1>4. CASE s # 0
    <2>1. /\ stream' = HalfClosed(s) /\ client' = [client EXCEPT !.pc = "close_confirm"]
          /\ writer' = writer /\ chunker' = chunker
      BY <1>1, <1>4 DEF CloseStream
    <2>2. s \in Streams /\ stream[s].open
      BY <1>1, <1>4 DEF WriterInv, Connected, IsWriter
    <2>3. ServerInv' /\ stream'[s].open /\ stream'[s].writes_done
      BY <1>2, <2>1, <2>2, HalfClosedStep DEF WriterInv
    <2>4. IsClient(client') /\ client'.pc = "close_confirm"
      BY <2>1, ClientGoes DEF WriterInv
    <2>5. Connected(client', writer', worker', stream'[writer'.stream])
      BY <1>1, <1>4, <2>1, <2>3, <2>4 DEF Connected
    <2>6. Sends(client', writer', chunker', stream'[writer'.stream])
      BY <1>1, <2>1, <2>3 DEF Sends
    <2>7. PendingOk(client', writer', chunker')
      BY <2>4 DEF PendingOk, Busy
    <2> QED
      BY <2>1, <2>3, <2>4, <2>5, <2>6, <2>7 DEF WriterInv
  <1> QED
    BY <1>3, <1>4

LEMMA CloseConfirmedStep ==
    ASSUME WriterInv, CloseConfirmed
    PROVE  WriterInv'
  <1>1. /\ IsClient(client') /\ client'.pc = "close_stop" /\ client'.call = client.call
        /\ client'.request = client.request
    BY ClientGoes DEF WriterInv, CloseConfirmed
  <1>2. /\ IsWriter(writer') /\ writer'.stream = writer.stream
        /\ writer'.streamed = writer.streamed /\ writer'.closed = writer.closed
        /\ writer'.pending_items = writer.pending_items
    BY DEF CloseConfirmed, WriterInv, IsWriter
  <1> QED
    BY <1>1, <1>2, LocalStep DEF CloseConfirmed

LEMMA CloseFinishesStep ==
    ASSUME WriterInv, CloseFinishes
    PROVE  WriterInv'
  <1>1. PICK st, wr : st = Stopped(writer) /\ wr = [st EXCEPT !.stream = 0]
    OBVIOUS
  <1>2. worker' = "none" /\ Closed(wr) /\ stream' = stream /\ table' = table
    BY <1>1 DEF CloseFinishes
  <1>3. IsWriter(st)
    BY <1>1 DEF Stopped, WriterInv, IsWriter
  <1>4. IsWriter(wr) /\ wr.stream = 0
    BY <1>1, <1>3 DEF IsWriter
  <1>5. ServerInv'
    BY <1>2, ServerStays DEF WriterInv
  <1>6. /\ IsWriter(writer') /\ writer'.stream = 0
        /\ IsClient(client') /\ client'.pc = "idle" /\ IsBuffers(chunker')
        /\ PendingOk(client', writer', chunker')
    BY <1>2, <1>4, ClosedFacts
  <1> QED
    BY <1>2, <1>5, <1>6, NoStreamStep

-----------------------------------------------------------------------------
(* The invariant holds. *)

LEMMA WriterInit ==
    ASSUME Init
    PROVE  WriterInv
  <1>1. ServerInv
    BY ServerInvInit DEF Init
  <1>2. PICK empty, q : empty = << >> /\ q = Request({}, << >>, {})
    OBVIOUS
  <1>3. IsSeq(empty) /\ ToSet(empty) = {} /\ AreChunks(empty) /\ IsPlain(q)
    BY <1>2, EmptyIsSeq, PlainFacts DEF AreChunks
  <1>4. writer = [stream |-> 0, pending_items |-> empty, streamed |-> {},
                  num_items_in_flight |-> 0, closed |-> FALSE, stop_requested |-> FALSE]
    BY <1>2 DEF Init
  <1>5. IsWriter(writer) /\ writer.stream = 0 /\ writer.pending_items = empty
    BY <1>3, <1>4 DEF IsWriter
  <1>6. client = [pc |-> "idle", call |-> None, retry |-> TRUE, request |-> q,
                  appended |-> 0, made |-> empty]
    BY <1>2 DEF Init
  <1>7. IsClient(client) /\ client.pc = "idle"
    BY <1>3, <1>6 DEF IsClient
  <1>8. chunker = [buffer |-> empty, chunks_ |-> empty, next |-> 1, chunks |-> empty]
    BY <1>2 DEF Init
  <1>9. IsBuffers(chunker)
    BY <1>3, <1>8 DEF IsBuffers
  <1>10. worker = "none"
    BY DEF Init
  <1>11. Connected(client, writer, worker, stream[writer.stream])
    BY <1>5, <1>7, <1>10 DEF Connected
  <1>12. Sends(client, writer, chunker, stream[writer.stream])
    BY <1>5 DEF Sends
  <1>13. PendingOk(client, writer, chunker)
    BY <1>2, <1>5, <1>7 DEF PendingOk, Busy
  <1> QED
    BY <1>1, <1>5, <1>7, <1>9, <1>11, <1>12, <1>13 DEF WriterInv

\* Every step of the client, of the worker, of gRPC and of the servers keeps
\* the invariant.
LEMMA WriterStep ==
    ASSUME ConstantsOk, WriterInv, Next
    PROVE  WriterInv'
  <1>1. ASSUME NEW t, NEW n \in ItemLengths, CreateItem(t, n) PROVE WriterInv'
    <2>1. n \in Int
      BY DEF ConstantsOk
    <2> QED
      BY <1>1, <2>1, CreateItemStep
  <1>2. CASE ServerNext /\ UNCHANGED <<writer, worker, client, chunker>>
    <2>1. ServerInv' /\ \A t \in Streams : Keeps(stream[t], stream'[t])
      BY <1>2, ServerStep DEF WriterInv
    <2> QED
      BY <1>2, <2>1, CalmStep DEF WriterInv
  <1> QED
    BY <1>1, <1>2, WorkerWakesStep, WorkerReadsStep, OpenStreamStep, OldStreamStep,
       SendChunksStep, SendItemStep, CountItemStep, StopRequestedStep, DataLostStep,
       StreamFailsStep, WrittenStep, AppendRowStep, FlushStep, FlushConfirmedStep,
       CloseStreamStep, CloseConfirmedStep, CloseFinishesStep DEF Next

-----------------------------------------------------------------------------
(* The count of items in flight.  Keys are given in order and items are sent, *)
(* inserted and confirmed in order, so the keys under way on a stream are     *)
(* consecutive numbers.                                                       *)

\* ks is x + 1, ..., y.
Block(ks, x, y) ==
    /\ x \in Int /\ y \in Int /\ x <= y
    /\ Len(ks) = y - x /\ \A j \in 1 .. Len(ks) : ks[j] = x + j

\* Together the parts of rs are a + 1, ..., b.
Contig(rs, a, b) ==
    \E W : /\ W[0] = a /\ W[Len(rs)] = b
           /\ \A i \in 0 .. Len(rs) : W[i] \in Int
           /\ \A i, j \in 0 .. Len(rs) : i <= j => W[i] <= W[j]
           /\ \A i \in 1 .. Len(rs) : Block(rs[i], W[i - 1], W[i])

LEMMA ContigBounds ==
    ASSUME NEW rs, IsSeq(rs), NEW a, NEW b, Contig(rs, a, b)
    PROVE  a \in Int /\ b \in Int /\ a <= b
  <1>1. PICK n : n = Len(rs) /\ n \in Nat
    BY IsSeqFacts
  <1>2. PICK W : /\ W[0] = a /\ W[n] = b
                 /\ \A i \in 0 .. n : W[i] \in Int
                 /\ \A i, j \in 0 .. n : i <= j => W[i] <= W[j]
    BY <1>1 DEF Contig
  <1>3. 0 \in 0 .. n /\ n \in 0 .. n /\ 0 <= n
    BY <1>1
  <1> QED
    BY <1>2, <1>3

LEMMA ContigEmpty ==
    ASSUME NEW a \in Int
    PROVE  Contig(<< >>, a, a)
  <1>1. PICK empty : empty = << >>
    OBVIOUS
  <1>2. Len(empty) = 0
    BY <1>1, EmptyIsSeq
  <1>3. PICK W : W = [i \in 0 .. 0 |-> a]
    OBVIOUS
  <1>4. W[0] = a /\ 0 .. 0 = {0} /\ 1 .. 0 = {}
    BY <1>3
  <1>5. Contig(empty, a, a)
    BY <1>2, <1>4 DEF Contig
  <1> QED
    BY <1>1, <1>5

LEMMA ContigNone ==
    ASSUME NEW a, NEW b, Contig(<< >>, a, b)
    PROVE  a = b
  <1>1. PICK empty : empty = << >>
    OBVIOUS
  <1>2. Len(empty) = 0
    BY <1>1, EmptyIsSeq
  <1>3. Contig(empty, a, b)
    BY <1>1
  <1> QED
    BY <1>2, <1>3 DEF Contig

LEMMA ContigAppend ==
    ASSUME NEW rs, IsSeq(rs), NEW a, NEW b, Contig(rs, a, b),
           NEW ks, NEW d, Block(ks, b, d)
    PROVE  Contig(Append(rs, ks), a, d)
  <1>1. PICK n : n = Len(rs) /\ n \in Nat
    BY IsSeqFacts
  <1>2. PICK W : /\ W[0] = a /\ W[n] = b
                 /\ \A i \in 0 .. n : W[i] \in Int
                 /\ \A i, j \in 0 .. n : i <= j => W[i] <= W[j]
                 /\ \A i \in 1 .. n : Block(rs[i], W[i - 1], W[i])
    BY <1>1 DEF Contig
  <1>3. PICK t, m : t = Append(rs, ks) /\ m = n + 1
    OBVIOUS
  <1>4. /\ Len(t) = m /\ t[m] = ks /\ \A i \in 1 .. n : t[i] = rs[i]
    BY <1>1, <1>3, AppendSeq
  <1>5. PICK V : V = [i \in 0 .. m |-> IF i = m THEN d ELSE W[i]]
    OBVIOUS
  <1>6. b \in Int /\ d \in Int /\ b <= d
    BY DEF Block
  <1>7. /\ m \in Nat /\ m - 1 = n /\ m > 0 /\ n \in 0 .. n
        /\ \A i \in 0 .. m : i # m => i \in 0 .. n
        /\ \A i \in 1 .. m : i # m => i \in 1 .. n /\ i - 1 \in 0 .. m /\ i - 1 # m
                                       /\ i \in 0 .. m
    BY <1>1, <1>3
  <1>8. V[m] = d /\ \A i \in 0 .. n : V[i] = W[i]
    BY <1>5, <1>7, <1>3, <1>1
  <1>9. \A i \in 0 .. m : V[i] \in Int
    BY <1>2, <1>6, <1>7, <1>8
  <1>10. \A i, j \in 0 .. m : i <= j => V[i] <= V[j]
    <2> SUFFICES ASSUME NEW i \in 0 .. m, NEW j \in 0 .. m, i <= j
                 PROVE  V[i] <= V[j]
      OBVIOUS
    <2>1. CASE j = m /\ i = m
      BY <1>6, <1>8, <2>1
    <2>2. CASE j = m /\ i # m
      <3>1. i \in 0 .. n /\ i <= n
        BY <1>7, <2>2
      <3>2. W[i] <= W[n] /\ W[i] \in Int
        BY <1>2, <1>7, <3>1
      <3> QED
        BY <1>2, <1>6, <1>8, <2>2, <3>1, <3>2
    <2>3. CASE j # m
      <3>1. i \in 0 .. n /\ j \in 0 .. n
        BY <1>1, <1>7, <2>3
      <3> QED
        BY <1>2, <1>8, <3>1
    <2> QED
      BY <2>1, <2>2, <2>3
  <1>11. \A i \in 1 .. m : Block(t[i], V[i - 1], V[i])
    <2> SUFFICES ASSUME NEW i \in 1 .. m
                 PROVE  Block(t[i], V[i - 1], V[i])
      OBVIOUS
    <2>1. CASE i = m
      <3>1. V[i - 1] = b
        BY <1>2, <1>7, <1>8, <2>1
      <3> QED
        BY <1>4, <1>8, <2>1, <3>1
    <2>2. CASE i # m
      <3>1. i \in 1 .. n /\ i \in 0 .. n /\ i - 1 \in 0 .. n
        BY <1>1, <1>7, <2>2
      <3> QED
        BY <1>2, <1>4, <1>8, <3>1
    <2> QED
      BY <2>1, <2>2
  <1>12. V[0] = a
    BY <1>1, <1>2, <1>8
  <1>13. Contig(t, a, d)
    BY <1>4, <1>8, <1>9, <1>10, <1>11, <1>12 DEF Contig
  <1> QED
    BY <1>3, <1>13

LEMMA ContigHead ==
    ASSUME NEW rs, IsSeq(rs), rs # << >>, NEW a, NEW b, Contig(rs, a, b)
    PROVE  \E m : Block(Head(rs), a, m) /\ Contig(Tail(rs), m, b)
  <1>1. PICK n : n = Len(rs) /\ n \in Nat /\ n > 0
    BY IsSeqFacts
  <1>2. PICK W : /\ W[0] = a /\ W[n] = b
                 /\ \A i \in 0 .. n : W[i] \in Int
                 /\ \A i, j \in 0 .. n : i <= j => W[i] <= W[j]
                 /\ \A i \in 1 .. n : Block(rs[i], W[i - 1], W[i])
    BY <1>1 DEF Contig
  <1>3. PICK t, m : t = Tail(rs) /\ m = n - 1
    OBVIOUS
  <1>4. Len(t) = m /\ Head(rs) = rs[1] /\ \A i \in 1 .. m : t[i] = rs[i + 1]
    BY <1>1, <1>3, TailSeq
  <1>5. PICK V : V = [i \in 0 .. m |-> W[i + 1]]
    OBVIOUS
  <1>6. /\ m \in Nat /\ m + 1 = n /\ 1 \in 1 .. n /\ 1 - 1 = 0 /\ 0 + 1 = 1
        /\ \A i \in 0 .. m : i + 1 \in 0 .. n
        /\ \A i \in 1 .. m : /\ i + 1 \in 1 .. n /\ (i - 1) + 1 = i /\ (i + 1) - 1 = i
                             /\ i \in 0 .. m /\ i - 1 \in 0 .. m
    BY <1>1, <1>3
  <1>7. \A i \in 0 .. m : V[i] = W[i + 1]
    BY <1>5
  <1>8. V[0] = W[1] /\ V[m] = b
    BY <1>2, <1>6, <1>7
  <1>9. \A i \in 0 .. m : V[i] \in Int
    BY <1>2, <1>6, <1>7
  <1>10. \A i, j \in 0 .. m : i <= j => V[i] <= V[j]
    <2> SUFFICES ASSUME NEW i \in 0 .. m, NEW j \in 0 .. m, i <= j
                 PROVE  V[i] <= V[j]
      OBVIOUS
    <2>1. i + 1 \in 0 .. n /\ j + 1 \in 0 .. n /\ i + 1 <= j + 1
      BY <1>6
    <2> QED
      BY <1>2, <1>7, <2>1
  <1>11. \A i \in 1 .. m : Block(t[i], V[i - 1], V[i])
    <2> SUFFICES ASSUME NEW i \in 1 .. m
                 PROVE  Block(t[i], V[i - 1], V[i])
      OBVIOUS
    <2>1. V[i - 1] = W[i] /\ V[i] = W[i + 1]
      BY <1>6, <1>7
    <2>2. Block(rs[i + 1], W[(i + 1) - 1], W[i + 1])
      BY <1>2, <1>6
    <2> QED
      BY <1>4, <1>6, <2>1, <2>2
  <1>12. Contig(t, W[1], b)
    BY <1>4, <1>8, <1>9, <1>10, <1>11 DEF Contig
  <1>13. Block(rs[1], a, W[1])
    <2>1. Block(rs[1], W[1 - 1], W[1])
      BY <1>2, <1>6
    <2> QED
      BY <1>2, <1>6, <2>1
  <1> QED
    BY <1>3, <1>4, <1>12, <1>13

\* A key that joins the last part.
LEMMA ContigLast ==
    ASSUME NEW rs, IsSeq(rs), NEW t, IsSeq(t), NEW n \in Nat, n > 0, Len(rs) = n,
           Len(t) = n, NEW a, NEW b, Contig(rs, a, b), IsSeq(rs[n]),
           t[n] = Append(rs[n], b + 1), \A i \in 1 .. n : i < n => t[i] = rs[i]
    PROVE  Contig(t, a, b + 1)
  <1>2. PICK W : /\ W[0] = a /\ W[n] = b
                 /\ \A i \in 0 .. n : W[i] \in Int
                 /\ \A i, j \in 0 .. n : i <= j => W[i] <= W[j]
                 /\ \A i \in 1 .. n : Block(rs[i], W[i - 1], W[i])
    BY DEF Contig
  <1>3. PICK d : d = b + 1
    OBVIOUS
  <1>4. PICK V : V = [i \in 0 .. n |-> IF i = n THEN d ELSE W[i]]
    OBVIOUS
  <1>5. n \in 0 .. n /\ 0 \in 0 .. n /\ 0 # n /\ n \in 1 .. n /\ n - 1 \in 0 .. n
        /\ n - 1 # n /\ n - 1 <= n
    OBVIOUS
  <1>6. b \in Int /\ d \in Int /\ b <= d
    BY <1>2, <1>3, <1>5
  <1>7. V[n] = d /\ V[0] = a /\ \A i \in 0 .. n : i # n => V[i] = W[i]
    BY <1>2, <1>4, <1>5
  <1>8. \A i \in 0 .. n : V[i] \in Int
    BY <1>2, <1>6, <1>7
  <1>9. \A i, j \in 0 .. n : i <= j => V[i] <= V[j]
    <2> SUFFICES ASSUME NEW i \in 0 .. n, NEW j \in 0 .. n, i <= j
                 PROVE  V[i] <= V[j]
      OBVIOUS
    <2>1. CASE j = n /\ i = n
      BY <1>6, <1>7, <2>1
    <2>2. CASE j = n /\ i # n
      <3>1. W[i] <= b /\ W[i] \in Int /\ V[i] = W[i]
        BY <1>2, <1>5, <1>7, <2>2
      <3> QED
        BY <1>6, <1>7, <2>2, <3>1
    <2>3. CASE j # n
      <3>1. i # n
        BY <2>3
      <3> QED
        BY <1>2, <1>7, <2>3, <3>1
    <2> QED
      BY <2>1, <2>2, <2>3
  <1>10. Block(t[n], W[n - 1], d)
    <2>1. PICK x, ks, u : x = W[n - 1] /\ ks = rs[n] /\ u = t[n]
      OBVIOUS
    <2>2. Block(ks, x, b) /\ u = Append(ks, d)
      BY <1>2, <1>3, <1>5, <2>1
    <2>3. PICK l : l = Len(ks) /\ l \in Nat
      BY <2>1, IsSeqFacts
    <2>4. Len(u) = l + 1 /\ u[l + 1] = d /\ \A j \in 1 .. l : u[j] = ks[j]
      BY <2>1, <2>2, <2>3, AppendSeq
    <2>5. x \in Int /\ l = b - x /\ x <= b /\ \A j \in 1 .. l : ks[j] = x + j
      BY <2>2, <2>3 DEF Block
    <2>6. l + 1 = d - x /\ d = x + (l + 1) /\ x <= d
      BY <1>3, <1>6, <2>5
    <2>7. ASSUME NEW j \in 1 .. l + 1
          PROVE  u[j] = x + j
      <3>1. CASE j = l + 1
        BY <2>4, <2>6, <3>1
      <3>2. CASE j # l + 1
        <4>1. j \in 1 .. l
          BY <2>3, <3>2
        <4> QED
          BY <2>4, <2>5, <4>1
      <3> QED
        BY <3>1, <3>2
    <2>8. Block(u, x, d)
      BY <1>6, <2>4, <2>5, <2>6, <2>7 DEF Block
    <2> QED
      BY <2>1, <2>8
  <1>11. \A i \in 1 .. n : Block(t[i], V[i - 1], V[i])
    <2> SUFFICES ASSUME NEW i \in 1 .. n
                 PROVE  Block(t[i], V[i - 1], V[i])
      OBVIOUS
    <2>1. CASE i = n
      BY <1>5, <1>7, <1>10, <2>1
    <2>2. CASE i # n
      <3>1. i \in 0 .. n /\ i - 1 \in 0 .. n /\ i - 1 # n /\ i < n
        BY <2>2
      <3> QED
        BY <1>2, <1>7, <2>2, <3>1
    <2> QED
      BY <2>1, <2>2
  <1>12. Contig(t, a, d)
    BY <1>7, <1>8, <1>9, <1>11 DEF Contig
  <1> QED
    BY <1>3, <1>12

\* Parts that are the same one by one.
LEMMA ContigSame ==
    ASSUME NEW rs, NEW t, NEW n, Len(rs) = n, Len(t) = n,
           \A i \in 1 .. n : t[i] = rs[i], NEW a, NEW b, Contig(rs, a, b)
    PROVE  Contig(t, a, b)
  BY DEF Contig

\* The keys of the inserts and of the requests of stream s.
KeyIf(x, s) == IF x.stream = s THEN <<x.key>> ELSE << >>
InsertKeys(pending, s) == [i \in 1 .. Len(pending) |-> KeyIf(pending[i], s)]
Asked(q) == IF q.items = << >> THEN << >> ELSE <<q.items[1].key>>
RequestKeys(requests) == [i \in 1 .. Len(requests) |-> Asked(requests[i])]

LEMMA InsertKeysFacts ==
    ASSUME NEW p, IsSeq(p), NEW s
    PROVE  /\ IsSeq(InsertKeys(p, s)) /\ Len(InsertKeys(p, s)) = Len(p)
           /\ \A i \in 1 .. Len(p) : InsertKeys(p, s)[i] = KeyIf(p[i], s)
  <1>1. PICK n : n = Len(p) /\ n \in Nat
    BY IsSeqFacts
  <1>2. PICK f : f = InsertKeys(p, s)
    OBVIOUS
  <1>3. f = [i \in 1 .. n |-> f[i]] /\ \A i \in 1 .. n : f[i] = KeyIf(p[i], s)
    BY <1>1, <1>2 DEF InsertKeys
  <1>4. IsSeq(f) /\ Len(f) = n
    BY <1>1, <1>3, FunctionIsSeq
  <1> QED
    BY <1>1, <1>2, <1>3, <1>4

LEMMA RequestKeysFacts ==
    ASSUME NEW p, IsSeq(p)
    PROVE  /\ IsSeq(RequestKeys(p)) /\ Len(RequestKeys(p)) = Len(p)
           /\ \A i \in 1 .. Len(p) : RequestKeys(p)[i] = Asked(p[i])
  <1>1. PICK n : n = Len(p) /\ n \in Nat
    BY IsSeqFacts
  <1>2. PICK f : f = RequestKeys(p)
    OBVIOUS
  <1>3. f = [i \in 1 .. n |-> f[i]] /\ \A i \in 1 .. n : f[i] = Asked(p[i])
    BY <1>1, <1>2 DEF RequestKeys
  <1>4. IsSeq(f) /\ Len(f) = n
    BY <1>1, <1>3, FunctionIsSeq
  <1> QED
    BY <1>1, <1>2, <1>3, <1>4

\* One more insert, and one less.
LEMMA InsertAppended ==
    ASSUME NEW p, IsSeq(p), NEW s, NEW x, NEW a, NEW b, NEW d,
           Contig(InsertKeys(p, s), a, b), Block(KeyIf(x, s), b, d)
    PROVE  Contig(InsertKeys(Append(p, x), s), a, d)
  <1>1. PICK f, g, h, k, n :
           /\ f = InsertKeys(p, s) /\ k = KeyIf(x, s) /\ n = Len(p)
           /\ g = Append(f, k) /\ h = InsertKeys(Append(p, x), s)
    OBVIOUS
  <1>2. IsSeq(f) /\ Len(f) = n /\ \A i \in 1 .. n : f[i] = KeyIf(p[i], s)
    BY <1>1, InsertKeysFacts
  <1>3. Contig(g, a, d)
    BY <1>1, <1>2, ContigAppend
  <1>4. Len(g) = n + 1 /\ g[n + 1] = k /\ \A i \in 1 .. n : g[i] = f[i]
    BY <1>1, <1>2, AppendSeq
  <1>5. PICK q : q = Append(p, x)
    OBVIOUS
  <1>6. IsSeq(q) /\ Len(q) = n + 1 /\ q[n + 1] = x /\ \A i \in 1 .. n : q[i] = p[i]
    BY <1>1, <1>5, AppendSeq
  <1>7. Len(h) = n + 1 /\ \A i \in 1 .. n + 1 : h[i] = KeyIf(q[i], s)
    BY <1>1, <1>5, <1>6, InsertKeysFacts
  <1>8. n \in Nat
    BY <1>1, IsSeqFacts
  <1>9. ASSUME NEW i \in 1 .. n + 1
        PROVE  h[i] = g[i]
    <2>1. CASE i = n + 1
      BY <1>1, <1>4, <1>6, <1>7, <2>1
    <2>2. CASE i # n + 1
      <3>1. i \in 1 .. n
        BY <1>8, <2>2
      <3> QED
        BY <1>2, <1>4, <1>6, <1>7, <3>1
    <2> QED
      BY <2>1, <2>2
  <1>10. Contig(h, a, d)
    BY <1>3, <1>4, <1>7, <1>9, ContigSame
  <1> QED
    BY <1>1, <1>10

LEMMA InsertTaken ==
    ASSUME NEW p, IsSeq(p), p # << >>, NEW s, NEW a, NEW b,
           Contig(InsertKeys(p, s), a, b)
    PROVE  \E m : Block(KeyIf(Head(p), s), a, m) /\ Contig(InsertKeys(Tail(p), s), m, b)
  <1>1. PICK f, g, h, n :
           /\ f = InsertKeys(p, s) /\ n = Len(p)
           /\ g = Tail(f) /\ h = InsertKeys(Tail(p), s)
    OBVIOUS
  <1>2. IsSeq(f) /\ Len(f) = n /\ \A i \in 1 .. n : f[i] = KeyIf(p[i], s)
    BY <1>1, InsertKeysFacts
  <1>3. n \in Nat /\ n > 0
    BY <1>1, IsSeqFacts
  <1>4. f # << >>
    BY <1>2, <1>3, IsSeqFacts
  <1>5. PICK m : Block(Head(f), a, m) /\ Contig(g, m, b)
    BY <1>1, <1>2, <1>4, ContigHead
  <1>6. Len(g) = n - 1 /\ Head(f) = f[1] /\ \A i \in 1 .. n - 1 : g[i] = f[i + 1]
    BY <1>1, <1>2, <1>4, TailSeq
  <1>7. PICK q : q = Tail(p)
    OBVIOUS
  <1>8. IsSeq(q) /\ Len(q) = n - 1 /\ Head(p) = p[1]
        /\ \A i \in 1 .. n - 1 : q[i] = p[i + 1]
    BY <1>1, <1>7, TailSeq
  <1>9. Len(h) = n - 1 /\ \A i \in 1 .. n - 1 : h[i] = KeyIf(q[i], s)
    <2>1. h = InsertKeys(q, s) /\ IsSeq(q)
      BY <1>1, <1>7, <1>8
    <2>2. /\ Len(InsertKeys(q, s)) = Len(q)
          /\ \A i \in 1 .. Len(q) : InsertKeys(q, s)[i] = KeyIf(q[i], s)
      BY <2>1, InsertKeysFacts
    <2>3. PICK k : k = n - 1
      OBVIOUS
    <2>4. Len(q) = k
      BY <1>8, <2>3
    <2>5. Len(h) = k /\ \A i \in 1 .. k : h[i] = KeyIf(q[i], s)
      BY <2>1, <2>2, <2>4, Zenon
    <2> QED
      BY <2>3, <2>5
  <1>10. 1 \in 1 .. n /\ \A i \in 1 .. n - 1 : i + 1 \in 1 .. n
    BY <1>3
  <1>11. \A i \in 1 .. n - 1 : h[i] = g[i]
    BY <1>2, <1>6, <1>8, <1>9, <1>10
  <1>12. Contig(h, m, b)
    BY <1>5, <1>6, <1>9, <1>11, ContigSame
  <1>13. Head(f) = KeyIf(Head(p), s)
    BY <1>2, <1>6, <1>8, <1>10
  <1> QED
    BY <1>1, <1>5, <1>12, <1>13

\* One more request, and one less.
LEMMA RequestAppended ==
    ASSUME NEW p, IsSeq(p), NEW x, NEW a, NEW b, NEW d,
           Contig(RequestKeys(p), a, b), Block(Asked(x), b, d)
    PROVE  Contig(RequestKeys(Append(p, x)), a, d)
  <1>1. PICK f, g, h, k, n :
           /\ f = RequestKeys(p) /\ k = Asked(x) /\ n = Len(p)
           /\ g = Append(f, k) /\ h = RequestKeys(Append(p, x))
    OBVIOUS
  <1>2. IsSeq(f) /\ Len(f) = n /\ \A i \in 1 .. n : f[i] = Asked(p[i])
    BY <1>1, RequestKeysFacts
  <1>3. Contig(g, a, d)
    BY <1>1, <1>2, ContigAppend
  <1>4. Len(g) = n + 1 /\ g[n + 1] = k /\ \A i \in 1 .. n : g[i] = f[i]
    BY <1>1, <1>2, AppendSeq
  <1>5. PICK q : q = Append(p, x)
    OBVIOUS
  <1>6. IsSeq(q) /\ Len(q) = n + 1 /\ q[n + 1] = x /\ \A i \in 1 .. n : q[i] = p[i]
    BY <1>1, <1>5, AppendSeq
  <1>7. Len(h) = n + 1 /\ \A i \in 1 .. n + 1 : h[i] = Asked(q[i])
    BY <1>1, <1>5, <1>6, RequestKeysFacts
  <1>8. n \in Nat
    BY <1>1, IsSeqFacts
  <1>9. ASSUME NEW i \in 1 .. n + 1
        PROVE  h[i] = g[i]
    <2>1. CASE i = n + 1
      BY <1>1, <1>4, <1>6, <1>7, <2>1
    <2>2. CASE i # n + 1
      <3>1. i \in 1 .. n
        BY <1>8, <2>2
      <3> QED
        BY <1>2, <1>4, <1>6, <1>7, <3>1
    <2> QED
      BY <2>1, <2>2
  <1>10. Contig(h, a, d)
    BY <1>3, <1>4, <1>7, <1>9, ContigSame
  <1> QED
    BY <1>1, <1>10

LEMMA RequestTaken ==
    ASSUME NEW p, IsSeq(p), p # << >>, NEW a, NEW b, Contig(RequestKeys(p), a, b)
    PROVE  \E m : Block(Asked(Head(p)), a, m) /\ Contig(RequestKeys(Tail(p)), m, b)
  <1>1. PICK f, g, h, n :
           /\ f = RequestKeys(p) /\ n = Len(p)
           /\ g = Tail(f) /\ h = RequestKeys(Tail(p))
    OBVIOUS
  <1>2. IsSeq(f) /\ Len(f) = n /\ \A i \in 1 .. n : f[i] = Asked(p[i])
    BY <1>1, RequestKeysFacts
  <1>3. n \in Nat /\ n > 0
    BY <1>1, IsSeqFacts
  <1>4. f # << >>
    BY <1>2, <1>3, IsSeqFacts
  <1>5. PICK m : Block(Head(f), a, m) /\ Contig(g, m, b)
    BY <1>1, <1>2, <1>4, ContigHead
  <1>6. Len(g) = n - 1 /\ Head(f) = f[1] /\ \A i \in 1 .. n - 1 : g[i] = f[i + 1]
    BY <1>1, <1>2, <1>4, TailSeq
  <1>7. PICK q : q = Tail(p)
    OBVIOUS
  <1>8. IsSeq(q) /\ Len(q) = n - 1 /\ Head(p) = p[1]
        /\ \A i \in 1 .. n - 1 : q[i] = p[i + 1]
    BY <1>1, <1>7, TailSeq
  <1>9. Len(h) = n - 1 /\ \A i \in 1 .. n - 1 : h[i] = Asked(q[i])
    BY <1>1, <1>7, <1>8, RequestKeysFacts
  <1>10. 1 \in 1 .. n /\ \A i \in 1 .. n - 1 : i + 1 \in 1 .. n
    BY <1>3
  <1>11. \A i \in 1 .. n - 1 : h[i] = g[i]
    BY <1>2, <1>6, <1>8, <1>9, <1>10
  <1>12. Contig(h, m, b)
    BY <1>5, <1>6, <1>9, <1>11, ContigSame
  <1>13. Head(f) = Asked(Head(p))
    BY <1>2, <1>6, <1>8, <1>10
  <1> QED
    BY <1>1, <1>5, <1>12, <1>13

\* The responses that are not written yet; the first is being written.
Unsent(rs) == IF rs = << >> THEN << >> ELSE Tail(rs)

\* A request of this writer has at most one item.
Small(requests) == \A i \in DOMAIN requests : Len(requests[i].items) <= 1

\* The keys under way on stream s are c + 1, ..., n, from the response that the
\* worker reads next to the last request; on a stream that has failed only
\* responses are left.
Line(str, pending, s, c, n) ==
    \E m \in Int :
        /\ m <= n /\ Contig(str.reactor.wire, c, m)
        /\ Active(str) =>
              \E p, q : /\ Contig(Unsent(str.reactor.responses), m, p)
                        /\ Contig(InsertKeys(pending, s), p, q)
                        /\ Contig(RequestKeys(str.requests), q, n)

LEMMA LineSame ==
    ASSUME NEW str, NEW str2, NEW pending, NEW s, NEW c, NEW n,
           Line(str, pending, s, c, n), str2.reactor.wire = str.reactor.wire,
           Active(str2) => /\ Active(str) /\ str2.requests = str.requests
                           /\ str2.reactor.responses = str.reactor.responses
    PROVE  Line(str2, pending, s, c, n)
  BY DEF Line

\* A stream that has failed.
LEMMA LineStopped ==
    ASSUME NEW str, NEW str2, NEW pending, NEW pending2, NEW s, NEW c, NEW n \in Int,
           NEW n2 \in Int, n <= n2, Line(str, pending, s, c, n),
           str2.reactor.wire = str.reactor.wire, ~Active(str2)
    PROVE  Line(str2, pending2, s, c, n2)
  BY DEF Line

LEMMA LineBroken ==
    ASSUME NEW str2, NEW pending, NEW s, NEW c \in Int, NEW n \in Int, c <= n,
           str2.reactor.wire = << >>, ~Active(str2)
    PROVE  Line(str2, pending, s, c, n)
  <1>1. PICK w : w = str2.reactor.wire
    OBVIOUS
  <1>2. Contig(w, c, c)
    BY <1>1, ContigEmpty
  <1> QED
    BY <1>1, <1>2 DEF Line

LEMMA EmptyBlock ==
    ASSUME NEW ks, ks = << >>, NEW x
    PROVE  /\ x \in Int => Block(ks, x, x)
           /\ \A y : Block(ks, x, y) => y = x
  <1>1. Len(ks) = 0
    BY EmptyIsSeq
  <1> QED
    BY <1>1 DEF Block

LEMMA OneBlock ==
    ASSUME NEW ks, NEW key, ks = <<key>>, NEW x, NEW y, Block(ks, x, y)
    PROVE  key = x + 1 /\ y = x + 1
  <1>1. Len(ks) = 1 /\ ks[1] = key
    BY OneIsSeq
  <1> QED
    BY <1>1 DEF Block

LEMMA NextBlock ==
    ASSUME NEW x \in Int, NEW ks, ks = <<x + 1>>
    PROVE  Block(ks, x, x + 1)
  <1>1. PICK y : y = x + 1
    OBVIOUS
  <1>2. Len(ks) = 1 /\ ks[1] = y
    BY <1>1, OneIsSeq
  <1>3. y \in Int /\ x <= y /\ 1 = y - x
    BY <1>1
  <1>4. Block(ks, x, y)
    BY <1>1, <1>2, <1>3 DEF Block
  <1> QED
    BY <1>1, <1>4

\* A request that is sent.
LEMMA LineSent ==
    ASSUME NEW str, IsStream(str), NEW str2, NEW pending, NEW s, NEW c,
           NEW n \in Int, NEW n2 \in Int, n <= n2,
           Line(str, pending, s, c, n), NEW x, Block(Asked(x), n, n2),
           str2.reactor = str.reactor, str2.ended = str.ended,
           str2.requests = Append(str.requests, x)
    PROVE  Line(str2, pending, s, c, n2)
  <1>1. PICK m \in Int :
          /\ m <= n /\ Contig(str.reactor.wire, c, m)
          /\ Active(str) =>
                \E p, q : /\ Contig(Unsent(str.reactor.responses), m, p)
                          /\ Contig(InsertKeys(pending, s), p, q)
                          /\ Contig(RequestKeys(str.requests), q, n)
    BY DEF Line
  <1>4. m <= n2
    BY <1>1
  <1>2. m <= n2 /\ (Active(str2) => Active(str))
    BY <1>4 DEF Active
  <1>3. ASSUME Active(str2)
        PROVE  \E p, q : /\ Contig(Unsent(str2.reactor.responses), m, p)
                         /\ Contig(InsertKeys(pending, s), p, q)
                         /\ Contig(RequestKeys(str2.requests), q, n2)
    <2>1. PICK p, q : /\ Contig(Unsent(str.reactor.responses), m, p)
                      /\ Contig(InsertKeys(pending, s), p, q)
                      /\ Contig(RequestKeys(str.requests), q, n)
      BY <1>1, <1>2, <1>3
    <2>2. IsSeq(str.requests)
      BY DEF IsStream
    <2>3. Contig(RequestKeys(str2.requests), q, n2)
      BY <2>1, <2>2, RequestAppended
    <2> QED
      BY <2>1, <2>3
  <1> QED
    BY <1>1, <1>2, <1>3 DEF Line

\* The worker reads a response.
LEMMA LineConfirmed ==
    ASSUME NEW str, IsStream(str), NEW str2, NEW pending, NEW s, NEW c,
           NEW n \in Int, Line(str, pending, s, c, n),
           NEW w, w = str.reactor.wire, w # << >>,
           str2.reactor.wire = Tail(w), str2.ended = str.ended,
           str2.requests = str.requests,
           str2.reactor.is_finished = str.reactor.is_finished,
           str2.reactor.responses = str.reactor.responses
    PROVE  \E d \in Int : /\ Block(Head(w), c, d) /\ d <= n
                          /\ Line(str2, pending, s, d, n)
  <1>1. PICK m \in Int :
          /\ m <= n /\ Contig(w, c, m)
          /\ Active(str) =>
                \E p, q : /\ Contig(Unsent(str.reactor.responses), m, p)
                          /\ Contig(InsertKeys(pending, s), p, q)
                          /\ Contig(RequestKeys(str.requests), q, n)
    BY DEF Line
  <1>2. IsSeq(w)
    BY SeqIsSeq DEF IsStream, IsReactor
  <1>3. PICK d : Block(Head(w), c, d) /\ Contig(Tail(w), d, m)
    BY <1>1, <1>2, ContigHead
  <1>4. IsSeq(Tail(w))
    BY <1>2, TailSeq
  <1>5. d \in Int /\ d <= m
    BY <1>3, <1>4, ContigBounds
  <1>6. d <= n /\ (Active(str2) => Active(str))
    BY <1>1, <1>5 DEF Active
  <1>7. Line(str2, pending, s, d, n)
    BY <1>1, <1>3, <1>6 DEF Line
  <1> QED
    BY <1>3, <1>5, <1>6, <1>7

\* The next response is written.
LEMMA LineWritten ==
    ASSUME NEW str, IsStream(str), NEW str2, NEW pending, IsSeq(pending), NEW s, NEW c,
           NEW n \in Int, Line(str, pending, s, c, n), Active(str2) => Active(str),
           NEW rest, rest = Tail(str.reactor.responses),
           Active(str) => str.reactor.responses # << >>,
           str2.requests = str.requests,
           Active(str2) => /\ str2.reactor.responses = rest
                           /\ str2.reactor.wire =
                                 IF rest = << >> THEN str.reactor.wire
                                 ELSE Append(str.reactor.wire, Head(rest)),
           ~Active(str2) => str2.reactor.wire = str.reactor.wire
    PROVE  Line(str2, pending, s, c, n)
  <1>1. CASE ~Active(str2)
    BY <1>1, LineStopped
  <1>2. CASE Active(str2)
    <2>1. PICK w, w2 : w = str.reactor.wire /\ w2 = str2.reactor.wire
      OBVIOUS
    <2>2. PICK m \in Int : m <= n /\ Contig(w, c, m) /\
                \E p, q : /\ Contig(Unsent(str.reactor.responses), m, p)
                          /\ Contig(InsertKeys(pending, s), p, q)
                          /\ Contig(RequestKeys(str.requests), q, n)
      BY <1>2, <2>1 DEF Line
    <2>3. PICK p, q : /\ Contig(rest, m, p) /\ Contig(InsertKeys(pending, s), p, q)
                      /\ Contig(RequestKeys(str.requests), q, n)
      BY <1>2, <2>2 DEF Unsent
    <2>4. IsSeq(w) /\ IsSeq(str.reactor.responses)
      BY <2>1, SeqIsSeq DEF IsStream, IsReactor
    <2>5. IsSeq(rest)
      BY <1>2, <2>4, TailSeq
    <2>6. CASE rest = << >>
      <3>1. w2 = w /\ Unsent(str2.reactor.responses) = rest
        BY <1>2, <2>1, <2>6 DEF Unsent
      <3> QED
        BY <2>1, <2>2, <2>3, <3>1 DEF Line
    <2>7. CASE rest # << >>
      <3>1. PICK k : Block(Head(rest), m, k) /\ Contig(Tail(rest), k, p)
        BY <2>3, <2>5, <2>7, ContigHead
      <3>2. w2 = Append(w, Head(rest)) /\ Unsent(str2.reactor.responses) = Tail(rest)
        BY <1>2, <2>1, <2>7 DEF Unsent
      <3>3. PICK x : x = Head(rest)
        OBVIOUS
      <3>4. Contig(w2, c, k)
        BY <2>2, <2>4, <3>1, <3>2, <3>3, ContigAppend
      <3>5. k \in Int /\ k <= n
        <4>1. IsSeq(Tail(rest))
          BY <2>5, <2>7, TailSeq
        <4>2. k \in Int /\ p \in Int /\ k <= p
          BY <3>1, <4>1, ContigBounds
        <4>3. IsSeq(InsertKeys(pending, s)) /\ IsSeq(RequestKeys(str.requests))
          BY InsertKeysFacts, RequestKeysFacts DEF IsStream
        <4>4. q \in Int /\ p <= q
          BY <2>3, <4>3, ContigBounds
        <4>5. q <= n
          BY <2>3, <4>3, ContigBounds
        <4> QED
          BY <4>2, <4>4, <4>5
      <3>6. /\ Contig(Unsent(str2.reactor.responses), k, p)
            /\ Contig(RequestKeys(str2.requests), q, n)
            /\ Contig(str2.reactor.wire, c, k)
        BY <2>1, <2>3, <3>1, <3>2, <3>4
      <3> QED
        BY <2>3, <3>5, <3>6, Zenon DEF Line
    <2> QED
      BY <2>6, <2>7
  <1> QED
    BY <1>1, <1>2

\* The server of stream s takes a request.
LEMMA LineTaken ==
    ASSUME NEW str, IsStream(str), NEW str2, NEW old, IsSeq(old), NEW pending, NEW s,
           NEW c, NEW n \in Int, Line(str, old, s, c, n), Small(str.requests),
           TakesRequest(s, str, str2, old, pending)
    PROVE  Line(str2, pending, s, c, n)
  <1>1. CASE ~Active(str2)
    BY <1>1, LineStopped DEF TakesRequest
  <1>2. CASE Active(str2)
    <2>1. PICK qs, x : qs = str.requests /\ x = Head(qs)
      OBVIOUS
    <2>2. /\ qs # << >> /\ str2.requests = Tail(qs) /\ IsRequest(x)
          /\ str2.reactor.wire = str.reactor.wire /\ Active(str)
          /\ str2.reactor.responses = str.reactor.responses
          /\ ~str.reactor.is_finished
      BY <1>2, <2>1 DEF TakesRequest, Active
    <2>3. PICK new : /\ IsSeq(new) /\ pending = old \o new
                     /\ Len(new) = Len(x.items)
                     /\ \A i \in 1 .. Len(new) :
                           new[i].key = x.items[i].key /\ new[i].stream = s
      BY <1>2, <2>1, <2>2 DEF TakesRequest
    <2>4. PICK m \in Int : m <= n /\ Contig(str.reactor.wire, c, m) /\
                \E p, q : /\ Contig(Unsent(str.reactor.responses), m, p)
                          /\ Contig(InsertKeys(old, s), p, q)
                          /\ Contig(RequestKeys(qs), q, n)
      BY <2>1, <2>2 DEF Line
    <2>5. PICK p, q : /\ Contig(Unsent(str.reactor.responses), m, p)
                      /\ Contig(InsertKeys(old, s), p, q)
                      /\ Contig(RequestKeys(qs), q, n)
      BY <2>4
    <2>6. IsSeq(qs) /\ IsSeq(x.items)
      BY <2>1, <2>2 DEF IsStream, IsRequest
    <2>7. PICK d : Block(Asked(x), q, d) /\ Contig(RequestKeys(Tail(qs)), d, n)
      BY <2>1, <2>2, <2>5, <2>6, RequestTaken
    <2>8. Len(x.items) <= 1 /\ Len(x.items) \in Nat
      <3>1. Len(qs) > 0 /\ DOMAIN qs = 1 .. Len(qs) /\ Len(qs) \in Nat
        BY <2>2, <2>6, IsSeqFacts
      <3>2. x = qs[1] /\ 1 \in DOMAIN qs
        BY <2>1, <2>2, <2>6, <3>1, TailSeq
      <3> QED
        BY <2>1, <2>6, <3>2, IsSeqFacts DEF Small
    <2>9. Contig(InsertKeys(pending, s), p, d)
      <3>1. CASE Len(x.items) = 0
        <4>1. x.items = << >> /\ new = << >>
          BY <2>3, <2>6, <3>1, IsSeqFacts
        <4>2. Asked(x) = << >>
          BY <4>1 DEF Asked
        <4>3. d = q
          BY <2>7, <4>2, EmptyBlock
        <4>4. old \in Seq(ToSet(old))
          BY DEF IsSeq
        <4>5. old \o << >> = old
          BY <4>4
        <4>6. pending = old
          BY <2>3, <4>1, <4>5
        <4> QED
          BY <2>5, <4>3, <4>6
      <3>2. CASE Len(x.items) = 1
        <4>1. x.items # << >> /\ 1 \in 1 .. Len(new)
          BY <2>3, <2>6, <3>2, IsSeqFacts
        <4>2. PICK y : y = new[1]
          OBVIOUS
        <4>3. new = <<y>>
          <5>1. new = [i \in 1 .. 1 |-> new[i]] /\ Len(new) = 1
            BY <2>3, <3>2, IsSeqFacts
          <5>2. new \in Seq(ToSet(new))
            BY <2>3 DEF IsSeq
          <5> QED
            BY <4>2, <5>1, <5>2
        <4>4. old \in Seq(ToSet(old) \cup {y})
          BY DEF IsSeq, ToSet
        <4>5. old \o <<y>> = Append(old, y)
          BY <4>4
        <4>6. pending = Append(old, y)
          BY <2>3, <4>3, <4>5
        <4>7. y.stream = s /\ y.key = x.items[1].key
          BY <2>3, <4>1, <4>2
        <4>8. KeyIf(y, s) = Asked(x)
          BY <4>1, <4>7 DEF KeyIf, Asked
        <4>9. Block(KeyIf(y, s), q, d)
          BY <2>7, <4>8
        <4> QED
          BY <2>5, <4>6, <4>9, InsertAppended
      <3>3. \A l \in Nat : l <= 1 => l = 0 \/ l = 1
        OBVIOUS
      <3> QED
        BY <2>8, <3>1, <3>2, <3>3, Zenon
    <2> QED
      BY <2>2, <2>4, <2>5, <2>7, <2>9 DEF Line
  <1> QED
    BY <1>1, <1>2

\* Another server takes one.
LEMMA LineAside ==
    ASSUME NEW str, IsStream(str), NEW oth, IsStream(oth), NEW oth2, NEW old,
           IsSeq(old), NEW pending, NEW s, NEW t, t # s, NEW c, NEW n \in Int,
           Line(str, old, s, c, n), Small(oth.requests),
           TakesRequest(t, oth, oth2, old, pending)
    PROVE  Line(str, pending, s, c, n)
  <1>1. CASE oth.reactor.is_finished
    <2>1. pending = old
      BY <1>1 DEF TakesRequest
    <2> QED
      BY <2>1
  <1>2. CASE ~oth.reactor.is_finished
    <2>1. PICK qs, x : qs = oth.requests /\ x = Head(qs)
      OBVIOUS
    <2>2. qs # << >> /\ IsRequest(x) /\ IsSeq(qs)
      BY <2>1 DEF TakesRequest, IsStream
    <2>3. PICK new : /\ IsSeq(new) /\ pending = old \o new
                     /\ Len(new) \in Nat /\ Len(new) <= Len(x.items)
                     /\ \A i \in 1 .. Len(new) : new[i].stream = t
      BY <1>2, <2>1 DEF TakesRequest
    <2>4. Len(x.items) <= 1 /\ Len(x.items) \in Nat
      <3>1. Len(qs) > 0 /\ DOMAIN qs = 1 .. Len(qs) /\ Len(qs) \in Nat
        BY <2>2, IsSeqFacts
      <3>2. x = qs[1] /\ 1 \in DOMAIN qs
        BY <2>1, <2>2, <3>1, TailSeq
      <3>3. IsSeq(x.items)
        BY <2>2 DEF IsRequest
      <3> QED
        BY <2>1, <3>2, <3>3, IsSeqFacts DEF Small
    <2>5. CASE Len(new) = 0
      <3>1. new = << >> /\ old \in Seq(ToSet(old))
        BY <2>3, <2>5, IsSeqFacts DEF IsSeq
      <3>2. old \o << >> = old
        BY <3>1
      <3> QED
        BY <2>3, <3>1, <3>2
    <2>6. CASE Len(new) = 1
      <3>1. PICK y : y = new[1]
        OBVIOUS
      <3>2. new = <<y>>
        <4>1. new \in Seq(ToSet(new)) /\ new = [i \in 1 .. 1 |-> new[i]]
          BY <2>3, <2>6, IsSeqFacts DEF IsSeq
        <4> QED
          BY <2>6, <3>1, <4>1
      <3>3. old \in Seq(ToSet(old) \cup {y})
        BY DEF IsSeq, ToSet
      <3>4. old \o <<y>> = Append(old, y)
        BY <3>3
      <3>5. pending = Append(old, y) /\ y.stream = t
        BY <2>3, <2>6, <3>1, <3>2, <3>4
      <3>6. KeyIf(y, s) = << >>
        BY <3>5 DEF KeyIf
      <3>7. ASSUME NEW p, NEW q, Contig(InsertKeys(old, s), p, q)
            PROVE  Contig(InsertKeys(pending, s), p, q)
        <4>1. q \in Int
          BY <3>7, InsertKeysFacts, ContigBounds
        <4>2. Block(KeyIf(y, s), q, q)
          BY <3>6, <4>1, EmptyBlock
        <4> QED
          BY <3>5, <3>7, <4>2, InsertAppended
      <3> QED
        BY <3>7 DEF Line
    <2>7. Len(new) = 0 \/ Len(new) = 1
      <3>1. \A l, k \in Nat : l <= k /\ k <= 1 => l = 0 \/ l = 1
        OBVIOUS
      <3> QED
        BY <2>3, <2>4, <3>1
    <2> QED
      BY <2>5, <2>6, <2>7
  <1> QED
    BY <1>1, <1>2

\* A key that was inserted is confirmed by the last response that is not
\* written yet, or by a new one.
LEMMA UnsentGrows ==
    ASSUME NEW rs \in Seq(Seq(Nat)), rs # << >>, NEW key \in Nat, NEW a, NEW b,
           Contig(Unsent(rs), a, b), key = b + 1
    PROVE  Contig(Unsent(Confirming(rs, key)), a, b + 1)
  <1>1. PICK c : c = Confirming(rs, key)
    OBVIOUS
  <1>2. PICK l, k : l = Len(rs) /\ k = Len(c)
    OBVIOUS
  <1>3. /\ c \in Seq(Seq(Nat)) /\ k > 0 /\ k = IF l < 2 THEN l + 1 ELSE l
        /\ \A i \in 1 .. k : c[i] = IF i < k THEN rs[i]
                                    ELSE IF l < 2 THEN <<key>> ELSE Append(rs[i], key)
    BY <1>1, <1>2, ConfirmingFacts
  <1>4. IsSeq(rs) /\ IsSeq(c)
    BY <1>3, SeqIsSeq
  <1>5. l \in Nat /\ l > 0 /\ k \in Nat
    BY <1>2, <1>4, IsSeqFacts
  <1>6. c # << >>
    BY <1>2, <1>3, <1>4, IsSeqFacts
  <1>7. PICK f, g : f = Tail(rs) /\ g = Tail(c)
    OBVIOUS
  <1>8. IsSeq(f) /\ Len(f) = l - 1 /\ \A i \in 1 .. l - 1 : f[i] = rs[i + 1]
    BY <1>2, <1>4, <1>7, TailSeq
  <1>9. IsSeq(g) /\ Len(g) = k - 1 /\ \A i \in 1 .. k - 1 : g[i] = c[i + 1]
    BY <1>2, <1>4, <1>6, <1>7, TailSeq
  <1>10. Unsent(rs) = f /\ Unsent(c) = g
    BY <1>6, <1>7 DEF Unsent
  <1>11. Contig(f, a, b)
    BY <1>10
  <1>12. b \in Int
    BY <1>8, <1>11, ContigBounds
  <1>13. CASE l < 2
    <2>1. l = 1 /\ k = 2 /\ 1 \in 1 .. k - 1 /\ 2 \in 1 .. k
      BY <1>3, <1>5, <1>13
    <2>2. g[1] = <<key>> /\ Len(g) = 1 /\ Len(f) = 0
      BY <1>3, <1>8, <1>9, <2>1
    <2>3. PICK ks, h : ks = <<key>> /\ h = Append(f, ks)
      OBVIOUS
    <2>4. Block(ks, b, b + 1)
      BY <1>12, <2>3, NextBlock
    <2>5. Contig(h, a, b + 1)
      BY <1>8, <1>11, <2>3, <2>4, ContigAppend
    <2>6. Len(h) = 1 /\ h[1] = ks
      <3>1. Len(h) = Len(f) + 1 /\ h[Len(f) + 1] = ks
        BY <1>8, <2>3, AppendSeq
      <3> QED
        BY <2>2, <3>1
    <2>7. \A i \in 1 .. 1 : g[i] = h[i]
      BY <2>2, <2>3, <2>6
    <2>8. Contig(g, a, b + 1)
      BY <2>2, <2>5, <2>6, <2>7, ContigSame
    <2> QED
      BY <1>1, <1>10, <2>8
  <1>14. CASE ~(l < 2)
    <2>1. PICK n : n = l - 1
      OBVIOUS
    <2>2. n \in Nat /\ n > 0 /\ k = l /\ n + 1 = l /\ l \in 1 .. k /\ ~(l < k)
          /\ n \in 1 .. n
          /\ \A i \in 1 .. n : i < n => i + 1 \in 1 .. k /\ i + 1 < k
      BY <1>3, <1>5, <1>14, <2>1
    <2>3. /\ Len(f) = n /\ \A i \in 1 .. n : f[i] = rs[i + 1]
      BY <1>8, <2>1
    <2>4. /\ Len(g) = n /\ \A i \in 1 .. n : g[i] = c[i + 1]
      BY <1>9, <2>1, <2>2
    <2>5. f[n] = rs[l] /\ g[n] = c[l]
      BY <2>2, <2>3, <2>4
    <2>6. c[l] = Append(rs[l], key)
      BY <1>3, <1>14, <2>2
    <2>7. IsSeq(f[n])
      <3>1. rs[l] \in Seq(Nat)
        BY <1>2, <1>5
      <3> QED
        BY <2>5, <3>1, SeqIsSeq
    <2>8. ASSUME NEW i \in 1 .. n, i < n
          PROVE  g[i] = f[i]
      <3>1. PICK j : j = i + 1
        OBVIOUS
      <3>2. j \in 1 .. k /\ j < k
        BY <2>2, <2>8, <3>1
      <3>3. g[i] = c[j] /\ f[i] = rs[j]
        BY <2>3, <2>4, <2>8, <3>1
      <3>4. c[j] = rs[j]
        BY <1>3, <3>2
      <3> QED
        BY <3>3, <3>4
    <2>9. g[n] = Append(f[n], b + 1)
      BY <2>5, <2>6
    <2>10. Contig(g, a, b + 1)
      <3>1. IsSeq(f) /\ IsSeq(g) /\ n \in Nat /\ n > 0 /\ Len(f) = n /\ Len(g) = n
        BY <1>8, <1>9, <2>2, <2>3, <2>4
      <3>2. \A i \in 1 .. n : i < n => g[i] = f[i]
        BY <2>8
      <3> QED
        BY <1>11, <2>7, <2>9, <3>1, <3>2, ContigLast, Zenon
    <2> QED
      BY <1>1, <1>10, <2>10
  <1> QED
    BY <1>13, <1>14

\* The table takes an insert.
LEMMA LineInserted ==
    ASSUME NEW str, IsStream(str), NEW str2, NEW pending, IsSeq(pending),
           pending # << >>, NEW x, x = Head(pending), NEW s, x.stream = s,
           x.key \in Nat, NEW c, NEW n \in Int, Line(str, pending, s, c, n),
           str2.requests = str.requests, str2.ended = str.ended,
           str.ended # "no" => str.reactor.is_finished,
           Completed(str.reactor, x.key, str2.reactor)
    PROVE  Line(str2, Tail(pending), s, c, n)
  <1>1. PICK r, q2, rs, key :
          /\ r = str.reactor /\ q2 = str2.reactor /\ rs = r.responses /\ key = x.key
    OBVIOUS
  <1>2. IsReactor(r) /\ rs \in Seq(Seq(Nat)) /\ r.wire \in Seq(Seq(Nat))
    BY <1>1 DEF IsStream, IsReactor
  <1>3. Active(str2) <=> Active(str)
    BY DEF Completed, Active
  <1>4. CASE ~Active(str)
    <2>1. str2.reactor.wire = str.reactor.wire
      BY <1>4 DEF Completed, Active
    <2> QED
      BY <1>3, <1>4, <2>1, LineStopped
  <1>5. CASE Active(str)
    <2>1. /\ q2.responses = Confirming(rs, key)
          /\ q2.wire = IF rs = << >> THEN Append(r.wire, <<key>>) ELSE r.wire
      BY <1>1, <1>5 DEF Completed, Active
    <2>2. PICK m \in Int : m <= n /\ Contig(r.wire, c, m) /\
                \E p, q : /\ Contig(Unsent(rs), m, p)
                          /\ Contig(InsertKeys(pending, s), p, q)
                          /\ Contig(RequestKeys(str.requests), q, n)
      BY <1>1, <1>5 DEF Line
    <2>3. PICK p, q : /\ Contig(Unsent(rs), m, p)
                      /\ Contig(InsertKeys(pending, s), p, q)
                      /\ Contig(RequestKeys(str.requests), q, n)
      BY <2>2
    <2>4. PICK d : /\ Block(KeyIf(x, s), p, d)
                   /\ Contig(InsertKeys(Tail(pending), s), d, q)
      BY <2>3, InsertTaken
    <2>5. KeyIf(x, s) = <<key>>
      BY <1>1 DEF KeyIf
    <2>6. key = p + 1 /\ d = p + 1 /\ d \in Int /\ p \in Int
      BY <2>4, <2>5, OneBlock DEF Block
    <2>7. d <= n
      <3>1. IsSeq(Tail(pending))
        BY TailSeq
      <3>2. IsSeq(InsertKeys(Tail(pending), s)) /\ IsSeq(RequestKeys(str.requests))
        BY <3>1, InsertKeysFacts, RequestKeysFacts DEF IsStream
      <3>3. d <= q /\ q \in Int
        BY <2>4, <3>2, ContigBounds
      <3>4. q <= n
        BY <2>3, <3>2, ContigBounds
      <3> QED
        BY <2>6, <3>3, <3>4
    <2>8. CASE rs = << >>
      <3>1. p = m
        BY <2>3, <2>8, ContigNone DEF Unsent
      <3>2. PICK ks, w : ks = <<key>> /\ w = Append(r.wire, ks)
        OBVIOUS
      <3>3. Block(ks, m, d)
        BY <2>4, <2>5, <3>1, <3>2
      <3>4. IsSeq(r.wire)
        BY <1>2, SeqIsSeq
      <3>5. Contig(w, c, d)
        BY <2>2, <3>2, <3>3, <3>4, ContigAppend
      <3>6. PICK cf : cf = Confirming(rs, key)
        OBVIOUS
      <3>7. cf \in Seq(Seq(Nat)) /\ Len(cf) = 1
        <4>1. key \in Nat
          BY <1>1
        <4> QED
          BY <1>2, <2>8, <3>6, <4>1, ConfirmingFacts
      <3>8. IsSeq(cf)
        BY <3>7, SeqIsSeq
      <3>9. cf # << >>
        <4>1. Len(cf) > 0
          BY <3>7
        <4> QED
          BY <3>8, <4>1, IsSeqFacts
      <3>10. IsSeq(Tail(cf)) /\ Len(Tail(cf)) = 0
        BY <3>7, <3>8, <3>9, TailSeq
      <3>11. Unsent(cf) = << >>
        <4>1. PICK tl : tl = Tail(cf)
          OBVIOUS
        <4>2. ~(Len(tl) > 0) /\ IsSeq(tl)
          <5>1. Len(tl) = 0 /\ IsSeq(tl)
            BY <3>10, <4>1, Zenon
          <5> QED
            BY <5>1
        <4>3. tl # << >> <=> Len(tl) > 0
          BY <4>2, IsSeqFacts
        <4>4. tl = << >>
          BY <4>2, <4>3
        <4> QED
          BY <3>9, <4>1, <4>4 DEF Unsent
      <3>12. Contig(Unsent(cf), d, d)
        BY <2>6, <3>11, ContigEmpty
      <3>13. /\ Contig(Unsent(str2.reactor.responses), d, d)
             /\ Contig(str2.reactor.wire, c, d)
             /\ Contig(RequestKeys(str2.requests), q, n)
        BY <1>1, <2>1, <2>3, <2>8, <3>2, <3>5, <3>6, <3>12
      <3> QED
        BY <2>4, <2>6, <2>7, <3>13, Zenon DEF Line
    <2>9. CASE rs # << >>
      <3>1. key \in Nat
        BY <1>1
      <3>2. Contig(Unsent(Confirming(rs, key)), m, p + 1)
        <4>1. Contig(Unsent(rs), m, p) /\ key = p + 1 /\ rs \in Seq(Seq(Nat))
          BY <1>2, <2>3, <2>6
        <4> QED
          BY <2>9, <3>1, <4>1, UnsentGrows, Zenon
      <3>3. /\ Contig(Unsent(str2.reactor.responses), m, d)
            /\ Contig(str2.reactor.wire, c, m)
            /\ Contig(RequestKeys(str2.requests), q, n)
        BY <1>1, <2>1, <2>2, <2>3, <2>6, <2>9, <3>2
      <3> QED
        BY <2>2, <2>4, <3>3, Zenon DEF Line
    <2> QED
      BY <2>8, <2>9
  <1> QED
    BY <1>4, <1>5

\* It takes one of another stream.
LEMMA LinePassed ==
    ASSUME NEW str, NEW pending, IsSeq(pending), pending # << >>, NEW s,
           Head(pending).stream # s, NEW c, NEW n, Line(str, pending, s, c, n)
    PROVE  Line(str, Tail(pending), s, c, n)
  <1>1. KeyIf(Head(pending), s) = << >>
    BY DEF KeyIf
  <1>2. ASSUME NEW p, NEW q, Contig(InsertKeys(pending, s), p, q)
        PROVE  Contig(InsertKeys(Tail(pending), s), p, q)
    <2>1. PICK d : /\ Block(KeyIf(Head(pending), s), p, d)
                   /\ Contig(InsertKeys(Tail(pending), s), d, q)
      BY <1>2, InsertTaken
    <2>2. d = p
      BY <1>1, <2>1, EmptyBlock
    <2> QED
      BY <2>1, <2>2
  <1> QED
    BY <1>2 DEF Line

-----------------------------------------------------------------------------
(* The writer counts rightly. *)

\* n items were sent and c of them confirmed, the oldest first; those that are
\* confirmed are in the table.
Books(cl, wr, items, c, n) ==
    /\ n \in Nat /\ c \in Nat /\ c <= n /\ 1 .. c \subseteq items
    /\ wr.num_items_in_flight \in Int
    /\ n - c = wr.num_items_in_flight + (IF cl.pc = "count" THEN 1 ELSE 0)
    /\ Len(cl.made) = n + Len(wr.pending_items)
    /\ \A i \in 1 .. Len(cl.made) : cl.made[i].key = i
    /\ \A i \in 1 .. Len(wr.pending_items) : wr.pending_items[i].key = n + i

\* Where the items are that were sent and are not confirmed.
Tracked(wr, str, pending, c, n) ==
    /\ wr.stream = 0 => wr.closed \/ c = n
    /\ wr.stream # 0 => Line(str, pending, wr.stream, c, n)

Counted ==
    /\ \A s \in Streams : Small(stream[s].requests)
    /\ \E c, n : /\ Books(client, writer, table.items, c, n)
                 /\ Tracked(writer, stream[writer.stream], table.pending, c, n)

LEMMA BooksSame ==
    ASSUME NEW cl, NEW cl2, NEW wr, NEW wr2, NEW items, NEW items2,
           items \subseteq items2, cl2.made = cl.made,
           cl2.pc = "count" <=> cl.pc = "count",
           wr2.pending_items = wr.pending_items,
           wr2.num_items_in_flight = wr.num_items_in_flight,
           NEW c, NEW n, Books(cl, wr, items, c, n)
    PROVE  Books(cl2, wr2, items2, c, n)
  BY DEF Books

\* A step that has nothing to do with items.
LEMMA QuietStep ==
    ASSUME Counted, table' = table, client'.made = client.made,
           client'.pc = "count" <=> client.pc = "count",
           writer'.pending_items = writer.pending_items,
           writer'.num_items_in_flight = writer.num_items_in_flight,
           \A s \in Streams : Small(stream'[s].requests),
           NEW s, s = writer.stream,
           \/ /\ writer'.stream = s /\ (writer.closed => writer'.closed)
              /\ s # 0 => /\ stream'[s].reactor = stream[s].reactor
                          /\ stream'[s].requests = stream[s].requests
                          /\ stream'[s].ended = stream[s].ended
           \/ writer'.stream = 0 /\ writer'.closed
    PROVE  Counted'
  <1>1. PICK c, n : /\ Books(client, writer, table.items, c, n)
                    /\ Tracked(writer, stream[s], table.pending, c, n)
    BY DEF Counted
  <1>2. Books(client', writer', table'.items, c, n)
    BY <1>1, BooksSame
  <1>3. Tracked(writer', stream'[writer'.stream], table'.pending, c, n)
    <2>1. CASE writer'.stream = 0 /\ writer'.closed
      BY <2>1 DEF Tracked
    <2>2. CASE s = 0 /\ writer'.stream = s /\ (writer.closed => writer'.closed)
      BY <1>1, <2>2 DEF Tracked
    <2>3. CASE /\ s # 0 /\ writer'.stream = s
               /\ stream'[s].reactor = stream[s].reactor
               /\ stream'[s].requests = stream[s].requests
               /\ stream'[s].ended = stream[s].ended
      <3>1. PICK str, str2 : str = stream[s] /\ str2 = stream'[s]
        OBVIOUS
      <3>2. Line(str, table.pending, s, c, n)
        BY <1>1, <2>3, <3>1 DEF Tracked
      <3>3. /\ str2.reactor.wire = str.reactor.wire /\ str2.requests = str.requests
            /\ str2.reactor.responses = str.reactor.responses
            /\ Active(str2) => Active(str)
        BY <2>3, <3>1 DEF Active
      <3>4. Line(str2, table.pending, s, c, n)
        BY <3>2, <3>3, LineSame
      <3> QED
        BY <2>3, <3>1, <3>4 DEF Tracked
    <2> QED
      BY <2>1, <2>2, <2>3
  <1> QED
    BY <1>2, <1>3 DEF Counted

\* The client and the worker leave the streams alone too.
LEMMA StillStep ==
    ASSUME Counted, table' = table, stream' = stream, client'.made = client.made,
           client'.pc = "count" <=> client.pc = "count",
           writer'.pending_items = writer.pending_items,
           writer'.num_items_in_flight = writer.num_items_in_flight,
           \/ writer'.stream = writer.stream /\ (writer.closed => writer'.closed)
           \/ writer'.stream = 0 /\ writer'.closed
    PROVE  Counted'
  <1>1. PICK s : s = writer.stream
    OBVIOUS
  <1>2. \A t \in Streams : Small(stream'[t].requests)
    BY DEF Counted
  <1> QED
    BY <1>1, <1>2, QuietStep, Zenon

LEMMA IdleKeeps ==
    ASSUME IsClient(client), NEW cl, cl = Idle
    PROVE  cl.made = client.made /\ cl.pc = "idle"
  BY IdleFacts

LEMMA ClosedKeeps ==
    ASSUME WriterInv, NEW wr, IsWriter(wr), Closed(wr),
           wr.num_items_in_flight = writer.num_items_in_flight,
           wr.pending_items = writer.pending_items
    PROVE  /\ writer'.stream = wr.stream /\ writer'.closed
           /\ writer'.pending_items = writer.pending_items
           /\ writer'.num_items_in_flight = writer.num_items_in_flight
           /\ client'.made = client.made /\ client'.pc = "idle"
  <1>1. /\ writer' = [wr EXCEPT !.closed = TRUE] /\ client' = Idle
    BY DEF Closed
  <1>2. client'.made = client.made /\ client'.pc = "idle"
    BY <1>1, IdleKeeps DEF WriterInv
  <1>3. /\ writer'.stream = wr.stream /\ writer'.closed
        /\ writer'.pending_items = writer.pending_items
        /\ writer'.num_items_in_flight = writer.num_items_in_flight
    BY <1>1 DEF IsWriter
  <1> QED
    BY <1>2, <1>3

\* Steps of the client and of the worker that send and confirm nothing.
LEMMA CallStep ==
    ASSUME WriterInv, Counted,
           \/ WorkerWakes \/ OldStream \/ Written \/ AppendRow \/ Flush
           \/ FlushConfirmed \/ (\E retry \in BOOLEAN : Close(retry))
           \/ CloseConfirmed \/ CloseFinishes
    PROVE  Counted'
  <1>1. CASE WorkerWakes
    BY <1>1, StillStep DEF WorkerWakes
  <1>2. CASE OldStream
    <2>1. client'.pc = "chunks" /\ client'.made = client.made /\ client.pc = "open"
      BY <1>2, ClientGoes DEF WriterInv, OldStream, Busy
    <2> QED
      BY <1>2, <2>1, StillStep DEF OldStream
  <1>3. CASE Written
    <2>1. client.pc = "items" /\ stream' = stream /\ table' = table
      BY <1>3 DEF Written
    <2>2. client'.pc \in {"idle", "close"} /\ client'.made = client.made
      <3>1. CASE client.call = "close"
        <4>1. client' = [client EXCEPT !.pc = "close"]
          BY <1>3, <3>1 DEF Written
        <4> QED
          BY <4>1, ClientGoes DEF WriterInv
      <3>2. CASE client.call # "close"
        <4>1. client' = Idle
          BY <1>3, <3>2 DEF Written
        <4> QED
          BY <4>1, IdleKeeps DEF WriterInv
      <3> QED
        BY <3>1, <3>2
    <2>3. /\ writer'.pending_items = writer.pending_items
          /\ writer'.num_items_in_flight = writer.num_items_in_flight
          /\ writer'.stream = writer.stream /\ writer'.closed = writer.closed
      <3>1. CASE client.call = "create"
        BY <1>3, <3>1 DEF Written
      <3>2. CASE client.call # "create"
        <4>1. PICK X : writer' = [writer EXCEPT !.streamed = X]
          BY <1>3, <3>2 DEF Written, WriterInv, IsWriter
        <4> QED
          BY <4>1 DEF WriterInv, IsWriter
      <3> QED
        BY <3>1, <3>2
    <2> QED
      BY <2>1, <2>2, <2>3, StillStep
  <1>4. CASE AppendRow
    <2>1. PICK cl, n : n = client.appended + 1 /\ cl = [client EXCEPT !.appended = n]
      OBVIOUS
    <2>2. client' = cl \/ client' = [cl EXCEPT !.pc = "open", !.call = "append"]
      BY <1>4, <2>1 DEF AppendRow, WriterInv, IsClient
    <2>3. client'.made = client.made /\ client'.pc # "count" /\ client.pc = "idle"
      BY <1>4, <2>1, <2>2 DEF AppendRow, WriterInv, IsClient
    <2> QED
      BY <1>4, <2>3, StillStep DEF AppendRow
  <1>5. CASE Flush
    <2>1. \/ client' = [client EXCEPT !.pc = "open", !.call = "flush"]
          \/ client' = [client EXCEPT !.pc = "confirm"]
      BY <1>5 DEF Flush
    <2>2. client'.made = client.made /\ client'.pc # "count" /\ client.pc = "idle"
      BY <1>5, <2>1 DEF Flush, WriterInv, IsClient
    <2> QED
      BY <1>5, <2>2, StillStep DEF Flush
  <1>6. CASE FlushConfirmed
    <2>1. client'.made = client.made /\ client'.pc = "idle" /\ client.pc = "confirm"
      BY <1>6, IdleKeeps DEF FlushConfirmed, WriterInv
    <2> QED
      BY <1>6, <2>1, StillStep DEF FlushConfirmed
  <1>7. ASSUME NEW retry \in BOOLEAN, Close(retry)
        PROVE  Counted'
    <2>1. \/ client' = [client EXCEPT !.pc = "open", !.call = "close", !.retry = retry]
          \/ client' = [client EXCEPT !.pc = "close", !.call = "close"]
      BY <1>7 DEF Close
    <2>2. client'.made = client.made /\ client'.pc # "count" /\ client.pc = "idle"
      BY <1>7, <2>1 DEF Close, WriterInv, IsClient
    <2> QED
      BY <1>7, <2>2, StillStep DEF Close
  <1>8. CASE CloseConfirmed
    <2>1. /\ client'.pc = "close_stop" /\ client'.made = client.made
          /\ client.pc = "close_confirm"
      BY <1>8, ClientGoes DEF WriterInv, CloseConfirmed
    <2>2. /\ writer'.pending_items = writer.pending_items
          /\ writer'.num_items_in_flight = writer.num_items_in_flight
          /\ writer'.stream = writer.stream /\ writer'.closed = writer.closed
      BY <1>8 DEF WriterInv, IsWriter, CloseConfirmed
    <2> QED
      BY <1>8, <2>1, <2>2, StillStep DEF CloseConfirmed
  <1>9. CASE CloseFinishes
    <2>1. PICK st, wr : st = Stopped(writer) /\ wr = [st EXCEPT !.stream = 0]
      OBVIOUS
    <2>2. Closed(wr) /\ stream' = stream /\ table' = table /\ client.pc = "close_stop"
      BY <1>9, <2>1 DEF CloseFinishes
    <2>3. IsWriter(st) /\ st.pending_items = writer.pending_items
          /\ st.num_items_in_flight = writer.num_items_in_flight
      BY <2>1 DEF Stopped, WriterInv, IsWriter
    <2>4. IsWriter(wr) /\ wr.stream = 0 /\ wr.pending_items = writer.pending_items
          /\ wr.num_items_in_flight = writer.num_items_in_flight
      BY <2>1, <2>3 DEF IsWriter
    <2>5. /\ writer'.stream = 0 /\ writer'.closed
          /\ writer'.pending_items = writer.pending_items
          /\ writer'.num_items_in_flight = writer.num_items_in_flight
          /\ client'.made = client.made /\ client'.pc = "idle"
      BY <2>2, <2>4, ClosedKeeps
    <2> QED
      BY <2>2, <2>5, StillStep
  <1> QED
    BY <1>1, <1>2, <1>3, <1>4, <1>5, <1>6, <1>7, <1>8, <1>9

\* A stream that is half-closed.
LEMMA HalfCloseStep ==
    ASSUME WriterInv, Counted, NEW s, s = writer.stream, s \in Streams, s # 0,
           stream[s].open, stream' = HalfClosed(s), table' = table,
           client'.made = client.made, client'.pc # "count", client.pc # "count",
           writer'.pending_items = writer.pending_items,
           writer'.num_items_in_flight = writer.num_items_in_flight,
           writer'.stream = s, writer'.closed = writer.closed
    PROVE  Counted'
  <1>1. PICK str, str2 : str = stream[s] /\ str2 = [str EXCEPT !.writes_done = TRUE]
    OBVIOUS
  <1>2. stream' = [stream EXCEPT ![s] = str2]
    BY <1>1 DEF HalfClosed, WriterInv, ServerInv
  <1>3. IsStream(str)
    BY <1>1 DEF WriterInv, ServerInv, StreamOk
  <1>4. str2.reactor = str.reactor /\ str2.requests = str.requests /\ str2.ended = str.ended
    BY <1>1, <1>3 DEF IsStream
  <1>5. stream'[s] = str2 /\ \A t \in Streams : t # s => stream'[t] = stream[t]
    BY <1>2, StreamChanged DEF WriterInv
  <1>6. ASSUME NEW t \in Streams PROVE Small(stream'[t].requests)
    <2>1. Small(stream[t].requests)
      BY DEF Counted
    <2>2. CASE t = s
      BY <1>1, <1>4, <1>5, <2>1, <2>2, Zenon
    <2>3. CASE t # s
      BY <1>5, <2>1, <2>3, Zenon
    <2> QED
      BY <2>2, <2>3
  <1>7. /\ stream'[s].reactor = stream[s].reactor
        /\ stream'[s].requests = stream[s].requests
        /\ stream'[s].ended = stream[s].ended
    BY <1>1, <1>4, <1>5
  <1> QED
    BY <1>6, <1>7, QuietStep, Zenon

LEMMA CloseStep ==
    ASSUME WriterInv, Counted, StopRequested \/ CloseStream
    PROVE  Counted'
  <1>1. PICK s : s = writer.stream
    OBVIOUS
  <1>2. CASE StopRequested
    <2>1. /\ client.pc = "failed" /\ stream' = HalfClosed(s) /\ table' = table
          /\ writer' = [writer EXCEPT !.stop_requested = TRUE]
          /\ client' = [client EXCEPT !.pc = "stopping"]
      BY <1>1, <1>2 DEF StopRequested
    <2>2. s \in Streams /\ s # 0 /\ stream[s].open
      BY <1>1, <2>1 DEF WriterInv, Connected, IsWriter
    <2>3. client'.made = client.made /\ client'.pc = "stopping"
      BY <2>1, ClientGoes DEF WriterInv, Busy
    <2>4. /\ writer'.pending_items = writer.pending_items
          /\ writer'.num_items_in_flight = writer.num_items_in_flight
          /\ writer'.stream = s /\ writer'.closed = writer.closed
      BY <1>1, <2>1 DEF WriterInv, IsWriter
    <2> QED
      BY <1>1, <2>1, <2>2, <2>3, <2>4, HalfCloseStep
  <1>3. CASE CloseStream /\ s # 0
    <2>1. /\ client.pc = "close" /\ stream' = HalfClosed(s) /\ table' = table
          /\ writer' = writer /\ client' = [client EXCEPT !.pc = "close_confirm"]
      BY <1>1, <1>3 DEF CloseStream
    <2>2. s \in Streams /\ stream[s].open
      BY <1>1, <1>3 DEF WriterInv, Connected, IsWriter
    <2>3. client'.made = client.made /\ client'.pc = "close_confirm"
      BY <2>1, ClientGoes DEF WriterInv, Busy
    <2> QED
      BY <1>1, <1>3, <2>1, <2>2, <2>3, HalfCloseStep
  <1>4. CASE CloseStream /\ s = 0
    <2>1. client.pc = "close" /\ Closed(writer) /\ stream' = stream /\ table' = table
      BY <1>1, <1>4 DEF CloseStream
    <2>2. /\ writer'.stream = s /\ writer'.closed
          /\ writer'.pending_items = writer.pending_items
          /\ writer'.num_items_in_flight = writer.num_items_in_flight
          /\ client'.made = client.made /\ client'.pc = "idle"
      BY <1>1, <2>1, ClosedKeeps DEF WriterInv
    <2> QED
      BY <1>1, <2>1, <2>2, StillStep
  <1> QED
    BY <1>2, <1>3, <1>4

LEMMA SmallTail ==
    ASSUME NEW qs, IsSeq(qs), qs # << >>, Small(qs)
    PROVE  Small(Tail(qs))
  <1>1. PICK n, rest : n = Len(qs) /\ rest = Tail(qs)
    OBVIOUS
  <1>2. n \in Nat /\ DOMAIN qs = 1 .. n
    BY <1>1, IsSeqFacts
  <1>3. IsSeq(rest) /\ Len(rest) = n - 1 /\ \A i \in 1 .. n - 1 : rest[i] = qs[i + 1]
    BY <1>1, TailSeq
  <1>4. DOMAIN rest = 1 .. n - 1
    BY <1>3, IsSeqFacts
  <1>5. ASSUME NEW i \in DOMAIN rest PROVE Len(rest[i].items) <= 1
    <2>1. PICK j : j = i + 1
      OBVIOUS
    <2>2. j \in DOMAIN qs /\ rest[i] = qs[j]
      BY <1>2, <1>3, <1>4, <2>1
    <2> QED
      BY <2>2 DEF Small
  <1> QED
    BY <1>1, <1>5 DEF Small

LEMMA SmallAppend ==
    ASSUME NEW qs, IsSeq(qs), Small(qs), NEW q, Len(q.items) <= 1
    PROVE  Small(Append(qs, q))
  <1>1. PICK n, all : n = Len(qs) /\ all = Append(qs, q)
    OBVIOUS
  <1>2. n \in Nat /\ DOMAIN qs = 1 .. n
    BY <1>1, IsSeqFacts
  <1>3. /\ IsSeq(all) /\ Len(all) = n + 1 /\ all[n + 1] = q
        /\ \A i \in 1 .. n : all[i] = qs[i]
    BY <1>1, AppendSeq
  <1>4. DOMAIN all = 1 .. n + 1
    BY <1>3, IsSeqFacts
  <1>5. ASSUME NEW i \in DOMAIN all PROVE Len(all[i].items) <= 1
    <2>1. i \in DOMAIN qs \/ i = n + 1
      BY <1>2, <1>4
    <2> QED
      BY <1>2, <1>3, <2>1 DEF Small
  <1> QED
    BY <1>1, <1>5 DEF Small

LEMMA LineBounds ==
    ASSUME NEW str, IsStream(str), NEW pending, NEW s, NEW c, NEW n \in Int,
           Line(str, pending, s, c, n)
    PROVE  c \in Int /\ c <= n
  <1>1. PICK m \in Int : m <= n /\ Contig(str.reactor.wire, c, m)
    BY DEF Line
  <1>2. IsSeq(str.reactor.wire)
    BY SeqIsSeq DEF IsStream, IsReactor
  <1>3. c \in Int /\ c <= m
    BY <1>1, <1>2, ContigBounds
  <1> QED
    BY <1>1, <1>3

\* What is under way on every stream after a step of the transport, of a
\* server or of the table.
Moves ==
    \A s \in Streams :
        /\ Small(stream'[s].requests)
        /\ \A c, n : n \in Int /\ Line(stream[s], table.pending, s, c, n) =>
                         Line(stream'[s], table'.pending, s, c, n)

\* A step of stream t only.
LEMMA OneMoves ==
    ASSUME Counted, NEW t \in Streams, table' = table,
           \A s \in Streams : s # t => stream'[s] = stream[s],
           Small(stream'[t].requests),
           ASSUME NEW c, NEW n \in Int, Line(stream[t], table.pending, t, c, n)
           PROVE  Line(stream'[t], table'.pending, t, c, n)
    PROVE  Moves
  <1>1. ASSUME NEW s \in Streams
        PROVE  Small(stream'[s].requests)
    BY DEF Counted
  <1>2. ASSUME NEW s \in Streams, NEW c, NEW n \in Int,
               Line(stream[s], table.pending, s, c, n)
        PROVE  Line(stream'[s], table'.pending, s, c, n)
    <2>1. CASE s = t
      BY <1>2, <2>1
    <2>2. CASE s # t
      BY <1>2, <2>2
    <2> QED
      BY <2>1, <2>2
  <1> QED
    BY <1>1, <1>2 DEF Moves

LEMMA ReadsMoves ==
    ASSUME ServerInv, Counted, NEW t \in Streams, ServerReads(t)
    PROVE  Moves
  <1>1. /\ \A s \in Streams : s # t => stream'[s] = stream[s]
        /\ TakesRequest(t, stream[t], stream'[t], table.pending, table'.pending)
    BY ReadsStep
  <1>2. PICK old, new : old = table.pending /\ new = table'.pending
    OBVIOUS
  <1>3. IsSeq(old) /\ \A s \in Streams : IsStream(stream[s])
    BY <1>2 DEF ServerInv, TableOk, StreamOk
  <1>4. PICK str, str2 : str = stream[t] /\ str2 = stream'[t]
    OBVIOUS
  <1>5. Small(str.requests) /\ IsSeq(str.requests) /\ IsStream(str)
    BY <1>3, <1>4 DEF Counted, IsStream
  <1>6. TakesRequest(t, str, str2, old, new)
    BY <1>1, <1>2, <1>4
  <1>7. Small(str2.requests)
    BY <1>5, <1>6, SmallTail DEF TakesRequest
  <1>8. ASSUME NEW s \in Streams
        PROVE  Small(stream'[s].requests)
    BY <1>1, <1>4, <1>7 DEF Counted
  <1>9. ASSUME NEW s \in Streams, NEW c, NEW n \in Int,
               Line(stream[s], table.pending, s, c, n)
        PROVE  Line(stream'[s], table'.pending, s, c, n)
    <2>1. CASE s = t
      <3>1. Line(str, old, t, c, n)
        BY <1>2, <1>4, <1>9, <2>1
      <3>2. Line(str2, new, t, c, n)
        BY <1>3, <1>5, <1>6, <3>1, LineTaken
      <3> QED
        BY <1>2, <1>4, <2>1, <3>2
    <2>2. CASE s # t
      <3>1. PICK oth : oth = stream[s]
        OBVIOUS
      <3>2. Line(oth, old, s, c, n) /\ IsStream(oth)
        BY <1>2, <1>3, <1>9, <3>1
      <3>3. Line(oth, new, s, c, n)
        BY <1>3, <1>5, <1>6, <2>2, <3>2, LineAside, Zenon
      <3> QED
        BY <1>1, <1>2, <2>2, <3>1, <3>3
    <2> QED
      BY <2>1, <2>2
  <1> QED
    BY <1>8, <1>9 DEF Moves

LEMMA ReadEndsMoves ==
    ASSUME ServerInv, Counted, NEW t \in Streams, ServerReadEnds(t)
    PROVE  Moves
  <1>1. PICK str, r : str = stream[t] /\ r = str.reactor
    OBVIOUS
  <1>2. PICK q : q = OnReadEnd(r)
    OBVIOUS
  <1>3. PICK str2 : str2 = [str EXCEPT !.reactor = q]
    OBVIOUS
  <1>4. IsStream(str) /\ IsReactor(r) /\ Small(str.requests)
    BY <1>1 DEF ServerInv, StreamOk, IsStream, Counted
  <1>5. stream' = [stream EXCEPT ![t] = str2] /\ table' = table
    BY <1>1, <1>2, <1>3 DEF ServerReadEnds, ServerInv
  <1>6. /\ IsReactor(q) /\ q.wire = r.wire
        /\ r.is_finished => q.is_finished
        /\ ~q.is_finished => q.responses = r.responses
    BY <1>2, <1>4, ReadEndFacts
  <1>7. str2.reactor = q /\ str2.requests = str.requests /\ str2.ended = str.ended
    BY <1>3, <1>4, <1>6, NewReactor
  <1>8. stream'[t] = str2 /\ \A s \in Streams : s # t => stream'[s] = stream[s]
    BY <1>5, StreamChanged
  <1>9. /\ str2.reactor.wire = str.reactor.wire
        /\ Active(str2) => /\ Active(str) /\ str2.requests = str.requests
                           /\ str2.reactor.responses = str.reactor.responses
    BY <1>1, <1>6, <1>7 DEF Active
  <1>10. ASSUME NEW c, NEW n \in Int, Line(str, table.pending, t, c, n)
         PROVE  Line(str2, table.pending, t, c, n)
    BY <1>9, <1>10, LineSame
  <1>11. ASSUME NEW c, NEW n \in Int, Line(stream[t], table.pending, t, c, n)
         PROVE  Line(stream'[t], table'.pending, t, c, n)
    BY <1>1, <1>5, <1>8, <1>10, <1>11
  <1> QED
    BY <1>4, <1>5, <1>7, <1>8, <1>11, OneMoves

LEMMA WriteDoneMoves ==
    ASSUME ServerInv, Counted, NEW t \in Streams, ServerWriteDone(t)
    PROVE  Moves
  <1>1. PICK str, r, ok : str = stream[t] /\ r = str.reactor /\ ok = (str.ended = "no")
    OBVIOUS
  <1>2. PICK q, rest : q = OnWriteDone(r, ok) /\ rest = Tail(r.responses)
    OBVIOUS
  <1>3. PICK str2 : str2 = [str EXCEPT !.reactor = q]
    OBVIOUS
  <1>4. IsStream(str) /\ IsReactor(r) /\ Small(str.requests) /\ StreamOk(str, table.items)
        /\ ok \in BOOLEAN /\ IsSeq(table.pending)
    BY <1>1 DEF ServerInv, StreamOk, IsStream, Counted, TableOk
  <1>5. stream' = [stream EXCEPT ![t] = str2] /\ table' = table /\ r.writes > 0
    BY <1>1, <1>2, <1>3 DEF ServerWriteDone, ServerInv
  <1>6. ~r.is_finished => r.responses # << >>
    BY <1>1, <1>4, <1>5 DEF StreamOk, WritesMatch
  <1>7. /\ IsReactor(q)
        /\ r.is_finished => q.is_finished /\ q.wire = r.wire
        /\ ~r.is_finished /\ q.is_finished => q.wire = r.wire
        /\ ~q.is_finished =>
              /\ q.responses = rest
              /\ q.wire = IF rest = << >> THEN r.wire ELSE Append(r.wire, Head(rest))
    BY <1>2, <1>4, <1>6, WriteDoneFacts
  <1>8. str2.reactor = q /\ str2.requests = str.requests /\ str2.ended = str.ended
    BY <1>3, <1>4, <1>7, NewReactor
  <1>9. stream'[t] = str2 /\ \A s \in Streams : s # t => stream'[s] = stream[s]
    BY <1>5, StreamChanged
  <1>10. str.ended # "no" => r.is_finished
    BY <1>1, <1>4 DEF StreamOk, EndsRightly
  <1>11. /\ Active(str2) => Active(str)
         /\ Active(str) => str.reactor.responses # << >>
         /\ Active(str2) => /\ str2.reactor.responses = rest
                            /\ str2.reactor.wire =
                                  IF rest = << >> THEN str.reactor.wire
                                  ELSE Append(str.reactor.wire, Head(rest))
         /\ ~Active(str2) => str2.reactor.wire = str.reactor.wire
    BY <1>1, <1>6, <1>7, <1>8, <1>10 DEF Active, IsReactor
  <1>12. rest = Tail(str.reactor.responses)
    BY <1>1, <1>2
  <1>13. ASSUME NEW c, NEW n \in Int, Line(str, table.pending, t, c, n)
         PROVE  Line(str2, table.pending, t, c, n)
    BY <1>4, <1>8, <1>11, <1>12, <1>13, LineWritten, Zenon
  <1>14. ASSUME NEW c, NEW n \in Int, Line(stream[t], table.pending, t, c, n)
         PROVE  Line(stream'[t], table'.pending, t, c, n)
    BY <1>1, <1>5, <1>9, <1>13, <1>14
  <1> QED
    BY <1>4, <1>5, <1>8, <1>9, <1>14, OneMoves

LEMMA BreakMoves ==
    ASSUME ServerInv, Counted, NEW t \in Streams, Break(t)
    PROVE  Moves
  <1>1. PICK how \in BreakStatuses : stream' = [stream EXCEPT ![t] = Ended(stream[t], how)]
    BY DEF Break, ServerInv
  <1>2. how # "no" /\ table' = table
    BY InsertStreamAssumption DEF Break
  <1>3. PICK str, r, empty : str = stream[t] /\ r = str.reactor /\ empty = << >>
    OBVIOUS
  <1>4. PICK q : q = OnCancel([r EXCEPT !.wire = << >>])
    OBVIOUS
  <1>5. PICK str2 : str2 = [str EXCEPT !.ended = how, !.requests = empty, !.reactor = q]
    OBVIOUS
  <1>6. IsStream(str) /\ IsReactor(r)
    BY <1>3 DEF ServerInv, StreamOk, IsStream
  <1>7. stream' = [stream EXCEPT ![t] = str2]
    <2>1. Ended(str, how) = str2
      BY <1>3, <1>4, <1>5, <1>6 DEF Ended, IsStream
    <2> QED
      BY <1>1, <1>3, <2>1
  <1>8. q.wire = << >>
    BY <1>4, <1>6, CancelFacts
  <1>9. str2.reactor = q /\ str2.requests = empty /\ str2.ended = how
    BY <1>5, <1>6 DEF IsStream
  <1>10. stream'[t] = str2 /\ \A s \in Streams : s # t => stream'[s] = stream[s]
    BY <1>7, StreamChanged
  <1>11. ~Active(str2) /\ str2.reactor.wire = << >>
    BY <1>2, <1>8, <1>9 DEF Active
  <1>12. Small(empty)
    BY <1>3 DEF Small
  <1>13. ASSUME NEW c, NEW n \in Int, Line(str, table.pending, t, c, n)
         PROVE  Line(str2, table.pending, t, c, n)
    <2>1. c \in Int /\ c <= n
      BY <1>6, <1>13, LineBounds
    <2> QED
      BY <1>11, <2>1, LineBroken
  <1>14. ASSUME NEW c, NEW n \in Int, Line(stream[t], table.pending, t, c, n)
         PROVE  Line(stream'[t], table'.pending, t, c, n)
    BY <1>2, <1>3, <1>10, <1>13, <1>14
  <1> QED
    BY <1>2, <1>9, <1>10, <1>12, <1>14, OneMoves

LEMMA InsertsMoves ==
    ASSUME ServerInv, Counted, TableInserts
    PROVE  Moves
  <1>1. PICK x, t : x = Head(table.pending) /\ t = x.stream
    OBVIOUS
  <1>2. TakesInsert(x)
    BY <1>1, InsertsStep
  <1>3. PICK str, str2 : str = stream[t] /\ str2 = stream'[t]
    OBVIOUS
  <1>4. PICK pending : pending = table.pending
    OBVIOUS
  <1>5. /\ pending # << >> /\ x = Head(pending) /\ table'.pending = Tail(pending)
        /\ t \in Streams /\ x.key \in Nat /\ IsSeq(pending)
        /\ \A s \in Streams : s # t => stream'[s] = stream[s]
        /\ str2.requests = str.requests /\ str2.ended = str.ended
        /\ Completed(str.reactor, x.key, str2.reactor)
    BY <1>1, <1>2, <1>3, <1>4 DEF TakesInsert, ServerInv, TableOk
  <1>6. IsStream(str) /\ (str.ended # "no" => str.reactor.is_finished)
    BY <1>3, <1>5 DEF ServerInv, StreamOk, EndsRightly
  <1>7. ASSUME NEW s \in Streams PROVE Small(stream'[s].requests)
    BY <1>3, <1>5 DEF Counted
  <1>8. ASSUME NEW s \in Streams, NEW c, NEW n \in Int,
               Line(stream[s], table.pending, s, c, n)
        PROVE  Line(stream'[s], table'.pending, s, c, n)
    <2>1. CASE s = t
      <3>1. Line(str, pending, t, c, n)
        BY <1>3, <1>4, <1>8, <2>1
      <3>2. Line(str2, Tail(pending), t, c, n)
        BY <1>1, <1>5, <1>6, <3>1, LineInserted, Zenon
      <3> QED
        BY <1>3, <1>5, <2>1, <3>2
    <2>2. CASE s # t
      <3>1. PICK oth : oth = stream[s]
        OBVIOUS
      <3>2. Line(oth, pending, s, c, n) /\ Head(pending).stream # s
        BY <1>1, <1>4, <1>8, <2>2, <3>1
      <3>3. Line(oth, Tail(pending), s, c, n)
        BY <1>5, <3>2, LinePassed
      <3> QED
        BY <1>5, <2>2, <3>1, <3>3
    <2> QED
      BY <2>1, <2>2
  <1> QED
    BY <1>7, <1>8 DEF Moves

LEMMA ServerCounts ==
    ASSUME WriterInv, Counted, ServerNext, UNCHANGED <<writer, worker, client, chunker>>
    PROVE  Counted'
  <1>1. Moves
    BY ReadsMoves, ReadEndsMoves, WriteDoneMoves, BreakMoves, InsertsMoves
       DEF WriterInv, ServerNext
  <1>2. table.items \subseteq table'.items
    BY ServerStep DEF WriterInv
  <1>3. PICK c, n, s : /\ Books(client, writer, table.items, c, n) /\ s = writer.stream
                       /\ Tracked(writer, stream[s], table.pending, c, n)
    BY DEF Counted
  <1>4. Books(client', writer', table'.items, c, n)
    BY <1>2, <1>3, BooksSame
  <1>5. Tracked(writer, stream'[s], table'.pending, c, n)
    <2>1. CASE s = 0
      BY <1>3, <2>1 DEF Tracked
    <2>2. CASE s # 0
      <3>1. s \in Streams
        BY <1>3, <2>2 DEF WriterInv, IsWriter
      <3>2. Line(stream[s], table.pending, s, c, n) /\ n \in Int
        BY <1>3, <2>2 DEF Tracked, Books
      <3>3. Line(stream'[s], table'.pending, s, c, n)
        BY <1>1, <3>1, <3>2 DEF Moves
      <3> QED
        BY <1>3, <2>2, <3>3 DEF Tracked
    <2> QED
      BY <2>1, <2>2
  <1> QED
    BY <1>1, <1>3, <1>4, <1>5 DEF Counted, Moves

\* The worker reads a response.
LEMMA ReadCounts ==
    ASSUME WriterInv, Counted, WorkerReads
    PROVE  Counted'
  <1>1. PICK s, str, w : s = writer.stream /\ str = stream[s] /\ w = str.reactor.wire
    OBVIOUS
  <1>2. worker = "read" /\ client' = client /\ table' = table
    BY DEF WorkerReads
  <1>3. s \in Streams /\ s # 0 /\ str.open /\ IsStream(str) /\ IsReactor(str.reactor)
    BY <1>1, <1>2 DEF WriterInv, Connected, IsWriter, ServerInv, StreamOk, IsStream
  <1>4. CASE writer' = writer /\ stream' = stream
    BY <1>2, <1>4, StillStep
  <1>5. CASE /\ CanRead(s) /\ stream' = ReadFrom(s)
             /\ writer' = [writer EXCEPT !.num_items_in_flight =
                               @ - ConfirmedBy(Response(s))]
    <2>1. PICK h, rest, k : h = Head(w) /\ rest = Tail(w) /\ k = Len(h)
      OBVIOUS
    <2>2. PICK c, n : /\ Books(client, writer, table.items, c, n)
                      /\ Tracked(writer, str, table.pending, c, n)
      BY <1>1 DEF Counted
    <2>3. w # << >> /\ w \in Seq(Seq(Nat)) /\ h \in Seq(Nat)
      <3>1. w # << >> /\ w \in Seq(Seq(Nat))
        BY <1>1, <1>3, <1>5 DEF CanRead, IsReactor
      <3> QED
        BY <2>1, <3>1
    <2>4. PICK q, str2 : /\ q = [str.reactor EXCEPT !.wire = rest]
                         /\ str2 = [str EXCEPT !.reactor = q]
      OBVIOUS
    <2>5. stream' = [stream EXCEPT ![s] = str2]
      BY <1>1, <1>5, <2>1, <2>4 DEF ReadFrom, WriterInv, ServerInv
    <2>6. /\ q.wire = rest /\ q.is_finished = str.reactor.is_finished
          /\ q.responses = str.reactor.responses
      BY <1>3, <2>4 DEF IsReactor
    <2>7. str2.reactor = q /\ str2.requests = str.requests /\ str2.ended = str.ended
      BY <1>3, <2>4 DEF IsStream
    <2>8. stream'[s] = str2 /\ \A t \in Streams : t # s => stream'[t] = stream[t]
      BY <1>3, <2>5, StreamChanged DEF WriterInv
    <2>9. Line(str, table.pending, s, c, n) /\ n \in Int /\ c \in Nat
      BY <1>1, <1>3, <2>2 DEF Tracked, Books
    <2>10. PICK d \in Int : /\ Block(h, c, d) /\ d <= n
                            /\ Line(str2, table.pending, s, d, n)
      <3>1. /\ str2.reactor.wire = Tail(w) /\ str2.reactor.is_finished = str.reactor.is_finished
            /\ str2.reactor.responses = str.reactor.responses
        BY <2>1, <2>6, <2>7
      <3>2. \E d \in Int : /\ Block(Head(w), c, d) /\ d <= n
                           /\ Line(str2, table.pending, s, d, n)
        BY <1>1, <1>3, <2>3, <2>7, <2>9, <3>1, LineConfirmed, Zenon
      <3> QED
        BY <2>1, <3>2
    <2>11. /\ k = d - c /\ c <= d /\ \A j \in 1 .. k : h[j] = c + j
      BY <2>1, <2>10 DEF Block
    <2>12. d \in Nat
      BY <2>9, <2>10, <2>11
    <2>13. 1 .. d \subseteq table.items
      <3>1. ToSet(h) \subseteq table.items
        <4>1. ToSet(Response(s)) \subseteq table.items
          BY <1>1, <1>2, <1>3, <1>5, ReadFromStep DEF WriterInv
        <4> QED
          BY <1>1, <2>1, <4>1 DEF Response
      <3>2. ASSUME NEW i \in 1 .. d PROVE i \in table.items
        <4>1. CASE i <= c
          <5>1. i \in 1 .. c
            BY <2>9, <4>1
          <5> QED
            BY <2>2, <5>1 DEF Books
        <4>2. CASE ~(i <= c)
          <5>1. PICK j : j = i - c
            OBVIOUS
          <5>2. j \in 1 .. k /\ c + j = i
            BY <2>9, <2>11, <2>12, <4>2, <5>1
          <5>3. h[j] = i
            BY <2>11, <5>2
          <5>4. i \in ToSet(h)
            BY <2>1, <2>3, <5>2, <5>3, SeqIsSeq, IsSeqFacts
          <5> QED
            BY <3>1, <5>4
        <4> QED
          BY <4>1, <4>2
      <3> QED
        BY <3>2
    <2>14. PICK m : m = writer.num_items_in_flight - k
      OBVIOUS
    <2>15. writer' = [writer EXCEPT !.num_items_in_flight = m]
      BY <1>1, <1>5, <2>1, <2>14 DEF ConfirmedBy, Response, WriterInv, IsWriter
    <2>16. /\ writer'.num_items_in_flight = m /\ writer'.stream = s
           /\ writer'.pending_items = writer.pending_items
      BY <1>1, <2>15 DEF WriterInv, IsWriter
    <2>17. m \in Int /\ n - d = m + (IF client.pc = "count" THEN 1 ELSE 0)
      <3>1. PICK u : u = IF client.pc = "count" THEN 1 ELSE 0
        OBVIOUS
      <3>2. /\ writer.num_items_in_flight \in Int /\ n - c = writer.num_items_in_flight + u
            /\ u \in Int
        BY <2>2, <3>1 DEF Books
      <3>3. m \in Int /\ n - d = m + u
        BY <2>9, <2>10, <2>11, <2>14, <3>2
      <3> QED
        BY <3>1, <3>3
    <2>18. Books(client', writer', table'.items, d, n)
      BY <1>2, <2>2, <2>10, <2>12, <2>13, <2>16, <2>17 DEF Books
    <2>19. Tracked(writer', stream'[writer'.stream], table'.pending, d, n)
      BY <1>2, <1>3, <2>8, <2>10, <2>16 DEF Tracked
    <2>20. ASSUME NEW t \in Streams PROVE Small(stream'[t].requests)
      <3>1. Small(stream[t].requests)
        BY DEF Counted
      <3> QED
        BY <1>1, <2>7, <2>8, <3>1
    <2> QED
      BY <2>18, <2>19, <2>20 DEF Counted
  <1> QED
    BY <1>1, <1>4, <1>5 DEF WorkerReads

\* Nothing is under way on a stream that was not in use.
LEMMA NothingUnderWay ==
    ASSUME ServerInv, NEW s \in Streams, ~stream[s].open, NEW n \in Int,
           NEW str2, str2.reactor = stream[s].reactor,
           str2.requests = stream[s].requests
    PROVE  Line(str2, table.pending, s, n, n)
  <1>1. PICK pending, f, empty : /\ pending = table.pending /\ empty = << >>
                                 /\ f = InsertKeys(pending, s)
    OBVIOUS
  <1>2. stream[s] = UnusedStream
    BY DEF ServerInv, StreamOk
  <1>3. UnusedStream.reactor.wire = empty /\ UnusedStream.requests = empty
        /\ UnusedStream.reactor.responses = empty
    <2>1. PICK r0 : r0 = [read_in_flight |-> FALSE, still_reading |-> TRUE,
                          is_finished |-> FALSE, responses |-> empty, writes |-> 0,
                          sending |-> empty, wire |-> empty, status |-> None,
                          check_failed |-> FALSE, chunks |-> {}]
      OBVIOUS
    <2>2. empty \in Seq(Seq(Nat))
      BY <1>1
    <2>3. IsReactor(r0) /\ r0.wire = empty /\ r0.responses = empty
      BY <2>1, <2>2 DEF IsReactor
    <2>4. PICK r1 : r1 = MaybeStartRead(r0)
      OBVIOUS
    <2>5. r1.wire = empty /\ r1.responses = empty
      BY <2>3, <2>4, MaybeStartReadFacts
    <2>6. NewInsertReactor = r1
      BY <1>1, <2>1, <2>4 DEF NewInsertReactor
    <2>7. UnusedStream = [open |-> FALSE, requests |-> empty, writes_done |-> FALSE,
                          ended |-> "no", reactor |-> r1]
      BY <1>1, <2>6 DEF UnusedStream
    <2>8. UnusedStream.reactor = r1 /\ UnusedStream.requests = empty
      BY <2>7
    <2> QED
      BY <2>5, <2>8
  <1>4. str2.reactor.wire = empty /\ str2.requests = empty /\ str2.reactor.responses = empty
    BY <1>2, <1>3
  <1>5. Contig(empty, n, n)
    BY <1>1, ContigEmpty
  <1>6. RequestKeys(empty) = empty /\ Unsent(empty) = empty
    <2>1. Len(empty) = 0 /\ IsSeq(empty)
      BY <1>1, EmptyIsSeq
    <2>2. IsSeq(RequestKeys(empty)) /\ Len(RequestKeys(empty)) = 0
      BY <2>1, RequestKeysFacts
    <2>3. ~(Len(RequestKeys(empty)) > 0)
      BY <2>2
    <2>4. RequestKeys(empty) # << >> <=> Len(RequestKeys(empty)) > 0
      BY <2>2, IsSeqFacts
    <2> QED
      BY <1>1, <2>3, <2>4 DEF Unsent
  <1>7. IsSeq(pending) /\ \A i \in DOMAIN pending : pending[i].stream # s
    BY <1>1 DEF ServerInv, TableOk
  <1>8. PICK l : l = Len(pending)
    OBVIOUS
  <1>9. l \in Nat /\ DOMAIN pending = 1 .. l
    BY <1>7, <1>8, IsSeqFacts
  <1>10. IsSeq(f) /\ Len(f) = l /\ \A i \in 1 .. l : f[i] = KeyIf(pending[i], s)
    BY <1>1, <1>7, <1>8, InsertKeysFacts
  <1>11. \A i \in 1 .. l : f[i] = empty
    BY <1>1, <1>7, <1>9, <1>10 DEF KeyIf
  <1>12. Block(empty, n, n)
    BY <1>1, EmptyBlock
  <1>13. Contig(f, n, n)
    <2>1. PICK W : W = [i \in 0 .. l |-> n]
      OBVIOUS
    <2>2. \A i \in 0 .. l : W[i] = n
      BY <2>1
    <2>3. 0 \in 0 .. l /\ l \in 0 .. l /\ \A i \in 1 .. l : i - 1 \in 0 .. l /\ i \in 0 .. l
      BY <1>9
    <2>4. W[0] = n /\ W[l] = n
      BY <2>2, <2>3
    <2>5. \A i \in 1 .. l : Block(f[i], W[i - 1], W[i])
      BY <1>11, <1>12, <2>2, <2>3
    <2>6. /\ \A i \in 0 .. l : W[i] \in Int
          /\ \A i, j \in 0 .. l : i <= j => W[i] <= W[j]
      BY <2>2
    <2> QED
      BY <1>10, <2>4, <2>5, <2>6 DEF Contig
  <1> QED
    BY <1>1, <1>4, <1>5, <1>6, <1>13 DEF Line

LEMMA OpenCounts ==
    ASSUME WriterInv, Counted, OpenStream
    PROVE  Counted'
  <1>1. PICK t : t = NextStream
    OBVIOUS
  <1>2. /\ client.pc = "open" /\ writer.stream = 0 /\ Unopened # {}
        /\ stream' = Opened(t) /\ table' = table
        /\ writer' = [writer EXCEPT !.stream = t, !.streamed = {}]
        /\ client' = [client EXCEPT !.pc = "chunks"]
    BY <1>1 DEF OpenStream, StreamedOnNew
  <1>3. t \in Streams /\ ~stream[t].open /\ ~writer.closed
    BY <1>1, <1>2, NextStreamIsNew DEF WriterInv, PendingOk, Busy
  <1>4. PICK str, str2 : str = stream[t] /\ str2 = [str EXCEPT !.open = TRUE]
    OBVIOUS
  <1>5. stream' = [stream EXCEPT ![t] = str2] /\ IsStream(str)
    BY <1>2, <1>3, <1>4 DEF Opened, WriterInv, ServerInv, StreamOk
  <1>6. str2.reactor = str.reactor /\ str2.requests = str.requests
    BY <1>4, <1>5 DEF IsStream
  <1>7. stream'[t] = str2 /\ \A s \in Streams : s # t => stream'[s] = stream[s]
    BY <1>3, <1>5, StreamChanged DEF WriterInv
  <1>8. PICK c, n : /\ Books(client, writer, table.items, c, n)
                    /\ Tracked(writer, stream[0], table.pending, c, n)
    BY <1>2 DEF Counted
  <1>9. c = n /\ n \in Int
    BY <1>2, <1>3, <1>8 DEF Tracked, Books
  <1>10. client'.made = client.made /\ client'.pc = "chunks"
    BY <1>2, ClientGoes DEF WriterInv, Busy
  <1>11. /\ writer'.pending_items = writer.pending_items /\ writer'.stream = t
         /\ writer'.num_items_in_flight = writer.num_items_in_flight /\ t # 0
    BY <1>2, <1>3, InsertStreamAssumption DEF WriterInv, IsWriter
  <1>12. Books(client', writer', table'.items, c, n)
    <2>1. client'.pc # "count" /\ client.pc # "count" /\ table.items \subseteq table'.items
      BY <1>2, <1>10
    <2> QED
      BY <1>8, <1>10, <1>11, <2>1, BooksSame, Zenon
  <1>13. Line(str2, table.pending, t, c, n)
    BY <1>3, <1>4, <1>6, <1>9, NothingUnderWay DEF WriterInv
  <1>14. Tracked(writer', stream'[writer'.stream], table'.pending, c, n)
    BY <1>2, <1>7, <1>11, <1>13 DEF Tracked
  <1>15. ASSUME NEW s \in Streams PROVE Small(stream'[s].requests)
    <2>1. Small(stream[s].requests)
      BY DEF Counted
    <2> QED
      BY <1>4, <1>6, <1>7, <2>1
  <1> QED
    BY <1>12, <1>14, <1>15 DEF Counted

\* A request that is sent, to a server that still gets it or to none.
LEMMA SentMoves ==
    ASSUME WriterInv, Counted, NEW s \in Streams, stream[s].open, NEW q,
           IsRequest(q), stream' = Sent(s, q), table' = table, Len(q.items) <= 1
    PROVE  /\ \A t \in Streams : Small(stream'[t].requests)
           /\ \A c : \A n, n2 \in Int :
                 /\ Line(stream[s], table.pending, s, c, n) /\ n <= n2
                 /\ Block(Asked(q), n, n2)
                 => Line(stream'[s], table.pending, s, c, n2)
  <1>1. PICK str : str = stream[s]
    OBVIOUS
  <1>2. IsStream(str) /\ Small(str.requests) /\ IsSeq(str.requests)
    BY <1>1 DEF WriterInv, ServerInv, StreamOk, IsStream, Counted
  <1>3. CASE ~Live(s)
    <2>1. stream' = stream /\ ~Active(str)
      BY <1>1, <1>3 DEF Sent, Live, Active
    <2>2. ASSUME NEW c, NEW n \in Int, NEW n2 \in Int, n <= n2,
                 Line(str, table.pending, s, c, n)
          PROVE  Line(str, table.pending, s, c, n2)
      BY <2>1, <2>2, LineStopped
    <2> QED
      BY <1>1, <2>1, <2>2 DEF Counted
  <1>4. CASE Live(s)
    <2>1. PICK qs : qs = Append(str.requests, q)
      OBVIOUS
    <2>2. PICK str2 : str2 = [str EXCEPT !.requests = qs]
      OBVIOUS
    <2>3. stream' = [stream EXCEPT ![s] = str2]
      BY <1>1, <1>4, <2>1, <2>2 DEF Sent, WriterInv, ServerInv
    <2>4. str2.reactor = str.reactor /\ str2.requests = qs /\ str2.ended = str.ended
      BY <1>2, <2>2 DEF IsStream
    <2>5. stream'[s] = str2 /\ \A t \in Streams : t # s => stream'[t] = stream[t]
      BY <2>3, StreamChanged DEF WriterInv
    <2>6. Small(qs)
      BY <1>2, <2>1, SmallAppend
    <2>7. ASSUME NEW t \in Streams PROVE Small(stream'[t].requests)
      <3>1. Small(stream[t].requests)
        BY DEF Counted
      <3> QED
        BY <2>4, <2>5, <2>6, <3>1
    <2>8. ASSUME NEW c, NEW n \in Int, NEW n2 \in Int, n <= n2,
                 Line(str, table.pending, s, c, n), Block(Asked(q), n, n2)
          PROVE  Line(str2, table.pending, s, c, n2)
      BY <1>2, <2>1, <2>4, <2>8, LineSent, Zenon
    <2> QED
      BY <1>1, <2>5, <2>7, <2>8
  <1> QED
    BY <1>3, <1>4

LEMMA ChunksCount ==
    ASSUME WriterInv, Counted, SendChunks
    PROVE  Counted'
  <1>1. PICK s, str : s = writer.stream /\ str = stream[s]
    OBVIOUS
  <1>2. client.pc = "chunks" /\ table' = table
    BY DEF SendChunks
  <1>3. s \in Streams /\ s # 0 /\ str.open
    BY <1>1, <1>2 DEF WriterInv, Connected, IsWriter
  <1>4. CASE \/ client' = [client EXCEPT !.pc = "failed"] /\ UNCHANGED <<writer, stream>>
             \/ \E q : /\ client' = [client EXCEPT !.pc = "items", !.request = q]
                       /\ UNCHANGED <<writer, stream>>
    <2>1. client'.pc \in {"failed", "items"} /\ client'.made = client.made
          /\ stream' = stream /\ writer' = writer
      BY <1>4 DEF WriterInv, IsClient
    <2>2. client'.pc # "count" /\ client.pc # "count"
      BY <1>2, <2>1
    <2> QED
      BY <1>2, <2>1, <2>2, StillStep
  <1>5. ASSUME NEW chunks, NEW q, q = Request(chunks, << >>, {}), stream' = Sent(s, q),
               writer' = [writer EXCEPT !.streamed = @ \cup q.chunks], client' = client
        PROVE  Counted'
    <2>1. IsRequest(q) /\ q.items = << >>
      BY <1>5, PlainFacts
    <2>2. Len(q.items) <= 1 /\ Asked(q) = << >>
      BY <2>1, EmptyIsSeq DEF Asked
    <2>3. PICK c, n : /\ Books(client, writer, table.items, c, n)
                      /\ Tracked(writer, str, table.pending, c, n)
      BY <1>1 DEF Counted
    <2>4. Line(str, table.pending, s, c, n) /\ n \in Int /\ n <= n
      BY <1>1, <1>3, <2>3 DEF Tracked, Books
    <2>5. Block(Asked(q), n, n)
      BY <2>2, <2>4, EmptyBlock
    <2>6. Line(stream'[s], table.pending, s, c, n)
          /\ \A t \in Streams : Small(stream'[t].requests)
      BY <1>1, <1>2, <1>3, <1>5, <2>1, <2>2, <2>4, <2>5, SentMoves
    <2>7. /\ writer'.pending_items = writer.pending_items /\ writer'.stream = s
          /\ writer'.num_items_in_flight = writer.num_items_in_flight
      BY <1>1, <1>5 DEF WriterInv, IsWriter
    <2>8. Books(client', writer', table'.items, c, n)
      BY <1>2, <1>5, <2>3, <2>7, BooksSame
    <2>9. Tracked(writer', stream'[writer'.stream], table'.pending, c, n)
      BY <1>2, <1>3, <2>6, <2>7 DEF Tracked
    <2> QED
      BY <2>6, <2>8, <2>9 DEF Counted
  <1> QED
    BY <1>1, <1>4, <1>5 DEF SendChunks

LEMMA ItemCounts ==
    ASSUME WriterInv, Counted, SendItem
    PROVE  Counted'
  <1>1. PICK s, str, pending, item, rest, one, q :
           /\ s = writer.stream /\ str = stream[s] /\ pending = writer.pending_items
           /\ item = Head(pending) /\ rest = Tail(pending)
           /\ one = <<item>> /\ q = [client.request EXCEPT !.items = one]
    OBVIOUS
  <1>2. /\ client.pc = "items" /\ pending # << >> /\ table' = table
        /\ \/ /\ stream' = Sent(s, q) /\ client' = [client EXCEPT !.pc = "count"]
              /\ writer' = [writer EXCEPT !.streamed = @ \cup q.chunks,
                                          !.pending_items = rest]
           \/ /\ client' = [client EXCEPT !.pc = "failed"]
              /\ UNCHANGED <<writer, stream>>
    BY <1>1 DEF SendItem, WriterInv, IsWriter
  <1>3. s \in Streams /\ s # 0 /\ str.open
    BY <1>1, <1>2 DEF WriterInv, Connected, IsWriter
  <1>4. CASE client' = [client EXCEPT !.pc = "failed"] /\ UNCHANGED <<writer, stream>>
    <2>1. client'.pc = "failed" /\ client'.made = client.made
      BY <1>4, ClientGoes DEF WriterInv, Busy
    <2>2. client'.pc # "count" /\ client.pc # "count"
      BY <1>2, <2>1
    <2> QED
      BY <1>2, <1>4, <2>1, <2>2, StillStep
  <1>5. CASE /\ stream' = Sent(s, q) /\ client' = [client EXCEPT !.pc = "count"]
             /\ writer' = [writer EXCEPT !.streamed = @ \cup q.chunks,
                                         !.pending_items = rest]
    <2>1. PICK l : l = Len(pending)
      OBVIOUS
    <2>2. /\ IsSeq(pending) /\ IsSeq(rest) /\ item = pending[1] /\ l \in Nat /\ l > 0
          /\ Len(rest) = l - 1 /\ \A i \in 1 .. l - 1 : rest[i] = pending[i + 1]
          /\ item \in ToSet(pending)
      BY <1>1, <1>2, <2>1, TailSeq, IsSeqFacts DEF WriterInv, IsWriter
    <2>3. item.key \in Nat
      BY <1>1, <2>2 DEF WriterInv, IsWriter
    <2>4. /\ q \in [chunks : {q.chunks}, items : {one}, keep : {q.keep}]
          /\ q.items = one
      BY <1>1 DEF WriterInv, IsClient, IsPlain
    <2>5. IsSeq(one) /\ one[1] = item /\ DOMAIN one = {1} /\ one # << >> /\ Len(one) = 1
      BY <1>1, OneIsSeq, IsSeqFacts
    <2>6. IsRequest(q) /\ Len(q.items) <= 1 /\ Asked(q) = <<item.key>>
      BY <2>3, <2>4, <2>5 DEF IsRequest, Asked
    <2>7. PICK c, n, m : /\ Books(client, writer, table.items, c, n)
                         /\ Tracked(writer, str, table.pending, c, n) /\ m = n + 1
      BY <1>1 DEF Counted
    <2>8. /\ Line(str, table.pending, s, c, n) /\ n \in Int /\ n <= m /\ m \in Int
          /\ m \in Nat /\ c \in Nat /\ c <= n /\ c <= m
      BY <1>1, <1>3, <2>7 DEF Tracked, Books
    <2>9. item.key = n + 1
      <3>1. 1 \in 1 .. l
        BY <2>2
      <3> QED
        BY <1>1, <2>1, <2>2, <2>7, <3>1 DEF Books
    <2>10. Block(Asked(q), n, m)
      BY <2>6, <2>7, <2>8, <2>9, NextBlock
    <2>11. Line(stream'[s], table.pending, s, c, m)
           /\ \A t \in Streams : Small(stream'[t].requests)
      BY <1>1, <1>2, <1>3, <1>5, <2>6, <2>8, <2>10, SentMoves
    <2>12. /\ writer'.pending_items = rest /\ writer'.stream = s
           /\ writer'.num_items_in_flight = writer.num_items_in_flight
      <3>1. PICK X : X = writer.streamed \cup q.chunks
        OBVIOUS
      <3>2. writer' = [writer EXCEPT !.streamed = X, !.pending_items = rest]
        BY <1>5, <3>1
      <3> QED
        BY <1>1, <3>2 DEF WriterInv, IsWriter
    <2>13. client'.pc = "count" /\ client'.made = client.made
      BY <1>5, ClientGoes DEF WriterInv, Busy
    <2>14. /\ writer.num_items_in_flight \in Int /\ n - c = writer.num_items_in_flight
           /\ Len(client.made) = n + l
           /\ \A i \in 1 .. Len(client.made) : client.made[i].key = i
           /\ \A i \in 1 .. l : pending[i].key = n + i
           /\ 1 .. c \subseteq table.items
      <3>1. n - c = writer.num_items_in_flight + 0
        BY <1>2, <2>7 DEF Books
      <3>2. writer.num_items_in_flight \in Int
        BY <2>7 DEF Books
      <3>3. n - c = writer.num_items_in_flight
        BY <3>1, <3>2
      <3>4. /\ Len(client.made) = n + Len(writer.pending_items)
            /\ \A i \in 1 .. Len(client.made) : client.made[i].key = i
            /\ \A i \in 1 .. Len(writer.pending_items) :
                  writer.pending_items[i].key = n + i
            /\ 1 .. c \subseteq table.items
        BY <2>7, Zenon DEF Books
      <3> QED
        BY <1>1, <2>1, <3>2, <3>3, <3>4, Zenon
    <2>15. m - c = writer.num_items_in_flight + 1 /\ Len(client.made) = m + Len(rest)
      <3>1. PICK f, g, k : /\ f = writer.num_items_in_flight /\ k = Len(rest)
                           /\ g = Len(client.made)
        OBVIOUS
      <3>2. f \in Int /\ n - c = f /\ g = n + l /\ k = l - 1
        BY <2>2, <2>14, <3>1, Zenon
      <3>3. n \in Int /\ c \in Nat /\ l \in Nat /\ m = n + 1
        BY <2>2, <2>7, <2>8, Zenon
      <3>4. m - c = f + 1 /\ g = m + k
        BY <3>2, <3>3
      <3> QED
        BY <3>1, <3>4, Zenon
    <2>16. ASSUME NEW i \in 1 .. Len(rest) PROVE rest[i].key = m + i
      <3>1. PICK j : j = i + 1
        OBVIOUS
      <3>2. j \in 1 .. l /\ rest[i] = pending[j] /\ n + j = m + i
        BY <2>2, <2>7, <2>8, <3>1
      <3> QED
        BY <2>14, <3>2
    <2>17. Books(client', writer', table'.items, c, m)
      BY <1>2, <2>8, <2>12, <2>13, <2>14, <2>15, <2>16 DEF Books
    <2>18. Tracked(writer', stream'[writer'.stream], table'.pending, c, m)
      BY <1>2, <1>3, <2>11, <2>12 DEF Tracked
    <2> QED
      BY <2>11, <2>17, <2>18 DEF Counted
  <1> QED
    BY <1>2, <1>4, <1>5

LEMMA CountCounts ==
    ASSUME WriterInv, Counted, CountItem
    PROVE  Counted'
  <1>1. /\ client.pc = "count" /\ stream' = stream /\ table' = table
        /\ client' = [client EXCEPT !.pc = "items"]
    BY DEF CountItem
  <1>2. client'.pc = "items" /\ client'.made = client.made
    BY <1>1, ClientGoes DEF WriterInv, Busy
  <1>3. PICK m : m = writer.num_items_in_flight + 1
    OBVIOUS
  <1>4. writer' = [writer EXCEPT !.num_items_in_flight = m]
    BY <1>3 DEF CountItem
  <1>5. /\ writer'.pending_items = writer.pending_items /\ writer'.stream = writer.stream
        /\ writer'.num_items_in_flight = m /\ writer'.closed = writer.closed
    BY <1>4 DEF WriterInv, IsWriter
  <1>6. PICK c, n : /\ Books(client, writer, table.items, c, n)
                    /\ Tracked(writer, stream[writer.stream], table.pending, c, n)
    BY DEF Counted
  <1>7. writer.num_items_in_flight \in Int /\ n - c = writer.num_items_in_flight + 1
    BY <1>1, <1>6 DEF Books
  <1>8. m \in Int /\ n - c = m + 0
    BY <1>3, <1>7
  <1>9. Books(client', writer', table'.items, c, n)
    BY <1>1, <1>2, <1>5, <1>6, <1>8 DEF Books
  <1>10. Tracked(writer', stream'[writer'.stream], table'.pending, c, n)
    BY <1>1, <1>5, <1>6 DEF Tracked
  <1> QED
    BY <1>1, <1>9, <1>10 DEF Counted

LEMMA CreateCounts ==
    ASSUME WriterInv, Counted, NEW t, NEW k, CreateItem(t, k)
    PROVE  Counted'
  <1>1. PICK item, pending, made, p2, m2 :
            /\ item = NewItem(t, k) /\ pending = writer.pending_items
            /\ made = client.made /\ p2 = Append(pending, item) /\ m2 = Append(made, item)
    OBVIOUS
  <1>2. /\ client.pc = "idle" /\ writer' = [writer EXCEPT !.pending_items = p2]
        /\ client' = IF chunker.buffer = << >>
                     THEN [client EXCEPT !.pc = "open", !.call = "create", !.made = m2]
                     ELSE [client EXCEPT !.made = m2]
        /\ stream' = stream /\ table' = table
    BY <1>1 DEF CreateItem
  <1>3. client'.made = m2 /\ client'.pc \in {"open", "idle"}
    BY <1>2 DEF WriterInv, IsClient
  <1>4. /\ writer'.pending_items = p2 /\ writer'.stream = writer.stream
        /\ writer'.num_items_in_flight = writer.num_items_in_flight
        /\ writer'.closed = writer.closed
    BY <1>2 DEF WriterInv, IsWriter
  <1>5. PICK l, g : l = Len(pending) /\ g = Len(made)
    OBVIOUS
  <1>6. IsSeq(pending) /\ IsSeq(made) /\ l \in Nat /\ g \in Nat
    BY <1>1, <1>5, IsSeqFacts DEF WriterInv, IsWriter, IsClient
  <1>7. /\ Len(p2) = l + 1 /\ p2[l + 1] = item /\ \A i \in 1 .. l : p2[i] = pending[i]
        /\ Len(m2) = g + 1 /\ m2[g + 1] = item /\ \A i \in 1 .. g : m2[i] = made[i]
    BY <1>1, <1>5, <1>6, AppendSeq
  <1>8. item.key = g + 1
    <2>1. PICK key : key = g + 1
      OBVIOUS
    <2>2. item.key = key
      BY <1>1, <1>5, <2>1 DEF NewItem
    <2> QED
      BY <2>1, <2>2
  <1>9. PICK c, n : /\ Books(client, writer, table.items, c, n)
                    /\ Tracked(writer, stream[writer.stream], table.pending, c, n)
    BY DEF Counted
  <1>10. /\ n \in Nat /\ g = n + l /\ \A i \in 1 .. g : made[i].key = i
         /\ \A i \in 1 .. l : pending[i].key = n + i
    BY <1>1, <1>5, <1>9 DEF Books
  <1>11. ASSUME NEW i \in 1 .. g + 1 PROVE m2[i].key = i
    <2>1. i \in 1 .. g \/ i = g + 1
      BY <1>6
    <2> QED
      BY <1>7, <1>8, <1>10, <2>1
  <1>12. ASSUME NEW i \in 1 .. l + 1 PROVE p2[i].key = n + i
    <2>1. i \in 1 .. l \/ i = l + 1
      BY <1>6
    <2>2. n + (l + 1) = g + 1
      BY <1>6, <1>10
    <2> QED
      BY <1>7, <1>8, <1>10, <2>1, <2>2
  <1>13. g + 1 = n + (l + 1)
    BY <1>6, <1>10
  <1>14. client'.pc # "count" /\ client.pc # "count"
    BY <1>2, <1>3
  <1>15. Books(client', writer', table'.items, c, n)
    <2>1. /\ Len(client'.made) = n + Len(writer'.pending_items)
          /\ \A i \in 1 .. Len(client'.made) : client'.made[i].key = i
          /\ \A i \in 1 .. Len(writer'.pending_items) :
                writer'.pending_items[i].key = n + i
      BY <1>3, <1>4, <1>7, <1>11, <1>12, <1>13
    <2> QED
      BY <1>2, <1>4, <1>9, <1>14, <2>1 DEF Books
  <1>16. Tracked(writer', stream'[writer'.stream], table'.pending, c, n)
    BY <1>2, <1>4, <1>9 DEF Tracked
  <1> QED
    BY <1>2, <1>15, <1>16 DEF Counted

LEMMA UndoCounts ==
    ASSUME WriterInv, client.pc = "stopping", NEW wr, IsWriter(wr),
           wr.pending_items = writer.pending_items, Undo(wr),
           NEW items, NEW c, NEW n, Books(client, wr, items, c, n)
    PROVE  /\ Books(client', writer', items, c, n)
           /\ writer'.stream = wr.stream /\ writer'.closed = wr.closed
  <1>1. PICK cl, made, old : /\ cl = Idle /\ old = cl.made
                             /\ made = IF client.call = "create"
                                       THEN SubSeq(old, 1, Len(old) - 1) ELSE old
    OBVIOUS
  <1>2. IsClient(cl) /\ cl.pc = "idle" /\ IsSeq(old) /\ old = client.made
    BY <1>1, IdleFacts DEF WriterInv, IsClient
  <1>3. client' = [cl EXCEPT !.made = made]
    <2>1. client' = [Idle EXCEPT !.made =
                        IF client.call = "create" THEN SubSeq(@, 1, Len(@) - 1) ELSE @]
      BY DEF Undo
    <2> QED
      BY <1>1, <2>1
  <1>4. client'.made = made /\ client'.pc = "idle"
    BY <1>2, <1>3 DEF IsClient
  <1>5. client.pc # "count" /\ client'.pc # "count"
    BY <1>4
  <1>6. PICK pending : pending = writer.pending_items
    OBVIOUS
  <1>7. IsSeq(pending) /\ Len(pending) \in Nat /\ Len(old) \in Nat
    BY <1>2, <1>6, IsSeqFacts DEF WriterInv, IsWriter
  <1>8. /\ n \in Nat /\ Len(old) = n + Len(pending)
        /\ \A i \in 1 .. Len(old) : old[i].key = i
    BY <1>2, <1>6 DEF Books
  <1>9. CASE client.call = "create"
    <2>1. PICK front : front = SubSeq(pending, 1, Len(pending) - 1)
      OBVIOUS
    <2>2. writer' = [wr EXCEPT !.pending_items = front]
      BY <1>6, <1>9, <2>1 DEF Undo
    <2>3. /\ writer'.pending_items = front /\ writer'.stream = wr.stream
          /\ writer'.closed = wr.closed
          /\ writer'.num_items_in_flight = wr.num_items_in_flight
      BY <2>2 DEF IsWriter
    <2>4. Len(pending) = 1
      BY <1>6, <1>9 DEF WriterInv, PendingOk, Busy
    <2>5. Len(pending) > 0 /\ Len(old) > 0 /\ Len(old) - 1 = n
      BY <1>7, <1>8, <2>4
    <2>6. pending # << >> /\ old # << >>
      BY <1>2, <1>7, <2>5, IsSeqFacts
    <2>7. Len(front) = Len(pending) - 1
      BY <1>7, <2>1, <2>6, FrontSeq
    <2>8. Len(front) = 0
      BY <2>4, <2>7
    <2>9. made = SubSeq(old, 1, Len(old) - 1)
      BY <1>1, <1>9
    <2>10. Len(made) = Len(old) - 1 /\ \A i \in 1 .. Len(old) - 1 : made[i] = old[i]
      BY <1>2, <2>6, <2>9, FrontSeq
    <2>11. Len(made) = n /\ \A i \in 1 .. n : made[i] = old[i] /\ i \in 1 .. Len(old)
      BY <1>7, <1>8, <2>5, <2>10
    <2>12. Len(made) = n + Len(front) /\ 1 .. Len(front) = {}
      BY <1>8, <2>8, <2>11
    <2>13. /\ \A i \in 1 .. Len(made) : made[i].key = i
           /\ \A i \in 1 .. Len(front) : front[i].key = n + i
      BY <1>8, <2>11, <2>12
    <2>14. Books(client', writer', items, c, n)
      BY <1>4, <1>5, <2>3, <2>12, <2>13 DEF Books
    <2> QED
      BY <2>3, <2>14
  <1>10. CASE client.call # "create"
    <2>1. writer' = wr /\ made = old
      BY <1>1, <1>10 DEF Undo
    <2>2. Books(client', writer', items, c, n)
      BY <1>2, <1>4, <1>5, <2>1 DEF Books
    <2> QED
      BY <2>1, <2>2
  <1> QED
    BY <1>9, <1>10

LEMMA LossCounts ==
    ASSUME WriterInv, Counted, DataLost
    PROVE  Counted'
  <1>1. PICK wr, s : wr = Stopped(writer) /\ s = writer.stream
    OBVIOUS
  <1>2. client.pc = "stopping" /\ Undo(wr) /\ stream' = stream /\ table' = table
    BY <1>1 DEF DataLost
  <1>3. /\ IsWriter(wr) /\ wr.pending_items = writer.pending_items
        /\ wr.closed = writer.closed /\ wr.stream = s
        /\ wr.num_items_in_flight = writer.num_items_in_flight
    BY <1>1 DEF Stopped, WriterInv, IsWriter
  <1>4. PICK c, n : /\ Books(client, writer, table.items, c, n)
                    /\ Tracked(writer, stream[s], table.pending, c, n)
    BY <1>1 DEF Counted
  <1>5. Books(client, wr, table.items, c, n)
    BY <1>3, <1>4 DEF Books
  <1>6. /\ Books(client', writer', table.items, c, n)
        /\ writer'.stream = s /\ writer'.closed = writer.closed
    BY <1>2, <1>3, <1>5, UndoCounts
  <1>7. Tracked(writer', stream'[writer'.stream], table'.pending, c, n)
    BY <1>1, <1>2, <1>4, <1>6 DEF Tracked
  <1> QED
    BY <1>2, <1>6, <1>7 DEF Counted

LEMMA FailCounts ==
    ASSUME WriterInv, Counted, StreamFails
    PROVE  Counted'
  <1>1. PICK wr, s : wr = Reset0(writer) /\ s = writer.stream
    OBVIOUS
  <1>2. /\ client.pc = "stopping" /\ writer.num_items_in_flight <= 0
        /\ \/ client' = [client EXCEPT !.pc = "open"] /\ writer' = wr
           \/ client' = Idle /\ writer' = [wr EXCEPT !.closed = TRUE]
           \/ Undo(wr)
        /\ stream' = stream /\ table' = table
    BY <1>1 DEF StreamFails
  <1>3. /\ IsWriter(wr) /\ wr.pending_items = writer.pending_items
        /\ wr.closed = writer.closed /\ wr.stream = 0 /\ wr.num_items_in_flight = 0
    <2>1. PICK st : st = Stopped(writer)
      OBVIOUS
    <2>2. IsWriter(st) /\ st.pending_items = writer.pending_items
          /\ st.closed = writer.closed
      BY <2>1 DEF Stopped, WriterInv, IsWriter
    <2>3. wr = [st EXCEPT !.stream = 0, !.num_items_in_flight = 0]
      BY <1>1, <2>1 DEF Reset0
    <2> QED
      BY <2>2, <2>3 DEF IsWriter
  <1>4. PICK c, n : Books(client, writer, table.items, c, n)
    BY DEF Counted
  <1>5. c = n /\ n - c = 0 + 0
    <2>1. /\ n \in Nat /\ c \in Nat /\ c <= n /\ writer.num_items_in_flight \in Int
          /\ n - c = writer.num_items_in_flight + 0
      BY <1>2, <1>4 DEF Books
    <2> QED
      BY <1>2, <2>1
  <1>6. Books(client, wr, table.items, c, n)
    BY <1>2, <1>3, <1>4, <1>5 DEF Books
  <1>7. Books(client', writer', table.items, c, n) /\ writer'.stream = 0
    <2>1. CASE client' = [client EXCEPT !.pc = "open"] /\ writer' = wr
      <3>1. client'.pc = "open" /\ client'.made = client.made
        BY <2>1, ClientGoes DEF WriterInv, Busy
      <3>2. client'.pc # "count" /\ client.pc # "count"
        BY <1>2, <3>1
      <3> QED
        BY <1>3, <1>6, <2>1, <3>1, <3>2 DEF Books
    <2>2. CASE client' = Idle /\ writer' = [wr EXCEPT !.closed = TRUE]
      <3>1. client'.pc = "idle" /\ client'.made = client.made
        BY <2>2, IdleKeeps DEF WriterInv
      <3>2. client'.pc # "count" /\ client.pc # "count"
        BY <1>2, <3>1
      <3>3. /\ writer'.pending_items = wr.pending_items /\ writer'.stream = 0
            /\ writer'.num_items_in_flight = wr.num_items_in_flight
        BY <1>3, <2>2 DEF IsWriter
      <3> QED
        BY <1>6, <3>1, <3>2, <3>3 DEF Books
    <2>3. CASE Undo(wr)
      BY <1>2, <1>3, <1>6, <2>3, UndoCounts
    <2> QED
      BY <1>2, <2>1, <2>2, <2>3
  <1>8. Tracked(writer', stream'[writer'.stream], table'.pending, c, n)
    BY <1>5, <1>7 DEF Tracked
  <1> QED
    BY <1>2, <1>7, <1>8 DEF Counted

LEMMA CountedInit ==
    ASSUME Init
    PROVE  Counted
  <1>1. PICK empty, q : empty = << >> /\ q = Request({}, << >>, {})
    OBVIOUS
  <1>2. Len(empty) = 0 /\ 1 .. 0 = {}
    BY <1>1, EmptyIsSeq
  <1>3. writer = [stream |-> 0, pending_items |-> empty, streamed |-> {},
                  num_items_in_flight |-> 0, closed |-> FALSE, stop_requested |-> FALSE]
    BY <1>1 DEF Init
  <1>4. writer.stream = 0 /\ writer.pending_items = empty /\ writer.num_items_in_flight = 0
    BY <1>3
  <1>5. client = [pc |-> "idle", call |-> None, retry |-> TRUE, request |-> q,
                  appended |-> 0, made |-> empty]
    BY <1>1 DEF Init
  <1>6. client.made = empty /\ client.pc # "count"
    BY <1>5
  <1>7. 0 = 0 + Len(empty) /\ 0 - 0 = 0 + 0
    BY <1>2
  <1>8. Books(client, writer, table.items, 0, 0)
    BY <1>2, <1>4, <1>6, <1>7 DEF Books
  <1>9. Tracked(writer, stream[writer.stream], table.pending, 0, 0)
    BY <1>4 DEF Tracked
  <1>10. ASSUME NEW s \in Streams PROVE Small(stream[s].requests)
    <2>1. stream[s] = UnusedStream
      BY DEF Init, NoStreams
    <2>2. UnusedStream.requests = << >>
      BY DEF UnusedStream
    <2>3. stream[s].requests = empty
      BY <1>1, <2>1, <2>2
    <2> QED
      BY <1>1, <2>3 DEF Small
  <1> QED
    BY <1>8, <1>9, <1>10 DEF Counted

\* Every step keeps the count.
LEMMA CountedStep ==
    ASSUME WriterInv, Counted, Next
    PROVE  Counted'
  BY CallStep, CloseStep, ReadCounts, OpenCounts, ChunksCount, ItemCounts,
     CountCounts, LossCounts, FailCounts, CreateCounts, ServerCounts DEF Next

\* So the items that are not in the table are the last ones, and the writer has
\* as many on its books.
LEMMA MissingAreLast ==
    ASSUME WriterInv, Counted
    PROVE  \E c \in Nat :
              /\ c <= Len(client.made)
              /\ {client.made[i].key : i \in DOMAIN client.made} \ table.items
                    \subseteq c + 1 .. Len(client.made)
              /\ Len(client.made) - c =
                    Len(writer.pending_items) + writer.num_items_in_flight
                    + (IF client.pc = "count" THEN 1 ELSE 0)
  <1>1. PICK c, n : Books(client, writer, table.items, c, n)
    BY DEF Counted
  <1>2. PICK made, g, l, u, m :
            /\ made = client.made /\ g = Len(made) /\ l = Len(writer.pending_items)
            /\ u = (IF client.pc = "count" THEN 1 ELSE 0)
            /\ m = writer.num_items_in_flight
    OBVIOUS
  <1>3. l \in Nat /\ g \in Nat /\ DOMAIN made = 1 .. g
    BY <1>2, IsSeqFacts DEF WriterInv, IsClient, IsWriter
  <1>4. /\ n \in Nat /\ c \in Nat /\ c <= n /\ m \in Int /\ u \in Int
        /\ n - c = m + u /\ g = n + l
    BY <1>1, <1>2 DEF Books
  <1>5. c <= g /\ g - c = l + m + u
    BY <1>3, <1>4
  <1>6. ASSUME NEW i \in DOMAIN made, made[i].key \notin table.items
        PROVE  made[i].key \in c + 1 .. g
    <2>1. made[i].key = i /\ i \in 1 .. g
      BY <1>1, <1>2, <1>3 DEF Books
    <2>2. i \notin 1 .. c
      BY <1>1, <1>6, <2>1 DEF Books
    <2>3. i \in c + 1 .. g
      BY <1>3, <1>4, <2>1, <2>2
    <2> QED
      BY <2>1, <2>3
  <1> QED
    BY <1>2, <1>4, <1>5, <1>6
=============================================================================
