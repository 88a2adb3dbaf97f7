------------------------- MODULE WritersProperties --------------------------
(***************************************************************************)
(* What the writers promise their client and the server.                   *)
(***************************************************************************)
EXTENDS Writers, SequencesExt

\* The items of CreateItem calls that returned OK.
Made == {client.made[i].key : i \in DOMAIN client.made}

\* No server ever has to refuse an item because a chunk of it did not arrive,
\* or because it is told to keep a chunk it does not have: whatever the order
\* in which chunks complete, items are batched, and a broken stream is replaced
\* (reverb_service_impl.cc GetItemWithChunks, ReleaseOutOfRangeChunks).
ServerFindsChunks ==
    \A s \in Streams :
        \/ stream[s].ended # "no"
        \/ stream[s].reactor.status \notin {"internal", "failed_precondition"}

\* An item that CreateItem accepted is in the table, or the writer still has it
\* on its books (in its queue or unconfirmed), whatever breaks: it knows what
\* to send again, or to report as lost.  The older Writer only counts.
NothingLostSilently ==
    LET missing == Made \ table.items
        Keys(items) == {i.key : i \in items}
    IN  CASE kind \in {"trajectory", "tuned"} ->
               missing \subseteq Keys(ToSet(writer.write_queue))
                                 \cup Keys(writer.in_flight_items)
          [] kind = "streaming" -> missing \subseteq writer.in_flight_items
          [] kind = "writer" ->
               Cardinality(missing) <= Len(writer.pending_items)
                   + writer.num_items_in_flight
                   + (IF client.pc = "count" THEN 1 ELSE 0)
          [] OTHER -> TRUE

\* A server that stopped reading because the table was full reads again: as
\* long as it does not read, an insert of this very stream is still to
\* complete, whose callback resumes reading.
ReadingResumes ==
    \A s \in Streams :
        LET r == stream[s].reactor
        IN  stream[s].open /\ ~r.is_finished /\ r.still_reading /\ ~r.read_in_flight
            => \E i \in DOMAIN table.pending : table.pending[i].stream = s

\* References that a writer will need stay usable.  TrajectoryWriter: the data
\* of an item that waits is in a chunk, or still in the buffer of the chunker,
\* so that the worker does not wait for a chunk nobody makes.  Streaming: every
\* chunk whose data was moved out and that the client may still refer to has
\* been streamed on the current stream, unless an error tells it otherwise.
ReferencesAreUsable ==
    /\ kind \in {"trajectory", "tuned"} =>
         \A i \in DOMAIN writer.write_queue :
             \A c \in ToSet(writer.write_queue[i].cells) :
                 \/ c \in chunker.ready
                 \/ /\ c \in ToSet(chunker.active_refs)
                    /\ c.chunk = <<chunker.column, chunker.next>>
    /\ kind = "streaming" /\ client.pc = "idle" /\ ~Streaming!Failed =>
         \A c \in ToSet(chunker.active_refs) :
             c.chunk \in writer.moved => c.chunk \in writer.streamed

\* The slices of an item of the older Writer are as long as the client asked;
\* its cells are the rows that there were.
Overlong(item) ==
    /\ kind = "writer"
    /\ FoldLeft(LAMBDA n, s : n + s.length, 0, item.slices) > Len(item.cells)

\* What a consumer unpacks from the slices of an item are the cells that the
\* client put into it, in order: chunks of any length, chunks that were cut
\* short by a flush, and items over several chunks (trajectory_writer.cc
\* MergeAdjacent, writer.cc CreateItem, trajectory_util.cc).  Overlong items, which
\* ItemsSpanRows is about, are left out: what they denote does not exist.
ItemsDenoteCells ==
    kind # "structured" =>
        \A i \in DOMAIN client.made :
            LET item == client.made[i]
            IN  /\ ~Overlong(item)
                /\ \A k \in ChunksOf(item) : k[2] < chunker.next
                => Trajectory!Decode(item.slices, chunker.chunks)
                     = [j \in DOMAIN item.cells |->
                           <<item.cells[j].episode, item.cells[j].step>>]

\* No item that the older Writer accepts spans more timesteps than it has.  It is
\* what client.py:171 says of create_item ("StatusNotOk: If num_timesteps is >
\* than the timesteps currently available in the buffer"); the bound of
\* writer.cc:173 does not see to it.
ItemsSpanRows ==
    kind = "writer" => \A i \in DOMAIN client.made : ~Overlong(client.made[i])

\* The items of a pattern are those its definition gives on the whole history:
\* however a step is split into partial appends, whatever the buffers of the
\* columns have let go, whichever calls fail in the ColumnWriter or in the
\* creation of an item, and however often EndEpisode is tried.  That is for
\* patterns in front of the first whose table refuses its items, which keeps
\* those behind it from being applied, and as long as the ColumnWriter has not
\* taken a column twice in a step (structured_writer.cc:487).
PatternsExact ==
    kind = "structured" /\ ~writer.step_is_open /\ ~client.repeated =>
        \A i \in {n \in DOMAIN Configs : \A k \in 1 .. n : Configs[k].table \in SignatureTables} :
            LET mine == SelectSeq(client.made, LAMBDA x : x.config = i)
            IN  [k \in DOMAIN mine |-> mine[k].trajectory]
                    = Structured!ItemsOf(i, client.history)
=============================================================================
