------------------------------ MODULE Chunker -------------------------------
(***************************************************************************)
(* The chunker of one column (reverb/cc/chunker.{h,cc}): it collects the   *)
(* cells that are appended to the column and packs them into chunks.  All  *)
(* of its methods run under its mutex, so each is a function on the record *)
(* of its fields.                                                          *)
(*                                                                         *)
(* A cell is [chunk, offset, episode, step]; the pair <<episode, step>>    *)
(* stands for the tensor that was appended.  A chunk key is the pair       *)
(* <<column, number>>.  Only the options that compress are modelled.       *)
(***************************************************************************)
EXTENDS Integers, SequencesExt

CONSTANT NumItemsToScore    \* kNumItemsToScore of AutoTunedChunkerOptions

\* ValidateChunkerOptions, with compression.
ValidOptions(o) ==
    /\ o.num_keep_alive_refs > 0
    /\ o.max_chunk_length > 0
    /\ o.max_chunk_length <= o.num_keep_alive_refs

\* scored: the number of items_ of AutoTunedChunkerOptions; tuned: it has a
\* prev_score_.  next: the number in next_chunk_key_.  ready: the cells whose
\* chunk_ is set.  chunks: the content of every chunk made so far, by key.
\* offset_ is always the length of buffer.
NewChunker(column, o) ==
    [column |-> column, max_chunk_length |-> o.max_chunk_length,
     num_keep_alive_refs |-> o.num_keep_alive_refs,
     auto_tuned |-> o.auto_tuned, scored |-> 0, tuned |-> FALSE,
     next |-> 1, buffer |-> << >>, active_refs |-> << >>,
     ready |-> {}, chunks |-> << >>]

NextChunkKey(c) == <<c.column, c.next>>

IsReady(c, cell) == cell \in c.ready

\* The references a Chunker keeps alive are the last num_keep_alive_refs ones.
Expire(c) ==
    LET n == Len(c.active_refs)
    IN  [c EXCEPT !.active_refs =
            IF n <= c.num_keep_alive_refs THEN @
            ELSE SubSeq(@, n - c.num_keep_alive_refs + 1, n)]

\* Mutant: the reference of the newest cell does not learn of the chunk.
FaultyFlushChunker(c) ==
    IF c.buffer = << >> THEN c
    ELSE [c EXCEPT
            !.chunks = [k \in DOMAIN @ \cup {NextChunkKey(c)} |->
                            IF k \in DOMAIN @ THEN @[k] ELSE c.buffer],
            !.ready = @ \cup {r \in ToSet(c.active_refs) :
                                  /\ r.chunk = NextChunkKey(c)
                                  /\ r.offset + 1 < Len(c.buffer)},
            !.buffer = << >>,
            !.next = @ + 1]

\* FlushLocked: only the references that are still active learn of the chunk.
FlushChunker(c) ==
    IF c.buffer = << >> THEN c
    ELSE [c EXCEPT
            !.chunks = [k \in DOMAIN @ \cup {NextChunkKey(c)} |->
                            IF k \in DOMAIN @ THEN @[k] ELSE c.buffer],
            !.ready = @ \cup {r \in ToSet(c.active_refs) :
                                  r.chunk = NextChunkKey(c)},
            !.buffer = << >>,
            !.next = @ + 1]

\* FailedPrecondition: cells of two episodes, or two of one step.
MayAppend(c, episode, step) ==
    c.buffer # << >> => /\ Last(c.active_refs).episode = episode
                        /\ Last(c.active_refs).step < step

\* The next cell of the chunk under construction.
CellRef(c, episode, step) ==
    [chunk |-> NextChunkKey(c), offset |-> Len(c.buffer),
     episode |-> episode, step |-> step]

AppendToChunker(c, episode, step) ==
    LET cell == CellRef(c, episode, step)
        d == [c EXCEPT !.active_refs = Append(@, cell),
                       !.buffer = Append(@, <<episode, step>>)]
    IN  Expire(IF Len(d.buffer) >= d.max_chunk_length THEN FlushChunker(d)
               ELSE d)

GetKeepKeys(c) == {r.chunk : r \in ToSet(c.active_refs)}

Reset(c) ==
    [c EXCEPT !.buffer = << >>, !.active_refs = << >>, !.next = @ + 1]

\* The caller must have flushed.
MayApplyConfig(c, o) == c.buffer = << >> /\ ValidOptions(o)
ApplyConfig(c, o) ==
    Expire([c EXCEPT !.max_chunk_length = o.max_chunk_length,
                     !.num_keep_alive_refs = o.num_keep_alive_refs,
                     !.auto_tuned = o.auto_tuned, !.scored = 0,
                     !.tuned = FALSE])

\* OnItemFinalized of AutoTunedChunkerOptions: once enough items and chunks
\* have been seen the length grows, the first time, or changes by one of the
\* two differences, or stays, as the score has it; sizes are not modelled.
OnItemFinalized(c) ==
    LET d == [c EXCEPT !.scored = IF @ < NumItemsToScore THEN @ + 1 ELSE @]
        Bounded(n) == IF n < 1 THEN 1
                      ELSE IF n > c.num_keep_alive_refs
                      THEN c.num_keep_alive_refs ELSE n
        changes == IF c.tuned THEN {2, 0, -1} ELSE {2}
    IN  IF ~c.auto_tuned THEN {c}
        ELSE {d} \cup
             {[d EXCEPT !.scored = 0, !.tuned = TRUE,
                        !.max_chunk_length = Bounded(@ + diff)] :
                 diff \in IF d.scored < NumItemsToScore THEN {} ELSE changes}

-----------------------------------------------------------------------------
(* Trajectories: what an item says about its cells *)

\* MergeAdjacent of TrajectoryColumn::ToProto.
AddToSlices(slices, cell) ==
    IF slices # << >> /\ Last(slices).chunk = cell.chunk
    THEN [slices EXCEPT ![Len(slices)].length = @ + 1]
    ELSE Append(slices, [chunk |-> cell.chunk, offset |-> cell.offset,
                         length |-> 1])

MergeAdjacent(cells) == FoldLeft(AddToSlices, << >>, cells)

GetChunkKeys(slices) == {s.chunk : s \in ToSet(slices)}

\* UnpackChunkColumnAndSlice; chunks gives the content of a chunk.
Unpack(slice, chunks) ==
    IF /\ slice.chunk \in DOMAIN chunks
       /\ slice.offset >= 0
       /\ slice.offset + slice.length <= Len(chunks[slice.chunk])
    THEN SubSeq(chunks[slice.chunk], slice.offset + 1,
                slice.offset + slice.length)
    ELSE << >>

\* What a consumer of the item sees.
Decode(slices, chunks) ==
    FoldLeft(LAMBDA acc, s : acc \o Unpack(s, chunks), << >>, slices)
=============================================================================
