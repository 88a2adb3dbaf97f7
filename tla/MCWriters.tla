----------------------------- MODULE MCWriters ------------------------------
(* TLC instances of Writers: one column for all but StructuredWriter. *)
EXTENDS WritersProperties

Options(length, alive, tuned) ==
    [max_chunk_length |-> length, num_keep_alive_refs |-> alive,
     auto_tuned |-> tuned]

\* Chunks of two cells, and an item may reach back over a chunk.
MCChunkerOptions ==
    [trajectory |-> {Options(2, 3, FALSE)}, tuned |-> {Options(1, 3, TRUE)},
     streaming |-> {Options(2, 3, FALSE)}]
\* Three cells fit into a chunk.
MCLongChunks == [trajectory |-> {Options(3, 3, FALSE)}]

\* The second chunk is a large one.
MCLargeChunks == {<<1, 2>>}

Node(column, start, stop, step) ==
    [column |-> column, start |-> start, stop |-> stop, step |-> step]
Condition(left, column, cmp, n, eq, inverse) ==
    [left |-> left, column |-> column, cmp |-> cmp, n |-> n, eq |-> eq,
     inverse |-> inverse]
BufferAtLeast(n) == Condition("buffer_length", 1, "ge", n, 0, FALSE)

\* Two columns and every other step; a strided slice unless the newest value
\* of the second column is 1; single cells at even steps; at the end only.  The
\* last one fails when the newest values are there and the second is 1: its
\* table does not take the item.
MCConfigs ==
    <<[table |-> "t",
       flat |-> <<Node(1, -2, None, None), Node(2, None, -1, None)>>,
       conditions |-> <<BufferAtLeast(2),
                        Condition("steps_since_applied", 1, "ge", 2, 0, FALSE)>>],
      [table |-> "t", flat |-> <<Node(1, -3, None, 2)>>,
       conditions |-> <<BufferAtLeast(3), Condition("data", 2, "eq", 1, 0, TRUE)>>],
      [table |-> "t", flat |-> <<Node(1, -2, -1, None)>>,
       conditions |-> <<BufferAtLeast(2),
                        Condition("step_index", 1, "mod_eq", 2, 0, FALSE)>>],
      [table |-> "t", flat |-> <<Node(2, None, -1, None)>>,
       conditions |-> <<BufferAtLeast(1),
                        Condition("is_end_episode", 1, "eq", 1, 0, FALSE)>>],
      [table |-> "v", flat |-> <<Node(1, None, -1, None)>>,
       conditions |-> <<BufferAtLeast(2),
                        Condition("data", 2, "eq", 1, 0, FALSE)>>]>>

MCColumns == {1, 2}
MCValues == <<{0}, {0, 1}>>

\* The server has no table "u"; items for "v" do not conform to its signature.
MCItemTables ==
    [trajectory |-> {"t", "v"}, tuned |-> {"t"}, streaming |-> {"t", "u", "v"},
     writer |-> {"t", "u"}]
MCIncrements == [trajectory |-> BOOLEAN, tuned |-> {TRUE}, streaming |-> BOOLEAN]
\* Append, create an item of one row, flush, and ask for two.
MCItemLengths == [trajectory |-> {2}, tuned |-> {2}, streaming |-> {2},
                  writer |-> {1, 2}]
MCMaxSteps == [trajectory |-> 3, tuned |-> 3, streaming |-> 4, writer |-> 4,
               structured |-> 4]
MCMaxItems == [trajectory |-> 2, tuned |-> 1, streaming |-> 2, writer |-> 2]
MCMaxEpisodes == [trajectory |-> 1, tuned |-> 2, streaming |-> 2, structured |-> 2]
=============================================================================
