----------------------------- MODULE MCStorage -------------------------------
(***************************************************************************)
(* An instance of Storage for TLC.                                         *)
(***************************************************************************)
EXTENDS StorageProperties

\* Items 1 and 2 share chunk "c"; items 2 and 3 end in another episode.
MCChunksOf == <<{"c"}, {"c", "d"}, {"d"}>>
MCChunkCount == <<[a |-> 1, b |-> 0], [a |-> 1, b |-> 1], [a |-> 0, b |-> 1]>>

\* A negative priority is refused by Prioritized.
MCPriorities == {-1, 2}
MCRejected == {-1}

\* What another experiment left: a full table of a server with another remover.
\* Its items have priorities 1 and 2.
OtherTable ==
    LET one == RegisterInsert(InsertItem(EmptyTable, 3, 1))
    IN Drained(RegisterInsert(InsertItem(one, 2, 2)))
TwoItems(kind) == SelectorInsert(SelectorInsert(MakeSelector(kind), 3, 1), 2, 2)
MCFallbacks ==
    {LET c == Checkpoint(OtherTable, TwoItems("prioritized"), TwoItems("fifo"),
                         <<0, -1, -2>>, 0)
     IN [tables |-> c.tables, items |-> c.items, chunks |-> c.chunks, done |-> TRUE]}

\* The threads that save differ in nothing.
SaverSymmetry == Permutations(Savers)
=============================================================================
