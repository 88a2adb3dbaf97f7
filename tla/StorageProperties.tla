------------------------- MODULE StorageProperties ---------------------------
(***************************************************************************)
(* Correctness of the selectors and of checkpoints.                        *)
(***************************************************************************)
EXTENDS Storage

\* The key at the root of a heap: the lowest (highest) priority, and among
\* equals the one least recently inserted or updated.
BestKey(kind, t) ==
    LET rank(k) == CHOOSE i \in DOMAIN t.recent : t.recent[i] = k
        value(k) == t.priority[k] * Sign(kind)
    IN CHOOSE k \in DOMAIN t.priority : \A o \in DOMAIN t.priority :
           \/ value(k) < value(o)
           \/ value(k) = value(o) /\ rank(k) <= rank(o)

\* The weights a selector of this kind owes to what it was told.
ExpectedSample(kind, t) ==
    LET keys == DOMAIN t.priority
        worthless == \A k \in keys : t.priority[k] = 0
    IN CASE kind = "fifo" -> (Head(t.order) :> 1)
         [] kind = "lifo" -> (Last(t.order) :> 1)
         [] kind = "uniform" -> [k \in keys |-> 1]
         [] kind \in Heaps -> (BestKey(kind, t) :> 1)
         [] kind = "prioritized" ->
               [k \in keys |-> IF worthless THEN 1 ELSE Weight(t.priority[k])]

\* No element of the heap comes before its parent.
HeapOrdered(s) ==
    \A h \in 2 .. Len(s.heap) : Before(s, s.heap[h \div 2], s.heap[h])

\* A selector knows exactly the keys it was told of and draws them with the
\* right weights, whatever was moved inside it to fill gaps: the oldest for
\* Fifo, the newest for Lifo, all alike for Uniform, by (priority, age) for
\* Heap, which is in order below its root too, in proportion to the weighted
\* priority for Prioritized.  In a server, both selectors know the keys and
\* weights that TableState abstracts them to.
SelectorsDrawRightly ==
    /\ SelectorKeys(selector) = DOMAIN told.priority
    /\ told.order # << >> => Sample(selector) = ExpectedSample(selector.kind, told)
    /\ SelectorKeys(sampler) = Known(table.sampler)
    /\ SelectorKeys(remover) = Known(table.remover)
    /\ selector.kind \in Heaps => HeapOrdered(selector)
    /\ \A k \in Known(table.sampler) :
          sampler.sum_tree[sampler.key_to_index[k]].value = Weight(table.sampler[k])

\* No selector has rejected a priority of an item that is still there.
Consistent(t) ==
    \A k \in Keys :
        LET p == IF t.data[k] = None THEN None ELSE t.data[k].priority
        IN t.sampler[k] = p /\ t.remover[k] = p

\* Equal up to the choice between keys of equal priority, for which a heap goes
\* by the order of updates, which a checkpoint does not keep.
DrawsAlike(new, old) ==
    IF new.kind \in Heaps /\ new.kind = old.kind
    THEN new.nodes[new.heap[1]].priority = old.nodes[old.heap[1]].priority
    ELSE new.kind = old.kind /\ Sample(new) = Sample(old)

\* Loading a checkpoint brings back the table that Table::Checkpoint saw: the
\* items with their priorities and sample counts, the episodes they refer to,
\* the limiter and the counters, and selectors that choose as before.  Two Saves
\* at the same time are left out: the older directory may be deleted before the
\* newer one has its DONE-file, and a crash that leaves it without items.tfrecord
\* makes it load as an empty table (tfrecord_checkpointer.cc:346).
RestoreIsExact ==
    status = "running" /\ restored # None /\ Consistent(restored.table) /\ ~overlapped =>
        /\ table = restored.table
        /\ Present(table) # {} =>
              /\ DrawsAlike(sampler, restored.sampler)
              /\ DrawsAlike(remover, restored.remover)

\* A server whose table was consistent when it was checkpointed starts again:
\* no item is refused for a full table, a known key or a missing chunk.  Only
\* a priority that a selector rejected makes a checkpoint useless.
ServerStartsAgain ==
    status = "failed" => restored # None /\ ~Consistent(restored.table)

\* Once Save has returned, LoadLatest finds that checkpoint or a newer one, with
\* every file it needs, whatever crashes, failed Saves and half deleted
\* directories come after; unless two Saves ran at the same time.
SavedCheckpointIsFound ==
    acknowledged > 0 /\ ~overlapped =>
        /\ HasDone # {}
        /\ Latest(HasDone) >= acknowledged
        /\ LET d == disk[Latest(HasDone)]
           IN /\ d.tables # None /\ d.items # None
              /\ \A i \in DOMAIN d.items : ChunksOf[d.items[i].key] \subseteq d.chunks

\* The limiter counts every item of the table except those whose insert was
\* never registered: an eviction that waits, an insert a selector refused, and
\* what a checkpoint has carried over from such a moment; unless two Saves ran at
\* the same time, after which a checkpoint may have lost its items and kept the
\* limiter.
LimiterCountsItems ==
    status # "failed" /\ ~overlapped =>
        Size(table) = table.limiter.inserts - table.limiter.deletes + Uncounted
=============================================================================
