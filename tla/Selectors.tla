------------------------------ MODULE Selectors ------------------------------
(***************************************************************************)
(* The item selectors of reverb/cc/selectors: the list behind Fifo and     *)
(* Lifo, the vector with an index behind Uniform, the intrusive heap       *)
(* behind Heap and the sum tree behind Prioritized.  A selector is the     *)
(* record of its fields and each method a function on it; a method that    *)
(* returns an error leaves the selector as it was.  Positions count from   *)
(* 1, so the parent of i is i \div 2 and its children are 2i and 2i + 1.   *)
(*                                                                         *)
(* Priorities are integers and sums are exact: the correction of rounding  *)
(* errors (ReinitializeSumTree) and the growth of the vectors are left     *)
(* out.  Sample() is the weight with which it returns each key.            *)
(***************************************************************************)
EXTENDS Integers, FiniteSets, SequencesExt

CONSTANT PriorityExponent       \* priority_exponent_ of Prioritized

Without(f, k) == Restrict(f, DOMAIN f \ {k})

----------------------------------------------------------------------------
(* Heap: intrusive_heap.h and heap.{h,cc}.  nodes[k].heap is the link.      *)

\* HeapNodeCompare: lexicographic by (priority, update_number).
Before(s, a, b) ==
    \/ s.nodes[a].priority < s.nodes[b].priority
    \/ /\ s.nodes[a].priority = s.nodes[b].priority
       /\ s.nodes[a].update_number < s.nodes[b].update_number

Place(s, k, h) == [s EXCEPT !.heap[h] = k, !.nodes[k].heap = h]

RECURSIVE FixHeapUp(_, _, _)
FixHeapUp(s, k, h) ==
    LET parent == h \div 2 IN
    IF h = 1 \/ Before(s, s.heap[parent], k) THEN Place(s, k, h)
    ELSE FixHeapUp(Place(s, s.heap[parent], h), k, parent)

RECURSIVE FixHeapDown(_, _, _)
FixHeapDown(s, k, h) ==
    LET left == 2 * h
        right == left + 1
        kid == IF right <= Len(s.heap) /\ Before(s, s.heap[right], s.heap[left])
               THEN right ELSE left
    IN IF left > Len(s.heap) \/ Before(s, k, s.heap[kid]) THEN Place(s, k, h)
       ELSE FixHeapDown(Place(s, s.heap[kid], h), k, kid)

Adjust(s, k) ==
    LET h == s.nodes[k].heap IN
    IF h # 1 /\ Before(s, k, s.heap[h \div 2])
    THEN FixHeapUp(s, k, h) ELSE FixHeapDown(s, k, h)

\* Faulty: the element that fills the gap can only sink.
HeapRemoveDownOnly(s, k) ==
    LET h == s.nodes[k].heap
        moved == Last(s.heap)
        shorter == [s EXCEPT !.heap = Front(@)]
    IN IF h = Len(s.heap) THEN shorter ELSE FixHeapDown(Place(shorter, moved, h), moved, h)

\* IntrusiveHeap::Remove: the last element takes the place of the removed one.
HeapRemove(s, k) ==
    LET h == s.nodes[k].heap
        moved == Last(s.heap)
        shorter == [s EXCEPT !.heap = Front(@)]
    IN IF h = Len(s.heap) THEN shorter ELSE Adjust(Place(shorter, moved, h), moved)

EmptyHeap(kind) ==
    [kind |-> kind, heap |-> << >>, nodes |-> << >>, update_count |-> 0]

Sign(kind) == IF kind = "max_heap" THEN -1 ELSE 1

HeapNode(s, p, h) ==
    [priority |-> p * Sign(s.kind), update_number |-> s.update_count, heap |-> h]

HeapInsert(s, k, p) ==
    LET h == Len(s.heap) + 1
    IN FixHeapUp([s EXCEPT !.heap = Append(@, k),
                           !.nodes = (k :> HeapNode(s, p, h)) @@ @,
                           !.update_count = @ + 1], k, h)

HeapUpdate(s, k, p) ==
    Adjust([s EXCEPT !.nodes[k] = HeapNode(s, p, @.heap),
                     !.update_count = @ + 1], k)

HeapDelete(s, k) ==
    LET removed == HeapRemove(s, k)
    IN [removed EXCEPT !.nodes = Without(@, k)]

HeapSample(s) == s.heap[1] :> 1

\* update_count_ survives.
HeapClear(s) == [s EXCEPT !.heap = << >>, !.nodes = << >>]

----------------------------------------------------------------------------
(* Prioritized: a binary tree in a vector, each node with the sum of its     *)
(* own value and its children's sums.                                        *)

EmptySumTree ==
    [kind |-> "prioritized", sum_tree |-> << >>, key_to_index |-> << >>]

\* A priority of zero has weight zero, also when the exponent is zero.
Weight(p) == IF p = 0 THEN 0 ELSE p ^ PriorityExponent

NodeSum(s, i) == IF i <= Cardinality(DOMAIN s.key_to_index) THEN s.sum_tree[i].sum ELSE 0

\* The path from i to the root.
Ancestors(i) == {a \in 1 .. i : \E d \in 0 .. i : a = i \div 2 ^ d}

SetNode(s, i, value) ==
    LET difference == value - s.sum_tree[i].value
    IN [s EXCEPT !.sum_tree = [a \in DOMAIN @ |->
            [@[a] EXCEPT !.value = IF a = i THEN value ELSE @,
                         !.sum = IF a \in Ancestors(i) THEN @ + difference
                                 ELSE @]]]

\* The vector only ever grows: entries behind the last key are zero.
PrioritizedInsert(s, k, p) ==
    LET i == Cardinality(DOMAIN s.key_to_index) + 1
        entry == [key |-> k, value |-> 0, sum |-> 0]
        keyed == [s EXCEPT
            !.sum_tree = IF i <= Len(@) THEN [@ EXCEPT ![i].key = k]
                         ELSE Append(@, entry),
            !.key_to_index = (k :> i) @@ @]
    IN SetNode(keyed, i, Weight(p))

\* The last element takes the place of the deleted one.
PrioritizedDelete(s, k) ==
    LET last == Cardinality(DOMAIN s.key_to_index)
        last_key == s.sum_tree[last].key
        i == s.key_to_index[k]
        moved == [SetNode(s, i, s.sum_tree[last].value) EXCEPT
                      !.sum_tree[i].key = last_key,
                      !.key_to_index[last_key] = i]
        emptied == SetNode(IF i = last THEN s ELSE moved, last, 0)
    IN [emptied EXCEPT !.key_to_index = Without(@, k)]

PrioritizedUpdate(s, k, p) == SetNode(s, s.key_to_index[k], Weight(p))

\* The vector keeps its length.
PrioritizedClear(s) ==
    [s EXCEPT !.sum_tree = [i \in DOMAIN @ |-> [@[i] EXCEPT !.value = 0, !.sum = 0]],
              !.key_to_index = << >>]

\* The descent of Sample() for a target below the total weight.
RECURSIVE Descend(_, _, _)
Descend(s, i, target) ==
    LET left == NodeSum(s, 2 * i)
        right == NodeSum(s, 2 * i + 1)
    IN IF target < left THEN Descend(s, 2 * i, target)
       ELSE IF target - left < right THEN Descend(s, 2 * i + 1, target - left)
       ELSE s.sum_tree[i].key

\* With a total of zero every key is equally likely.
PrioritizedSample(s) ==
    LET total == s.sum_tree[1].sum
    IN [k \in DOMAIN s.key_to_index |->
           IF total = 0 THEN 1
           ELSE Cardinality({x \in 0 .. total - 1 : Descend(s, 1, x) = k})]

----------------------------------------------------------------------------
(* Uniform: a vector of keys and the index of each.                          *)

EmptyUniform == [kind |-> "uniform", keys |-> << >>, key_to_index |-> << >>]

UniformInsert(s, k) ==
    [s EXCEPT !.keys = Append(@, k), !.key_to_index = (k :> Len(s.keys) + 1) @@ @]

UniformDelete(s, k) ==
    LET i == s.key_to_index[k]
        last_key == Last(s.keys)
        moved == [s EXCEPT !.keys[i] = last_key, !.key_to_index[last_key] = i]
    IN [moved EXCEPT !.keys = Front(@), !.key_to_index = Without(@, k)]

UniformSample(s) ==
    [k \in ToSet(s.keys) |-> Cardinality({i \in DOMAIN s.keys : s.keys[i] = k})]

----------------------------------------------------------------------------
(* Fifo and Lifo: a list, and an iterator into it for every key.             *)

EmptyFifo == [kind |-> "fifo", keys |-> << >>]
EmptyLifo == [kind |-> "lifo", keys |-> << >>]
FifoInsert(s, k) == [s EXCEPT !.keys = Append(@, k)]
LifoInsert(s, k) == [s EXCEPT !.keys = <<k>> \o @]
ListDelete(s, k) == [s EXCEPT !.keys = SelectSeq(@, LAMBDA x : x # k)]
FifoSample(s) == Head(s.keys) :> 1
LifoSample(s) == Head(s.keys) :> 1

----------------------------------------------------------------------------
(* The interface (selectors/interface.h, checkpointing_utils: MakeSelector). *)

Heaps == {"min_heap", "max_heap"}
SelectorKinds == {"fifo", "lifo", "uniform", "prioritized"} \cup Heaps

MakeSelector(kind) ==
    CASE kind = "fifo" -> EmptyFifo
      [] kind = "lifo" -> EmptyLifo
      [] kind = "uniform" -> EmptyUniform
      [] kind = "prioritized" -> EmptySumTree
      [] kind \in Heaps -> EmptyHeap(kind)

SelectorKeys(s) ==
    CASE s.kind \in {"fifo", "lifo"} -> ToSet(s.keys)
      [] s.kind \in Heaps -> DOMAIN s.nodes
      [] OTHER -> DOMAIN s.key_to_index

\* CheckValidPriority of Prioritized.
Accepts(s, p) == s.kind = "prioritized" => p >= 0

SelectorInsert(s, k, p) ==
    CASE k \in SelectorKeys(s) \/ ~Accepts(s, p) -> s
      [] s.kind = "fifo" -> FifoInsert(s, k)
      [] s.kind = "lifo" -> LifoInsert(s, k)
      [] s.kind = "uniform" -> UniformInsert(s, k)
      [] s.kind \in Heaps -> HeapInsert(s, k, p)
      [] s.kind = "prioritized" -> PrioritizedInsert(s, k, p)

SelectorUpdate(s, k, p) ==
    CASE k \notin SelectorKeys(s) \/ ~Accepts(s, p) -> s
      [] s.kind \in Heaps -> HeapUpdate(s, k, p)
      [] s.kind = "prioritized" -> PrioritizedUpdate(s, k, p)
      [] OTHER -> s

SelectorDelete(s, k) ==
    CASE k \notin SelectorKeys(s) -> s
      [] s.kind \in {"fifo", "lifo"} -> ListDelete(s, k)
      [] s.kind = "uniform" -> UniformDelete(s, k)
      [] s.kind \in Heaps -> HeapDelete(s, k)
      [] s.kind = "prioritized" -> PrioritizedDelete(s, k)

SelectorClear(s) ==
    CASE s.kind \in Heaps -> HeapClear(s)
      [] s.kind = "prioritized" -> PrioritizedClear(s)
      [] OTHER -> MakeSelector(s.kind)

\* The keys Sample() may return, each with its weight.  Must contain keys.
Sample(s) ==
    CASE s.kind = "fifo" -> FifoSample(s)
      [] s.kind = "lifo" -> LifoSample(s)
      [] s.kind = "uniform" -> UniformSample(s)
      [] s.kind \in Heaps -> HeapSample(s)
      [] s.kind = "prioritized" -> PrioritizedSample(s)

\* The keys Sample() may return at all.
Drawn(s) == LET weights == Sample(s) IN {k \in DOMAIN weights : weights[k] > 0}
=============================================================================
