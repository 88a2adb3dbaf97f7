------------------------------- MODULE Queue --------------------------------
(***************************************************************************)
(* The bounded queue of reverb/cc/support/queue.h: a ring buffer behind    *)
(* one mutex, with slots that a producer reserves before it pushes.  Every *)
(* operation is a function on the record of its fields.  A call that       *)
(* blocks is a guard (CanReserve, CanPop) and the effect of the call.      *)
(* SetLastItemPushed and PopBatch, which no code of the repository calls,  *)
(* are left out.                                                           *)
(***************************************************************************)
EXTENDS Integers, Sequences

CONSTANT NoSample       \* what an empty slot of buffer_ holds

EmptyQueue(capacity) ==
    [capacity |-> capacity,
     buffer |-> [i \in 0 .. capacity - 1 |-> NoSample],
     pushes |-> 0, pops |-> 0, reserved |-> 0,
     closed |-> FALSE, num_waiting_to_pop |-> 0]

QueueSize(q) == q.pushes - q.pops

\* What the queue holds, the oldest element first.
Contents(q) ==
    [i \in 1 .. QueueSize(q) |-> q.buffer[(q.pops + i - 1) % q.capacity]]

CloseQueue(q) == [q EXCEPT !.closed = TRUE]

\* Mutant: one slot always stays empty.
FaultyCanReserve(q, count) ==
    q.closed \/ QueueSize(q) + q.reserved + count < q.capacity

\* A negative count gives slots back.
CanReserve(q, count) == q.closed \/ QueueSize(q) + q.reserved + count <= q.capacity

\* The slots are counted whether or not the call succeeds.
Reserve(q, count) == [q EXCEPT !.reserved = @ + count]

\* Slot i of the buffer after xs was pushed.
SlotAfter(q, xs, i) ==
    LET hits == {j \in 1 .. Len(xs) : (q.pushes + j - 1) % q.capacity = i}
    IN  IF hits = {} THEN q.buffer[i]
        ELSE xs[CHOOSE j \in hits : \A k \in hits : k <= j]

\* The caller has reserved Len(xs) slots; the code CHECKs it.
PushBatch(q, xs) ==
    [q EXCEPT !.reserved = @ - Len(xs),
              !.pushes = @ + Len(xs),
              !.buffer = [i \in DOMAIN q.buffer |->
                              SlotAfter(q, xs, i)]]

\* Pop takes a ticket first and gives it back when it returns.
EnterPop(q) == [q EXCEPT !.num_waiting_to_pop = @ + 1]
CanPop(q) == q.closed \/ QueueSize(q) > 0
Oldest(q) == q.buffer[q.pops % q.capacity]
FailPop(q) == [q EXCEPT !.num_waiting_to_pop = @ - 1]
Pop(q) ==
    [q EXCEPT !.num_waiting_to_pop = @ - 1,
              !.pops = @ + 1,
              !.buffer[q.pops % q.capacity] = NoSample]
=============================================================================
