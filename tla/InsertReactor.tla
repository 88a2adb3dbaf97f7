--------------------------- MODULE InsertReactor ----------------------------
(***************************************************************************)
(* The server side of one InsertStream (WorkerlessInsertReactor in         *)
(* reverb/cc/reverb_service_impl.cc).  A request holds chunks (by key),    *)
(* items and the keys of the chunks to keep.  A response is a sequence of  *)
(* the keys of inserted items.                                             *)
(***************************************************************************)
EXTENDS ServerReactor, FiniteSets

CONSTANTS
    Tables,                 \* the tables of the server
    MaxEnqueuedInserts      \* max_enqueued_inserts_ of the table

Request(chunks, items, keep) ==
    [chunks |-> chunks, items |-> items, keep |-> keep]

NewInsertReactor ==
    MaybeStartRead(
        [read_in_flight |-> FALSE, still_reading |-> TRUE,
         is_finished |-> FALSE, responses |-> << >>, writes |-> 0,
         sending |-> << >>, wire |-> << >>, status |-> None,
         check_failed |-> FALSE, chunks |-> {}])

\* Mutant: reading goes on only when the queue of responses was empty.
FaultyInsertCompleted(r, key) ==
    LET s == IF r.responses = << >> THEN MaybeStartRead(r) ELSE r
        t == IF Len(s.responses) < 2
             THEN [s EXCEPT !.responses = Append(@, << >>)] ELSE s
        u == [t EXCEPT !.responses[Len(t.responses)] = Append(@, key)]
    IN  IF s.is_finished THEN s
        ELSE IF Len(u.responses) = 1 THEN MaybeSendNextResponse(u) ELSE u

\* The callback insert_completed_.  The first response is the one in flight.
InsertCompleted(r, key) ==
    LET s == MaybeStartRead(r)
        t == IF Len(s.responses) < 2
             THEN [s EXCEPT !.responses = Append(@, << >>)] ELSE s
        u == [t EXCEPT !.responses[Len(t.responses)] = Append(@, key)]
    IN  IF s.is_finished THEN s
        ELSE IF Len(u.responses) = 1 THEN MaybeSendNextResponse(u) ELSE u

SaveChunks(r, request) == [r EXCEPT !.chunks = @ \cup request.chunks]

ChunksOf(item) == {item.slices[i].chunk : i \in DOMAIN item.slices}

\* What stops an item: GetItemWithChunks, TableByName.
ItemStatus(r, item) ==
    IF ~ChunksOf(item) \subseteq r.chunks THEN "internal"
    ELSE IF item.table \notin Tables THEN "not_found"
    ELSE "ok"

\* The items that are enqueued, in order: all those before the first bad one.
Accepted(r, items) ==
    LET bad == {i \in DOMAIN items : ItemStatus(r, items[i]) # "ok"}
    IN  IF bad = {} THEN items
        ELSE SubSeq(items, 1, (CHOOSE i \in bad : \A j \in bad : i <= j) - 1)

ReleaseOutOfRangeChunks(r, keep) == [r EXCEPT !.chunks = @ \cap keep]

\* ProcessIncomingRequest; enqueued is the number of inserts waiting in the
\* table when the items of this request have been added.
ProcessInsertRequest(r, request, enqueued) ==
    LET s == SaveChunks(r, request)
        n == Len(Accepted(s, request.items))
        t == ReleaseOutOfRangeChunks(s, request.keep)
    IN  IF request.chunks = {} /\ request.items = << >>
        THEN SetReactorAsFinished(r, "invalid_argument")
        ELSE IF request.items = << >> THEN MaybeStartRead(s)
        ELSE IF n < Len(request.items)
        THEN SetReactorAsFinished(s, ItemStatus(s, request.items[n + 1]))
        ELSE IF Cardinality(t.chunks) # Cardinality(request.keep)
        THEN SetReactorAsFinished(t, "failed_precondition")
        ELSE IF enqueued < MaxEnqueuedInserts THEN MaybeStartRead(t) ELSE t
=============================================================================
