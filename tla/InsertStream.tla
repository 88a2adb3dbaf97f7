---------------------------- MODULE InsertStream ----------------------------
(***************************************************************************)
(* InsertStream calls between one writer and one server: the transport,    *)
(* the reactors of the server and the queue of the table they insert into. *)
(* The writers are other modules, which read and write these variables     *)
(* through the operators of the last part.                                 *)
(*                                                                         *)
(* gRPC is modelled from its use: messages arrive in order, and a stream   *)
(* may break at any moment (Break), with what is under way lost.  The      *)
(* table inserts the items in the order of its queue, whenever its rate    *)
(* limiter lets it (TableInserts).  Bound: Streams.                        *)
(***************************************************************************)
EXTENDS InsertReactor

CONSTANTS
    Streams,        \* the streams, 1 .. n in the order of opening
    BreakStatuses   \* what a broken stream ends with

ASSUME InsertStreamAssumption ==
    /\ Streams \subseteq Nat \ {0} /\ 1 \in Streams
    /\ MaxEnqueuedInserts \in Nat \ {0}
    /\ BreakStatuses \cap {"no", "ok"} = {}    \* it ends with an error
    /\ None \notin {"ok", "internal", "failed_precondition"}

VARIABLES
    stream,     \* the streams, each with its reactor
    table       \* the table: pending_inserts_ and the keys of data_

\* requests: on their way to the server.  writes_done: the client half-closed.
\* ended: "no", or how the transport or the client ended the stream.
UnusedStream ==
    [open |-> FALSE, requests |-> << >>, writes_done |-> FALSE, ended |-> "no",
     reactor |-> NewInsertReactor]

NoStreams == stream = [s \in Streams |-> UnusedStream]
EmptyTable == table = [pending |-> << >>, items |-> {}]

Live(s) == stream[s].open /\ stream[s].ended = "no"

-----------------------------------------------------------------------------
(* Transport, server and table *)

ServerReads(s) ==
    LET r == stream[s].reactor
        request == Head(stream[s].requests)
        new == [i \in 1 .. Len(Accepted(SaveChunks(r, request), request.items))
                   |-> [key |-> request.items[i].key, stream |-> s]]
        pending == IF r.is_finished THEN table.pending
                   ELSE table.pending \o new
    IN  /\ Live(s) /\ r.read_in_flight /\ stream[s].requests # << >>
        /\ table' = [table EXCEPT !.pending = pending]
        /\ stream' = [stream EXCEPT
              ![s].requests = Tail(@),
              ![s].reactor =
                  OnReadDone(r, ProcessInsertRequest(HasRead(r), request,
                                                     Len(pending)))]

ServerReadEnds(s) ==
    /\ Live(s) /\ stream[s].reactor.read_in_flight
    /\ stream[s].writes_done /\ stream[s].requests = << >>
    /\ stream' = [stream EXCEPT ![s].reactor = OnReadEnd(@)]
    /\ UNCHANGED table

ServerWriteDone(s) ==
    /\ stream[s].reactor.writes > 0
    /\ stream' = [stream EXCEPT
                      ![s].reactor = OnWriteDone(@, stream[s].ended = "no")]
    /\ UNCHANGED table

\* The stream with everything under way lost; the server sees OnCancel.
Ended(str, how) ==
    [str EXCEPT !.ended = how, !.requests = << >>,
                !.reactor = OnCancel([@ EXCEPT !.wire = << >>])]

Break(s) ==
    /\ Live(s)
    /\ \E t \in Streams : t > s
    /\ \E how \in BreakStatuses : stream' = [stream EXCEPT ![s] = Ended(@, how)]
    /\ UNCHANGED table

\* An item that is in the table already only gets a new priority.
TableInserts ==
    LET insert == Head(table.pending)
    IN  /\ table.pending # << >>
        /\ table' = [pending |-> Tail(table.pending),
                     items |-> table.items \cup {insert.key}]
        /\ stream' = [stream EXCEPT ![insert.stream].reactor =
                          InsertCompleted(@, insert.key)]

ServerNext ==
    \/ \E s \in Streams :
          ServerReads(s) \/ ServerReadEnds(s) \/ ServerWriteDone(s) \/ Break(s)
    \/ TableInserts

-----------------------------------------------------------------------------
(* What a writer does with a stream and sees of it *)

Unopened == {s \in Streams : ~stream[s].open}
NextStream == CHOOSE s \in Unopened : \A t \in Unopened : s <= t

Opened(s) == [stream EXCEPT ![s].open = TRUE]
Sent(s, request) ==
    IF Live(s) THEN [stream EXCEPT ![s].requests = Append(@, request)]
    ELSE stream
HalfClosed(s) == [stream EXCEPT ![s].writes_done = TRUE]

\* TryCancel on a stream that has ended does nothing.
TryCancelled(s) ==
    IF Live(s) THEN [stream EXCEPT ![s] = Ended(@, "cancelled")] ELSE stream

CanRead(s) == stream[s].reactor.wire # << >>
Response(s) == Head(stream[s].reactor.wire)
ReadFrom(s) == [stream EXCEPT ![s].reactor.wire = Tail(@)]

\* Nothing more will be read, and Finish returns.
AtEnd(s) ==
    \/ stream[s].ended # "no"
    \/ stream[s].reactor.is_finished /\ ~CanRead(s)

StreamStatus(s) ==
    IF stream[s].ended # "no" THEN stream[s].ended ELSE stream[s].reactor.status

\* A write fails once the stream has ended, or seems to succeed when the writer
\* has not heard of that yet.
WriteMayFail(s) == stream[s].ended # "no" \/ stream[s].reactor.is_finished
=============================================================================
