--------------------------- MODULE ServerReactor ----------------------------
(***************************************************************************)
(* The base class of the server side of every bidirectional stream         *)
(* (reverb/cc/reverb_server_reactor.h).  All of its methods run under mu_, *)
(* so each is a function on the record of its fields:                      *)
(*                                                                         *)
(*   read_in_flight, still_reading, is_finished, responses                 *)
(*               as in the code (responses: responses_to_send_)            *)
(*   writes      StartWrite calls whose OnWriteDone has not come           *)
(*   sending     the payload of the write in flight                        *)
(*   wire        responses on their way to the client                      *)
(*   status      what Finish was called with                               *)
(*   check_failed    a REVERB_CHECK of the code does not hold              *)
(*                                                                         *)
(* The derived reactors add fields of their own to this record.            *)
(***************************************************************************)
EXTENDS Integers, Sequences

CONSTANT None

\* Responses leave in the order in which they are written, and gRPC takes the
\* payload when the write starts.
MaybeSendNextResponse(r) ==
    IF r.responses = << >> \/ r.is_finished THEN r
    ELSE [r EXCEPT !.writes = @ + 1,
                   !.sending = Head(r.responses),
                   !.wire = Append(@, Head(r.responses))]

MaybeStartRead(r) ==
    [r EXCEPT !.read_in_flight = @ \/ (r.still_reading /\ ~r.is_finished)]

SetReactorAsFinished(r, status) ==
    [r EXCEPT !.check_failed = \/ @
                               \/ r.is_finished
                               \/ r.responses # << >> /\ status = "ok",
              !.responses = << >>,
              !.is_finished = TRUE,
              !.status = status]

ShouldFinish(r) == r.responses = << >> /\ ~r.still_reading /\ ~r.is_finished

\* OnReadDone when nothing more is read: a half-close, or the end of the stream.
OnReadEnd(r) ==
    LET s == [r EXCEPT !.read_in_flight = FALSE, !.still_reading = FALSE]
    IN  IF ShouldFinish(s) THEN SetReactorAsFinished(s, "ok") ELSE s

\* OnReadDone with a request; processed is what ProcessIncomingRequest and its
\* status make of HasRead(r).
HasRead(r) == [r EXCEPT !.read_in_flight = FALSE]
OnReadDone(r, processed) == IF r.is_finished THEN OnReadEnd(r) ELSE processed

OnWriteDone(r, ok) ==
    LET s == [r EXCEPT !.writes = @ - 1, !.sending = << >>]
        t == [s EXCEPT !.responses = Tail(@)]
    IN  IF s.is_finished THEN s
        ELSE IF ~ok THEN SetReactorAsFinished(s, "internal")
        ELSE IF ~t.still_reading /\ t.responses = << >>
        THEN SetReactorAsFinished(t, "ok")
        ELSE MaybeSendNextResponse(t)

OnCancel(r) ==
    LET s == [r EXCEPT !.still_reading = FALSE]
    IN  IF s.is_finished THEN s ELSE SetReactorAsFinished(s, "internal")

\* gRPC calls OnDone when Finish has been called and nothing is in flight; a
\* read then ends at once.
MayCallOnDone(r) == r.is_finished /\ r.writes = 0
=============================================================================
