------------------------- MODULE InsertStreamProofs -------------------------
(***************************************************************************)
(* What a server makes of the InsertStream calls of a writer, whichever    *)
(* writer it is: the state of the streams and of the table is sound as     *)
(* long as every request that is sent can be understood by the server,     *)
(* when it has read the requests before.  The last part is about chunkers: *)
(* which cells of a chunker can be put into an item.                       *)
(***************************************************************************)
EXTENDS Chunker, InsertStream, SequenceTheorems, FiniteSetTheorems,
        WellFoundedInduction, NaturalsInduction, TLAPS

-----------------------------------------------------------------------------
(* Sequences. *)

IsSeq(s) == s \in Seq(ToSet(s))

LEMMA SeqIsSeq ==
    ASSUME NEW S, NEW s \in Seq(S)
    PROVE  IsSeq(s) /\ ToSet(s) \subseteq S
  BY DEF IsSeq, ToSet

LEMMA IsSeqFacts ==
    ASSUME NEW s, IsSeq(s)
    PROVE  /\ Len(s) \in Nat /\ DOMAIN s = 1 .. Len(s)
           /\ s = [i \in 1 .. Len(s) |-> s[i]]
           /\ s # << >> <=> Len(s) > 0
           /\ \A x : x \in ToSet(s) <=> \E i \in 1 .. Len(s) : x = s[i]
  BY DEF IsSeq, ToSet

LEMMA FunctionIsSeq ==
    ASSUME NEW n \in Nat, NEW s, s = [i \in 1 .. n |-> s[i]]
    PROVE  IsSeq(s) /\ Len(s) = n
  BY DEF IsSeq, ToSet

LEMMA EmptyIsSeq == IsSeq(<< >>) /\ Len(<< >>) = 0 /\ ToSet(<< >>) = {}
  BY DEF IsSeq, ToSet

LEMMA OneIsSeq ==
    ASSUME NEW x
    PROVE  IsSeq(<<x>>) /\ ToSet(<<x>>) = {x} /\ Head(<<x>>) = x /\ Len(<<x>>) = 1
  BY DEF IsSeq, ToSet

LEMMA AppendSeq ==
    ASSUME NEW s, IsSeq(s), NEW e
    PROVE  /\ IsSeq(Append(s, e)) /\ Len(Append(s, e)) = Len(s) + 1
           /\ ToSet(Append(s, e)) = ToSet(s) \cup {e}
           /\ \A i \in 1 .. Len(s) : Append(s, e)[i] = s[i]
           /\ Append(s, e)[Len(s) + 1] = e
  <1>1. s \in Seq(ToSet(s) \cup {e})
    BY DEF IsSeq, ToSet
  <1>2. Append(s, e) \in Seq(ToSet(s) \cup {e})
    BY <1>1
  <1>3. IsSeq(Append(s, e))
    BY <1>2, SeqIsSeq
  <1>4. /\ Len(Append(s, e)) = Len(s) + 1
        /\ \A i \in 1 .. Len(s) : Append(s, e)[i] = s[i]
        /\ Append(s, e)[Len(s) + 1] = e
    BY <1>1
  <1>5. ToSet(Append(s, e)) = ToSet(s) \cup {e}
    <2>1. DOMAIN Append(s, e) = 1 .. Len(s) + 1 /\ DOMAIN s = 1 .. Len(s)
          /\ Len(s) \in Nat
      BY <1>3, <1>4, IsSeqFacts
    <2>2. 1 .. Len(s) + 1 = (1 .. Len(s)) \cup {Len(s) + 1}
      BY <2>1
    <2> QED
      BY <1>4, <2>1, <2>2 DEF ToSet
  <1> QED
    BY <1>3, <1>4, <1>5

LEMMA TailSeq ==
    ASSUME NEW s, IsSeq(s), s # << >>
    PROVE  /\ IsSeq(Tail(s)) /\ Len(Tail(s)) = Len(s) - 1
           /\ \A i \in 1 .. Len(s) - 1 : Tail(s)[i] = s[i + 1]
           /\ Head(s) = s[1] /\ Head(s) \in ToSet(s)
           /\ ToSet(s) = {Head(s)} \cup ToSet(Tail(s))
  <1>1. s \in Seq(ToSet(s))
    BY DEF IsSeq
  <1>2. /\ Tail(s) \in Seq(ToSet(s)) /\ Len(Tail(s)) = Len(s) - 1
        /\ \A i \in 1 .. Len(s) - 1 : Tail(s)[i] = s[i + 1]
        /\ Head(s) = s[1]
    BY <1>1
  <1>3. IsSeq(Tail(s))
    BY <1>2, SeqIsSeq
  <1>4. ToSet(s) = {Head(s)} \cup ToSet(Tail(s))
    <2>1. Len(s) \in Nat /\ Len(s) > 0
      BY IsSeqFacts
    <2>2. \A x : x \in ToSet(Tail(s)) <=> \E i \in 1 .. Len(s) - 1 : x = s[i + 1]
      <3>1. DOMAIN Tail(s) = 1 .. Len(s) - 1
        BY <1>2, <1>3, IsSeqFacts
      <3> QED
        BY <1>2, <3>1 DEF ToSet
    <2>3. \A x : x \in ToSet(s) <=> \E i \in 1 .. Len(s) : x = s[i]
      BY IsSeqFacts
    <2>4. ASSUME NEW x, x \in ToSet(s), x # s[1]
          PROVE  x \in ToSet(Tail(s))
      <3>1. PICK i \in 1 .. Len(s) : x = s[i]
        BY <2>3, <2>4
      <3>2. i # 1 /\ i - 1 \in 1 .. Len(s) - 1 /\ (i - 1) + 1 = i
        BY <2>1, <2>4, <3>1
      <3> QED
        BY <2>2, <3>1, <3>2
    <2>5. ASSUME NEW x, x \in ToSet(Tail(s))
          PROVE  x \in ToSet(s)
      <3>1. PICK i \in 1 .. Len(s) - 1 : x = s[i + 1]
        BY <2>2, <2>5
      <3> QED
        BY <2>1, <2>3, <3>1
    <2> QED
      BY <1>2, <2>1, <2>3, <2>4, <2>5
  <1> QED
    BY <1>2, <1>3, <1>4

-----------------------------------------------------------------------------
(* Reactors. *)

\* Keys of items are numbers.  A response is a sequence of them.
IsReactor(r) ==
    r \in [read_in_flight : BOOLEAN, still_reading : BOOLEAN,
           is_finished : BOOLEAN, responses : Seq(Seq(Nat)), writes : Int,
           sending : {r.sending}, wire : Seq(Seq(Nat)), status : {r.status},
           check_failed : {r.check_failed}, chunks : {r.chunks}]

LEMMA MaybeStartReadFacts ==
    ASSUME NEW r, IsReactor(r)
    PROVE  LET q == MaybeStartRead(r)
           IN  /\ IsReactor(q)
               /\ q.read_in_flight = (r.read_in_flight \/ (r.still_reading /\ ~r.is_finished))
               /\ q.still_reading = r.still_reading /\ q.is_finished = r.is_finished
               /\ q.responses = r.responses /\ q.wire = r.wire
               /\ q.writes = r.writes
               /\ q.status = r.status /\ q.chunks = r.chunks
  BY DEF MaybeStartRead, IsReactor

LEMMA FinishedFacts ==
    ASSUME NEW r, IsReactor(r), NEW status
    PROVE  LET q == SetReactorAsFinished(r, status)
           IN  /\ IsReactor(q) /\ q.is_finished
               /\ q.read_in_flight = r.read_in_flight
               /\ q.still_reading = r.still_reading
               /\ q.responses = << >> /\ q.wire = r.wire
               /\ q.status = status /\ q.chunks = r.chunks
  BY EmptySeq DEF SetReactorAsFinished, IsReactor

LEMMA SendFacts ==
    ASSUME NEW r, IsReactor(r)
    PROVE  LET q == MaybeSendNextResponse(r)
           IN  /\ IsReactor(q)
               /\ q.read_in_flight = r.read_in_flight
               /\ q.still_reading = r.still_reading
               /\ q.is_finished = r.is_finished
               /\ q.responses = r.responses
               /\ q.wire = IF r.responses = << >> \/ r.is_finished THEN r.wire
                           ELSE Append(r.wire, Head(r.responses))
               /\ q.writes = IF r.responses = << >> \/ r.is_finished THEN r.writes
                             ELSE r.writes + 1
               /\ q.status = r.status /\ q.chunks = r.chunks
  <1>1. r.responses \in Seq(Seq(Nat)) /\ r.wire \in Seq(Seq(Nat))
    BY DEF IsReactor
  <1>2. CASE r.responses = << >> \/ r.is_finished
    BY <1>2 DEF MaybeSendNextResponse, IsReactor
  <1>3. CASE ~(r.responses = << >> \/ r.is_finished)
    <2> DEFINE h == Head(r.responses)
               w == Append(r.wire, h)
    <2>1. h \in Seq(Nat)
      BY <1>1, <1>3, EmptySeq
    <2>2. w \in Seq(Seq(Nat))
      BY <1>1, <2>1
    <2> DEFINE n == r.writes + 1
    <2>3. MaybeSendNextResponse(r)
            = [r EXCEPT !.writes = n, !.sending = h, !.wire = w]
      BY <1>3 DEF MaybeSendNextResponse
    <2>5. n \in Int
      BY DEF IsReactor
    <2> HIDE DEF h, w, n
    <2>4. LET q == MaybeSendNextResponse(r)
          IN  /\ IsReactor(q)
              /\ q.read_in_flight = r.read_in_flight
              /\ q.still_reading = r.still_reading
              /\ q.is_finished = r.is_finished
              /\ q.responses = r.responses /\ q.wire = w
              /\ q.writes = n
              /\ q.status = r.status /\ q.chunks = r.chunks
      BY <2>2, <2>3, <2>5 DEF IsReactor
    <2> QED
      BY <1>3, <2>4 DEF h, w, n
  <1> QED
    BY <1>2, <1>3

LEMMA ReadEndFacts ==
    ASSUME NEW r, IsReactor(r)
    PROVE  LET q == OnReadEnd(r)
           IN  /\ IsReactor(q) /\ ~q.still_reading
               /\ r.is_finished => q.is_finished /\ q.status = r.status
               /\ ~r.is_finished /\ q.is_finished => q.status = "ok"
               /\ q.is_finished => q.responses \in {<< >>, r.responses}
               /\ ~q.is_finished => q.responses = r.responses /\ q.writes = r.writes
               /\ q.wire = r.wire /\ q.chunks = r.chunks
  <1> DEFINE s == [r EXCEPT !.read_in_flight = FALSE, !.still_reading = FALSE]
  <1>1. /\ IsReactor(s) /\ ~s.still_reading /\ s.is_finished = r.is_finished
        /\ s.responses = r.responses /\ s.wire = r.wire /\ s.writes = r.writes
        /\ s.status = r.status /\ s.chunks = r.chunks
    BY DEF IsReactor
  <1>2. OnReadEnd(r) = IF ShouldFinish(s) THEN SetReactorAsFinished(s, "ok") ELSE s
    BY DEF OnReadEnd
  <1> HIDE DEF s
  <1>3. CASE ShouldFinish(s)
    BY <1>1, <1>2, <1>3, FinishedFacts DEF ShouldFinish
  <1>4. CASE ~ShouldFinish(s)
    BY <1>1, <1>2, <1>4
  <1> QED
    BY <1>3, <1>4

LEMMA CancelFacts ==
    ASSUME NEW r, IsReactor(r)
    PROVE  LET q == OnCancel([r EXCEPT !.wire = << >>])
           IN  /\ IsReactor(q) /\ ~q.still_reading /\ q.is_finished
               /\ q.responses \in {<< >>, r.responses} /\ q.wire = << >>
               /\ q.chunks = r.chunks
  <1> DEFINE t == [r EXCEPT !.wire = << >>]
             s == [t EXCEPT !.still_reading = FALSE]
  <1>1. /\ IsReactor(s) /\ ~s.still_reading /\ s.is_finished = r.is_finished
        /\ s.responses = r.responses /\ s.wire = << >>
        /\ s.status = r.status /\ s.chunks = r.chunks
    BY EmptySeq DEF IsReactor
  <1>2. OnCancel(t) = IF s.is_finished THEN s ELSE SetReactorAsFinished(s, "internal")
    BY DEF OnCancel
  <1> HIDE DEF s
  <1> QED
    BY <1>1, <1>2, FinishedFacts

LEMMA WriteDoneFacts ==
    ASSUME NEW r, IsReactor(r), NEW ok \in BOOLEAN, ~r.is_finished => r.responses # << >>
    PROVE  LET q == OnWriteDone(r, ok)
               rest == Tail(r.responses)
           IN  /\ IsReactor(q)
               /\ q.still_reading = r.still_reading
               /\ q.read_in_flight = r.read_in_flight /\ q.chunks = r.chunks
               /\ r.is_finished => /\ q.is_finished /\ q.status = r.status
                                   /\ q.responses = r.responses /\ q.wire = r.wire
               /\ ~r.is_finished /\ q.is_finished =>
                      /\ ok => q.status = "ok" /\ ~r.still_reading
                      /\ q.responses = << >> /\ q.wire = r.wire
               /\ ~q.is_finished =>
                      /\ q.status = r.status /\ q.responses = rest
                      /\ q.wire = IF rest = << >> THEN r.wire
                                  ELSE Append(r.wire, Head(rest))
                      /\ q.writes = IF rest = << >> THEN r.writes - 1 ELSE r.writes
  <1> DEFINE n == r.writes - 1
             s == [r EXCEPT !.writes = n, !.sending = << >>]
             rest == Tail(r.responses)
             t == [s EXCEPT !.responses = rest]
  <1>0. r.writes \in Int /\ n \in Int
    BY DEF IsReactor
  <1>2. OnWriteDone(r, ok) =
            IF s.is_finished THEN s
            ELSE IF ~ok THEN SetReactorAsFinished(s, "internal")
            ELSE IF ~t.still_reading /\ t.responses = << >>
            THEN SetReactorAsFinished(t, "ok")
            ELSE MaybeSendNextResponse(t)
    <2>1. s.responses = r.responses
      BY DEF IsReactor
    <2> QED
      BY <2>1 DEF OnWriteDone
  <1> HIDE DEF n
  <1>1. /\ IsReactor(s) /\ s.still_reading = r.still_reading
        /\ s.read_in_flight = r.read_in_flight
        /\ s.is_finished = r.is_finished /\ r.is_finished \in BOOLEAN
        /\ s.responses = r.responses /\ s.wire = r.wire
        /\ s.status = r.status /\ s.chunks = r.chunks /\ s.writes = n
    BY <1>0, EmptySeq DEF IsReactor
  <1>3. CASE r.is_finished \/ ~ok
    <2> HIDE DEF s, t, rest
    <2>1. CASE r.is_finished
      <3>1. OnWriteDone(r, ok) = s
        BY <1>1, <1>2, <2>1
      <3> QED
        BY <1>1, <2>1, <3>1
    <2>2. CASE ~r.is_finished /\ ~ok
      <3> DEFINE q == SetReactorAsFinished(s, "internal")
      <3>1. OnWriteDone(r, ok) = q
        BY <1>1, <1>2, <2>2
      <3>2. /\ IsReactor(q) /\ q.is_finished
            /\ q.read_in_flight = s.read_in_flight
            /\ q.still_reading = s.still_reading
            /\ q.responses = << >> /\ q.wire = s.wire /\ q.chunks = s.chunks
        BY <1>1, FinishedFacts
      <3> HIDE DEF q
      <3> QED
        BY <1>1, <2>2, <3>1, <3>2
    <2> QED
      BY <1>3, <2>1, <2>2
  <1>4. CASE ~r.is_finished /\ ok
    <2>1. rest \in Seq(Seq(Nat))
      BY <1>4 DEF IsReactor
    <2> HIDE DEF rest
    <2>2. /\ t.still_reading = r.still_reading
          /\ t.read_in_flight = r.read_in_flight
          /\ t.is_finished = r.is_finished
          /\ t.responses = rest /\ t.wire = r.wire /\ t.writes = n
          /\ t.status = r.status /\ t.chunks = r.chunks
          /\ IsReactor(t)
      BY <1>0, <2>1, EmptySeq DEF IsReactor
    <2> HIDE DEF s, t
    <2>3. CASE ~t.still_reading /\ t.responses = << >>
      <3>1. OnWriteDone(r, ok) = SetReactorAsFinished(t, "ok")
        BY <1>1, <1>2, <1>4, <2>3
      <3> DEFINE q == SetReactorAsFinished(t, "ok")
      <3>2. /\ IsReactor(q) /\ q.is_finished /\ q.status = "ok"
            /\ q.read_in_flight = t.read_in_flight
            /\ q.still_reading = t.still_reading
            /\ q.responses = << >> /\ q.wire = t.wire /\ q.chunks = t.chunks
        BY <2>2, FinishedFacts
      <3> HIDE DEF q
      <3> QED
        BY <1>4, <2>2, <2>3, <3>1, <3>2 DEF q
    <2>4. CASE ~(~t.still_reading /\ t.responses = << >>)
      <3>1. OnWriteDone(r, ok) = MaybeSendNextResponse(t)
        BY <1>1, <1>2, <1>4, <2>4
      <3> DEFINE q == MaybeSendNextResponse(t)
      <3>2. /\ IsReactor(q)
            /\ q.read_in_flight = r.read_in_flight
            /\ q.still_reading = r.still_reading
            /\ q.is_finished = r.is_finished
            /\ q.responses = rest
            /\ q.wire = IF rest = << >> THEN r.wire ELSE Append(r.wire, Head(rest))
            /\ q.writes = IF rest = << >> THEN n ELSE n + 1
            /\ q.status = r.status /\ q.chunks = r.chunks
        BY <1>4, <2>2, SendFacts
      <3>3. n = r.writes - 1 /\ n + 1 = r.writes
        BY <1>0 DEF n
      <3> HIDE DEF q
      <3> QED
        BY <1>4, <3>1, <3>2, <3>3 DEF q, rest
    <2> QED
      BY <2>3, <2>4
  <1> QED
    BY <1>1, <1>3, <1>4

\* The responses that an insert leaves to be sent: the first one is under way.
Confirming(responses, key) ==
    IF Len(responses) < 2 THEN Append(responses, <<key>>)
    ELSE [responses EXCEPT ![Len(responses)] = Append(@, key)]

LEMMA ConfirmingFacts ==
    ASSUME NEW rs \in Seq(Seq(Nat)), NEW key \in Nat,
           NEW c, c = Confirming(rs, key)
    PROVE  /\ c \in Seq(Seq(Nat)) /\ Len(c) > 0
           /\ Len(c) = IF Len(rs) < 2 THEN Len(rs) + 1 ELSE Len(rs)
           /\ (Len(c) = 1) <=> (rs = << >>)
           /\ rs = << >> => Head(c) = <<key>>
           /\ \A i \in 1 .. Len(c) :
                  c[i] = IF i < Len(c) THEN rs[i]
                         ELSE IF Len(rs) < 2 THEN <<key>> ELSE Append(rs[i], key)
           /\ Len(rs) < 2 => [Append(rs, << >>) EXCEPT ![Len(rs) + 1] = Append(@, key)] = c
  <1>1. Len(rs) \in Nat /\ <<key>> \in Seq(Nat)
    OBVIOUS
  <1>2. rs = << >> <=> Len(rs) = 0
    BY EmptySeq
  <1>3. CASE Len(rs) < 2
    <2> DEFINE a == Append(rs, << >>)
               b == [a EXCEPT ![Len(rs) + 1] = <<key>>]
               d == Append(rs, <<key>>)
    <2>1. c = d
      BY <1>3 DEF Confirming
    <2>2. /\ d \in Seq(Seq(Nat)) /\ Len(d) = Len(rs) + 1
          /\ \A i \in 1 .. Len(rs) : d[i] = rs[i]
          /\ d[Len(rs) + 1] = <<key>>
      BY <1>1, AppendProperties
    <2>3. /\ a \in Seq(Seq(Nat)) /\ Len(a) = Len(rs) + 1
          /\ \A i \in 1 .. Len(rs) : a[i] = rs[i]
          /\ a[Len(rs) + 1] = << >>
      BY <1>1, AppendProperties, EmptySeq
    <2> HIDE DEF a, d
    <2>4. /\ b \in Seq(Seq(Nat)) /\ Len(b) = Len(rs) + 1
          /\ \A i \in 1 .. Len(rs) + 1 : b[i] = IF i = Len(rs) + 1 THEN <<key>> ELSE a[i]
      BY <1>1, <2>3, ExceptSeq
    <2>5. b = d
      <3> HIDE DEF b
      <3> DEFINE g == <<key>>
      <3> HIDE DEF g
      <3>1. ASSUME NEW i \in 1 .. Len(b) PROVE b[i] = d[i]
        <4>1. i \in 1 .. Len(rs) + 1 /\ (i # Len(rs) + 1 => i \in 1 .. Len(rs))
          BY <1>1, <2>4
        <4>2. b[i] = IF i = Len(rs) + 1 THEN g ELSE a[i]
          BY <2>4, <4>1 DEF g
        <4>3. d[Len(rs) + 1] = g
          BY <2>2 DEF g
        <4> QED
          BY <2>2, <2>3, <4>1, <4>2, <4>3
      <3> QED
        BY <2>2, <2>4, <3>1, SeqEqual
    <2>6. [a EXCEPT ![Len(rs) + 1] = Append(@, key)] = b
      <3>1. Append(<< >>, key) = <<key>>
        OBVIOUS
      <3> DEFINE e == a[Len(rs) + 1]
                 f == << >>
                 g == <<key>>
      <3>2. e = f
        BY <2>3
      <3>3. Append(f, key) = g
        BY <3>1
      <3> HIDE DEF e, f, g
      <3>4. Append(e, key) = g
        BY <3>2, <3>3
      <3> QED
        BY <3>4 DEF e, g
    <2>7. Len(d) = 1 <=> rs = << >>
      BY <1>1, <1>2, <2>2
    <2>8. Head(d) = d[1]
      BY <1>1, <2>2, HeadTailProperties, EmptySeq
    <2> HIDE DEF b
    <2>9. [a EXCEPT ![Len(rs) + 1] = Append(@, key)] = c
      BY <2>1, <2>5, <2>6
    <2>10. ASSUME NEW i \in 1 .. Len(c)
           PROVE  c[i] = IF i < Len(c) THEN rs[i]
                         ELSE IF Len(rs) < 2 THEN <<key>> ELSE Append(rs[i], key)
      <3>1. Len(c) = Len(rs) + 1
        BY <2>1, <2>2
      <3>2. i < Len(c) => i \in 1 .. Len(rs)
        BY <1>1, <3>1
      <3>3. ~(i < Len(c)) => i = Len(rs) + 1
        BY <1>1, <3>1
      <3> QED
        BY <1>3, <2>1, <2>2, <3>2, <3>3
    <2>11. c \in Seq(Seq(Nat)) /\ Len(c) > 0 /\ Len(c) = Len(rs) + 1
           /\ (rs = << >> => Head(c) = <<key>>) /\ (Len(c) = 1 <=> rs = << >>)
      BY <1>1, <1>2, <2>1, <2>2, <2>7, <2>8
    <2> QED
      BY <1>3, <2>9, <2>10, <2>11 DEF a
  <1>4. CASE ~(Len(rs) < 2)
    <2> DEFINE e == Append(rs[Len(rs)], key)
               d == [rs EXCEPT ![Len(rs)] = e]
    <2>1. c = d
      BY <1>4 DEF Confirming
    <2>2. Len(rs) \in 1 .. Len(rs)
      BY <1>1, <1>4
    <2>3. rs[Len(rs)] \in Seq(Nat)
      BY <2>2
    <2>4. e \in Seq(Nat)
      BY <2>3, AppendProperties
    <2> HIDE DEF e
    <2>5. /\ d \in Seq(Seq(Nat)) /\ Len(d) = Len(rs)
          /\ \A i \in 1 .. Len(rs) : d[i] = IF i = Len(rs) THEN e ELSE rs[i]
      BY <2>2, <2>4, ExceptSeq
    <2> HIDE DEF d
    <2>6. c \in Seq(Seq(Nat)) /\ Len(c) = Len(rs) /\ Len(c) > 0 /\ rs # << >>
          /\ Len(c) # 1
      <3>1. c \in Seq(Seq(Nat)) /\ Len(c) = Len(rs)
        BY <2>1, <2>5
      <3>0. \A n \in Nat : ~(n < 2) => n # 0 /\ n # 1 /\ n > 0
        OBVIOUS
      <3>2. Len(rs) # 0 /\ Len(rs) # 1 /\ Len(rs) > 0
        BY <1>1, <1>4, <3>0, Zenon
      <3>3. rs # << >>
        BY <1>2, <3>2
      <3> QED
        BY <3>1, <3>2, <3>3, Zenon
    <2>7. ASSUME NEW i \in 1 .. Len(c)
          PROVE  c[i] = IF i < Len(c) THEN rs[i]
                        ELSE IF Len(rs) < 2 THEN <<key>> ELSE Append(rs[i], key)
      <3>1. c[i] = IF i < Len(c) THEN rs[i] ELSE e
        BY <1>1, <2>1, <2>5
      <3>2. ~(i < Len(c)) => i = Len(rs)
        BY <1>1, <2>6
      <3> QED
        BY <1>4, <3>1, <3>2 DEF e
    <2> QED
      BY <1>4, <2>6, <2>7
  <1> QED
    BY <1>3, <1>4

\* q: the reactor after the insert of the key.
Completed(r, key, q) ==
    /\ IsReactor(q)
    /\ q.read_in_flight = (r.read_in_flight \/ (r.still_reading /\ ~r.is_finished))
    /\ q.still_reading = r.still_reading
    /\ q.is_finished = r.is_finished
    /\ q.status = r.status /\ q.chunks = r.chunks
    /\ r.is_finished => q.responses = r.responses /\ q.wire = r.wire
    /\ ~r.is_finished =>
          /\ q.responses = Confirming(r.responses, key)
          /\ q.wire = IF r.responses = << >> THEN Append(r.wire, <<key>>)
                      ELSE r.wire
          /\ q.writes = IF r.responses = << >> THEN r.writes + 1 ELSE r.writes

LEMMA CompletedFacts ==
    ASSUME NEW r, IsReactor(r), NEW key \in Nat
    PROVE  Completed(r, key, InsertCompleted(r, key))
  <1> USE DEF Completed
  <1> DEFINE s == MaybeStartRead(r)
             rs == r.responses
             a == Append(rs, << >>)
             t == IF Len(s.responses) < 2
                  THEN [s EXCEPT !.responses = Append(@, << >>)] ELSE s
             u == [t EXCEPT !.responses[Len(t.responses)] = Append(@, key)]
             c == Confirming(rs, key)
  <1>1. /\ IsReactor(s)
        /\ s.read_in_flight = (r.read_in_flight \/ (r.still_reading /\ ~r.is_finished))
        /\ s.still_reading = r.still_reading /\ s.is_finished = r.is_finished
        /\ s.responses = rs /\ s.wire = r.wire /\ s.writes = r.writes
        /\ s.status = r.status /\ s.chunks = r.chunks
    BY MaybeStartReadFacts
  <1>2. rs \in Seq(Seq(Nat)) /\ Len(rs) \in Nat
    BY DEF IsReactor
  <1>3. InsertCompleted(r, key) = IF s.is_finished THEN s
            ELSE IF Len(u.responses) = 1 THEN MaybeSendNextResponse(u) ELSE u
    BY DEF InsertCompleted
  <1> HIDE DEF s, rs
  <1>5. /\ c \in Seq(Seq(Nat)) /\ Len(c) > 0
        /\ (Len(c) = 1) <=> (rs = << >>)
        /\ rs = << >> => Head(c) = <<key>>
        /\ Len(rs) < 2 => [a EXCEPT ![Len(rs) + 1] = Append(@, key)] = c
    BY <1>2, ConfirmingFacts
  <1>4. u = [s EXCEPT !.responses = c]
    <2>1. CASE Len(rs) < 2
      <3>1. a \in Seq(Seq(Nat)) /\ Len(a) = Len(rs) + 1
        BY <1>2, EmptySeq, AppendProperties
      <3> HIDE DEF a, c
      <3>3. t = [s EXCEPT !.responses = a]
        BY <1>1, <2>1 DEF a
      <3>4. t.responses = a
        BY <1>1, <3>3 DEF IsReactor
      <3>5. u = [t EXCEPT !.responses = [a EXCEPT ![Len(a)] = Append(@, key)]]
        BY <1>1, <3>1, <3>3, <3>4 DEF IsReactor
      <3>6. u = [t EXCEPT !.responses = c]
        BY <1>5, <2>1, <3>1, <3>5
      <3> HIDE DEF t, u
      <3> QED
        BY <1>1, <3>3, <3>6 DEF IsReactor
    <2>2. CASE ~(Len(rs) < 2)
      <3>1. t = s /\ t.responses = rs
        BY <1>1, <2>2
      <3>2. c = [rs EXCEPT ![Len(rs)] = Append(@, key)]
        BY <2>2 DEF Confirming
      <3> QED
        BY <1>1, <3>1, <3>2 DEF IsReactor
    <2> QED
      BY <2>1, <2>2
  <1> HIDE DEF c
  <1>6. /\ IsReactor(u) /\ u.responses = c
        /\ u.read_in_flight = s.read_in_flight /\ u.still_reading = s.still_reading
        /\ u.is_finished = s.is_finished /\ u.status = s.status
        /\ u.chunks = s.chunks /\ u.wire = s.wire /\ u.writes = s.writes
    BY <1>1, <1>4, <1>5 DEF IsReactor
  <1> HIDE DEF u
  <1>7. CASE r.is_finished
    BY <1>1, <1>3, <1>7 DEF rs
  <1>8. CASE ~r.is_finished
    <2>1. CASE rs = << >>
      <3> DEFINE q == MaybeSendNextResponse(u)
      <3>1. InsertCompleted(r, key) = q
        BY <1>1, <1>3, <1>5, <1>6, <1>8, <2>1
      <3>2. u.responses # << >> /\ Head(u.responses) = <<key>>
        BY <1>5, <1>6, <2>1
      <3>3. /\ IsReactor(q)
            /\ q.read_in_flight = u.read_in_flight
            /\ q.still_reading = u.still_reading
            /\ q.is_finished = u.is_finished
            /\ q.responses = u.responses
            /\ q.wire = Append(u.wire, <<key>>) /\ q.writes = u.writes + 1
            /\ q.status = u.status /\ q.chunks = u.chunks
        BY <1>1, <1>6, <1>8, <3>2, SendFacts
      <3> HIDE DEF q
      <3> QED
        BY <1>1, <1>6, <1>8, <2>1, <3>1, <3>3 DEF c, rs
    <2>2. CASE rs # << >>
      <3>1. InsertCompleted(r, key) = u
        BY <1>1, <1>3, <1>5, <1>6, <1>8, <2>2
      <3> QED
        BY <1>1, <1>6, <1>8, <2>2, <3>1 DEF c, rs
    <2> QED
      BY <2>1, <2>2
  <1> QED
    BY <1>7, <1>8

-----------------------------------------------------------------------------
(* Requests, and what the server makes of one. *)

IsRequest(q) ==
    /\ q \in [chunks : {q.chunks}, items : {q.items}, keep : {q.keep}]
    /\ IsSeq(q.items)
    /\ \A i \in DOMAIN q.items : q.items[i].key \in Nat

\* A server that has the chunks "before" takes the request, and then has those
\* of "after".
Link(before, request, after) ==
    /\ \A i \in DOMAIN request.items :
          ChunksOf(request.items[i]) \subseteq before \cup request.chunks
    /\ request.items # << >> => request.keep \subseteq before \cup request.chunks
    /\ after = IF request.items = << >> THEN before \cup request.chunks
               ELSE request.keep

LEMMA LeastExists ==
    ASSUME NEW S \in SUBSET Nat, S # {}
    PROVE  \E i \in S : \A j \in S : i <= j
  <1>1. PICK x \in S : \A y \in S : <<y, x>> \notin OpToRel(<, Nat)
    BY WFMin, NatLessThanWellFounded
  <1>2. \A y \in S : ~(y < x)
    BY <1>1 DEF OpToRel
  <1>3. \A y \in S : x <= y
    BY <1>2
  <1> QED
    BY <1>3

LEMMA AcceptedFacts ==
    ASSUME NEW r, NEW items, IsSeq(items)
    PROVE  LET n == Len(Accepted(r, items))
           IN  \/ n = Len(items)
               \/ n \in Nat /\ n < Len(items) /\ ItemStatus(r, items[n + 1]) # "ok"
  <1> DEFINE bad == {i \in DOMAIN items : ItemStatus(r, items[i]) # "ok"}
  <1>1. Len(items) \in Nat /\ DOMAIN items = 1 .. Len(items)
    BY IsSeqFacts
  <1>2. CASE bad = {}
    BY <1>2 DEF Accepted
  <1>3. CASE bad # {}
    <2> DEFINE b == CHOOSE i \in bad : \A j \in bad : i <= j
    <2>1. bad \in SUBSET Nat
      BY <1>1
    <2>2. b \in bad
      <3> HIDE DEF bad
      <3> QED
        BY <1>3, <2>1, LeastExists
    <2>3. Accepted(r, items) = SubSeq(items, 1, b - 1)
      BY <1>3 DEF Accepted
    <2>4. b \in 1 .. Len(items) /\ ItemStatus(r, items[b]) # "ok"
      BY <1>1, <2>2
    <2> HIDE DEF b
    <2>5. Len(SubSeq(items, 1, b - 1)) = b - 1
      <3>1. items \in Seq(ToSet(items))
        BY DEF IsSeq
      <3>2. 1 \in Int /\ b - 1 \in Int /\ b - 1 <= Len(items) /\ b - 1 >= 0
        BY <1>1, <2>4
      <3> QED
        BY <1>1, <2>4, <3>1, <3>2, SubSeqProperties
    <2>6. b - 1 \in Nat /\ b - 1 < Len(items) /\ (b - 1) + 1 = b
      BY <1>1, <2>4
    <2> QED
      BY <2>3, <2>4, <2>5, <2>6
  <1> QED
    BY <1>2, <1>3

LEMMA AcceptedSame ==
    ASSUME NEW r, NEW s, r.chunks = s.chunks, NEW items
    PROVE  Accepted(r, items) = Accepted(s, items)
  <1>1. \A i : ItemStatus(r, items[i]) = ItemStatus(s, items[i])
    BY DEF ItemStatus
  <1> DEFINE b == {i \in DOMAIN items : ItemStatus(r, items[i]) # "ok"}
             c == {i \in DOMAIN items : ItemStatus(s, items[i]) # "ok"}
             A(bad) == IF bad = {} THEN items
                       ELSE SubSeq(items, 1, (CHOOSE i \in bad : \A j \in bad : i <= j) - 1)
  <1>2. Accepted(r, items) = A(b) /\ Accepted(s, items) = A(c)
    BY DEF Accepted
  <1>3. b = c
    BY <1>1
  <1> HIDE DEF A, b, c
  <1> QED
    BY <1>2, <1>3

\* q: the reactor after the request that took its chunks to "after".
Processed(r, request, after, q) ==
    /\ IsReactor(q) /\ q.still_reading = r.still_reading /\ q.wire = r.wire
    /\ ~q.is_finished =>
          /\ q.chunks = after /\ q.status = r.status
          /\ q.responses = r.responses /\ q.writes = r.writes
    /\ q.is_finished =>
          /\ q.responses = << >>
          /\ q.status \notin {"ok", "internal", "failed_precondition"}
    /\ ~q.is_finished /\ q.still_reading /\ ~q.read_in_flight =>
          /\ request.items # << >>
          /\ Len(Accepted(SaveChunks(r, request), request.items))
                 = Len(request.items)
    /\ ~q.is_finished /\ request.items # << >> =>
          Len(Accepted(SaveChunks(r, request), request.items))
                 = Len(request.items)

LEMMA ProcessFacts ==
    ASSUME NEW r, IsReactor(r), ~r.is_finished, NEW request, IsRequest(request),
           NEW after, Link(r.chunks, request, after), NEW enqueued
    PROVE  Processed(r, request, after,
                     ProcessInsertRequest(HasRead(r), request, enqueued))
  <1> USE DEF Processed
  <1> DEFINE p == HasRead(r)
             s == SaveChunks(p, request)
             n == Len(Accepted(s, request.items))
             t == ReleaseOutOfRangeChunks(s, request.keep)
             q == ProcessInsertRequest(p, request, enqueued)
  <1>1. /\ IsReactor(p) /\ p.still_reading = r.still_reading /\ ~p.is_finished
        /\ p.responses = r.responses /\ p.wire = r.wire /\ p.writes = r.writes
        /\ p.status = r.status /\ p.chunks = r.chunks
    BY DEF HasRead, IsReactor
  <1>2. /\ IsReactor(s) /\ s.still_reading = r.still_reading /\ ~s.is_finished
        /\ s.responses = r.responses /\ s.wire = r.wire /\ s.writes = r.writes
        /\ s.status = r.status /\ s.chunks = r.chunks \cup request.chunks
    <2> HIDE DEF p
    <2> QED
      BY <1>1 DEF SaveChunks, IsReactor
  <1>3. /\ IsReactor(t) /\ t.still_reading = r.still_reading /\ ~t.is_finished
        /\ t.responses = r.responses /\ t.wire = r.wire /\ t.writes = r.writes
        /\ t.status = r.status
        /\ t.chunks = (r.chunks \cup request.chunks) \cap request.keep
    <2> HIDE DEF s
    <2> QED
      BY <1>2 DEF ReleaseOutOfRangeChunks, IsReactor
  <1>4. n = Len(Accepted(SaveChunks(r, request), request.items))
    <2>1. SaveChunks(r, request).chunks = s.chunks
      BY <1>2 DEF SaveChunks, IsReactor
    <2> QED
      BY <2>1, AcceptedSame
  <1>5. q = IF request.chunks = {} /\ request.items = << >>
            THEN SetReactorAsFinished(p, "invalid_argument")
            ELSE IF request.items = << >> THEN MaybeStartRead(s)
            ELSE IF n < Len(request.items)
            THEN SetReactorAsFinished(s, ItemStatus(s, request.items[n + 1]))
            ELSE IF Cardinality(t.chunks) # Cardinality(request.keep)
            THEN SetReactorAsFinished(t, "failed_precondition")
            ELSE IF enqueued < MaxEnqueuedInserts THEN MaybeStartRead(t) ELSE t
    BY DEF ProcessInsertRequest
  <1> HIDE DEF p, s, n, t, q
  <1>6. CASE request.chunks = {} /\ request.items = << >>
    <2>1. q = SetReactorAsFinished(p, "invalid_argument")
      BY <1>5, <1>6
    <2>2. /\ IsReactor(q) /\ q.is_finished /\ q.still_reading = p.still_reading
          /\ q.responses = << >> /\ q.wire = p.wire
          /\ q.status = "invalid_argument"
      BY <1>1, <2>1, FinishedFacts
    <2> QED
      BY <1>1, <2>2 DEF q, p
  <1>7. CASE request.items = << >> /\ request.chunks # {}
    <2>1. q = MaybeStartRead(s)
      BY <1>5, <1>7
    <2>2. /\ IsReactor(q) /\ q.is_finished = s.is_finished
          /\ q.still_reading = s.still_reading
          /\ q.read_in_flight = (s.read_in_flight \/ (s.still_reading /\ ~s.is_finished))
          /\ q.responses = s.responses /\ q.wire = s.wire /\ q.writes = s.writes
          /\ q.status = s.status /\ q.chunks = s.chunks
      BY <1>2, <2>1, MaybeStartReadFacts
    <2>3. after = s.chunks
      BY <1>2, <1>7 DEF Link
    <2> QED
      BY <1>2, <1>7, <2>2, <2>3 DEF q, p
  <1>8. CASE request.items # << >>
    <2>1. IsSeq(request.items)
      BY DEF IsRequest
    <2>2. CASE n < Len(request.items)
      <3> DEFINE status == ItemStatus(s, request.items[n + 1])
      <3>1. n \in Nat /\ status # "ok"
        <4>1. Len(request.items) \in Nat
          BY <2>1, IsSeqFacts
        <4> QED
          BY <2>1, <2>2, <4>1, AcceptedFacts DEF n
      <3>2. n + 1 \in DOMAIN request.items
        BY <2>1, <2>2, <3>1, IsSeqFacts
      <3>3. ChunksOf(request.items[n + 1]) \subseteq s.chunks
        BY <1>2, <3>2 DEF Link
      <3>4. status = "not_found"
        BY <3>1, <3>3 DEF ItemStatus
      <3>5. q = SetReactorAsFinished(s, status)
        BY <1>5, <1>8, <2>2
      <3>6. /\ IsReactor(q) /\ q.is_finished /\ q.still_reading = s.still_reading
            /\ q.responses = << >> /\ q.wire = s.wire
            /\ q.status = status
        BY <1>2, <3>5, FinishedFacts
      <3> QED
        BY <1>2, <3>4, <3>6 DEF q, p
    <2>3. CASE ~(n < Len(request.items))
      <3>1. t.chunks = request.keep /\ after = request.keep
        BY <1>3, <1>8 DEF Link
      <3>2. n = Len(request.items)
        BY <2>1, <2>3, AcceptedFacts DEF n
      <3>3. q = IF enqueued < MaxEnqueuedInserts THEN MaybeStartRead(t) ELSE t
        BY <1>5, <1>8, <2>3, <3>1
      <3>4. /\ IsReactor(q) /\ q.is_finished = t.is_finished
            /\ q.still_reading = t.still_reading
            /\ q.responses = t.responses /\ q.wire = t.wire /\ q.writes = t.writes
            /\ q.status = t.status /\ q.chunks = t.chunks
        BY <1>3, <3>3, MaybeStartReadFacts
      <3> QED
        BY <1>3, <1>4, <1>8, <3>1, <3>2, <3>4 DEF q, p
    <2> QED
      BY <2>2, <2>3
  <1> QED
    BY <1>6, <1>7, <1>8

-----------------------------------------------------------------------------
(* What the server will have when it has read all that is under way. *)

Chain(requests, K) ==
    \A i \in 1 .. Len(requests) : Link(K[i - 1], requests[i], K[i])

\* K[i]: the chunks of the server after i more requests.
Reaches(str, chunks) ==
    \E K : /\ K[0] = str.reactor.chunks /\ K[Len(str.requests)] = chunks
           /\ Chain(str.requests, K)

LEMMA ReachesNow ==
    ASSUME NEW str, str.requests = << >>
    PROVE  Reaches(str, str.reactor.chunks)
  <1> DEFINE K == [i \in {0} |-> str.reactor.chunks]
  <1>1. K[0] = str.reactor.chunks /\ Len(str.requests) = 0
    OBVIOUS
  <1>2. Chain(str.requests, K)
    BY <1>1 DEF Chain
  <1> HIDE DEF K
  <1> QED
    BY <1>1, <1>2 DEF Reaches

LEMMA ReachesSame ==
    ASSUME NEW str, NEW str2, str2.requests = str.requests,
           str2.reactor.chunks = str.reactor.chunks, NEW X, Reaches(str, X)
    PROVE  Reaches(str2, X)
  BY DEF Reaches

LEMMA ReachesSent ==
    ASSUME NEW str, IsSeq(str.requests), NEW X, Reaches(str, X),
           NEW q, NEW Y, Link(X, q, Y),
           NEW str2, str2.requests = Append(str.requests, q),
           str2.reactor.chunks = str.reactor.chunks
    PROVE  Reaches(str2, Y)
  <1> DEFINE qs == str.requests
             n == Len(qs)
  <1>1. PICK K : K[0] = str.reactor.chunks /\ K[n] = X /\ Chain(qs, K)
    BY DEF Reaches
  <1>2. n \in Nat
    BY IsSeqFacts
  <1>3. /\ Len(Append(qs, q)) = n + 1
        /\ \A i \in 1 .. n : Append(qs, q)[i] = qs[i]
        /\ Append(qs, q)[n + 1] = q
    BY AppendSeq
  <1> DEFINE J == [i \in 0 .. n + 1 |-> IF i = n + 1 THEN Y ELSE K[i]]
  <1>4. J[0] = K[0] /\ J[n + 1] = Y /\ \A i \in 0 .. n : J[i] = K[i]
    BY <1>2
  <1> HIDE DEF J
  <1>5. ASSUME NEW i \in 1 .. n + 1
        PROVE  Link(J[i - 1], Append(qs, q)[i], J[i])
    <2>1. CASE i = n + 1
      <3>1. J[i - 1] = X
        BY <1>1, <1>2, <1>4, <2>1
      <3> QED
        BY <1>3, <1>4, <2>1, <3>1
    <2>2. CASE i # n + 1
      <3>1. i \in 1 .. n /\ i - 1 \in 0 .. n /\ i \in 0 .. n
        BY <1>2, <2>2
      <3>2. J[i - 1] = K[i - 1] /\ J[i] = K[i] /\ Append(qs, q)[i] = qs[i]
        BY <1>3, <1>4, <3>1
      <3> QED
        BY <1>1, <3>1, <3>2 DEF Chain
    <2> QED
      BY <2>1, <2>2
  <1>6. Chain(Append(qs, q), J)
    BY <1>3, <1>5 DEF Chain
  <1> QED
    BY <1>1, <1>3, <1>4, <1>6 DEF Reaches

LEMMA ReachesRead ==
    ASSUME NEW str, IsSeq(str.requests), str.requests # << >>,
           NEW X, Reaches(str, X)
    PROVE  \E Y : /\ Link(str.reactor.chunks, Head(str.requests), Y)
                  /\ \A str2 : /\ str2.requests = Tail(str.requests)
                               /\ str2.reactor.chunks = Y
                               => Reaches(str2, X)
  <1> DEFINE qs == str.requests
             n == Len(qs)
  <1>1. PICK K : K[0] = str.reactor.chunks /\ K[n] = X /\ Chain(qs, K)
    BY DEF Reaches
  <1>2. n \in Nat /\ n > 0
    BY IsSeqFacts
  <1>3. /\ Len(Tail(qs)) = n - 1 /\ Head(qs) = qs[1]
        /\ \A i \in 1 .. n - 1 : Tail(qs)[i] = qs[i + 1]
    BY TailSeq
  <1>4. Link(K[0], qs[1], K[1])
    <2>1. 1 \in 1 .. n /\ 1 - 1 = 0
      BY <1>2
    <2>2. Link(K[1 - 1], qs[1], K[1])
      BY <1>1, <2>1 DEF Chain
    <2> QED
      BY <2>1, <2>2
  <1>5. ASSUME NEW str2, str2.requests = Tail(qs), str2.reactor.chunks = K[1]
        PROVE  Reaches(str2, X)
    <2> DEFINE J == [i \in 0 .. n - 1 |-> K[i + 1]]
    <2>1. J[0] = K[1] /\ J[n - 1] = K[n] /\ \A i \in 0 .. n - 1 : J[i] = K[i + 1]
      BY <1>2
    <2> HIDE DEF J
    <2>2. ASSUME NEW i \in 1 .. n - 1
          PROVE  Link(J[i - 1], Tail(qs)[i], J[i])
      <3>1. i + 1 \in 1 .. n /\ (i + 1) - 1 = i /\ i - 1 \in 0 .. n - 1
            /\ i \in 0 .. n - 1 /\ (i - 1) + 1 = i
        BY <1>2
      <3>2. Link(K[(i + 1) - 1], qs[i + 1], K[i + 1])
        BY <1>1, <3>1 DEF Chain
      <3>3. J[i - 1] = K[i] /\ J[i] = K[i + 1] /\ Tail(qs)[i] = qs[i + 1]
        BY <1>3, <2>1, <3>1
      <3> QED
        BY <3>1, <3>2, <3>3
    <2>3. Chain(Tail(qs), J)
      BY <1>3, <2>2 DEF Chain
    <2> QED
      BY <1>1, <1>3, <1>5, <2>1, <2>3 DEF Reaches
  <1> QED
    BY <1>1, <1>3, <1>4, <1>5

-----------------------------------------------------------------------------
(* The invariant of the streams and of the table. *)

IsStream(str) ==
    /\ str \in [open : BOOLEAN, requests : {str.requests}, writes_done : BOOLEAN,
                ended : {str.ended}, reactor : {str.reactor}]
    /\ IsSeq(str.requests) /\ IsReactor(str.reactor)
    /\ \A i \in DOMAIN str.requests : IsRequest(str.requests[i])

\* What is sent will still be read.
Active(str) == str.ended = "no" /\ ~str.reactor.is_finished

\* How many writes of responses are under way; at most one.
WritesMatch(r) ==
    ~r.is_finished => r.writes = (IF r.responses = << >> THEN 0 ELSE 1)

\* What is confirmed, or will be, is in the table.
ConfirmsOnly(r, items) ==
    \A rs \in {r.responses, r.wire} :
        \A i \in DOMAIN rs : ToSet(rs[i]) \subseteq items

\* How a stream ends.  Only a half-close makes the server finish without error.
EndsRightly(str) ==
    LET r == str.reactor
    IN  /\ str.ended # "no" => r.is_finished /\ str.ended # "ok"
        /\ ~r.is_finished => r.status = None
        /\ str.ended = "no" => r.status \notin {"internal", "failed_precondition"}
        /\ str.ended = "no" /\ ~str.writes_done =>
              IF r.is_finished THEN r.status # "ok" ELSE r.still_reading

StreamOk(str, items) ==
    /\ IsStream(str)
    /\ ~str.open => str = UnusedStream
    /\ WritesMatch(str.reactor)
    /\ ConfirmsOnly(str.reactor, items)
    /\ EndsRightly(str)
    /\ Active(str) => \E X : Reaches(str, X)

TableOk ==
    /\ table \in [pending : {table.pending}, items : {table.items}]
    /\ IsSeq(table.pending) /\ table.items \subseteq Nat
    /\ \A i \in DOMAIN table.pending :
          /\ table.pending[i].key \in Nat /\ table.pending[i].stream \in Streams
          /\ stream[table.pending[i].stream].open

\* A server that does not read waits for an insert.
WaitsForInsert(s) ==
    LET r == stream[s].reactor
    IN  ~r.is_finished /\ r.still_reading /\ ~r.read_in_flight
        => \E i \in DOMAIN table.pending : table.pending[i].stream = s

ServerInv ==
    /\ stream \in [Streams -> {stream[s] : s \in Streams}]
    /\ \A s \in Streams : StreamOk(stream[s], table.items)
    /\ TableOk
    /\ \A s \in Streams : WaitsForInsert(s)

\* What a step does not do to what is under way on a stream.
Keeps(str, str2) ==
    /\ str2.open = str.open /\ str2.writes_done = str.writes_done
    /\ Active(str2) => Active(str) /\ \A X : Reaches(str, X) => Reaches(str2, X)

-----------------------------------------------------------------------------
(* Steps. *)

LEMMA StreamChanged ==
    ASSUME ServerInv, NEW s \in Streams, NEW str2,
           stream' = [stream EXCEPT ![s] = str2]
    PROVE  /\ stream' \in [Streams -> {stream'[t] : t \in Streams}]
           /\ stream'[s] = str2
           /\ \A t \in Streams : t # s => stream'[t] = stream[t]
  <1>1. /\ stream'[s] = str2
        /\ \A t \in Streams : t # s => stream'[t] = stream[t]
        /\ DOMAIN stream' = Streams
        /\ stream' = [t \in Streams |-> stream'[t]]
    BY DEF ServerInv
  <1> QED
    BY <1>1

\* A step that changes one stream and leaves the table alone.
LEMMA StreamStep ==
    ASSUME ServerInv, NEW s \in Streams, NEW str2,
           stream' = [stream EXCEPT ![s] = str2], table' = table,
           StreamOk(str2, table.items), stream[s].open => str2.open,
           LET r == stream[s].reactor
               q == str2.reactor
           IN  ~q.is_finished /\ q.still_reading /\ ~q.read_in_flight =>
                   ~r.is_finished /\ r.still_reading /\ ~r.read_in_flight
    PROVE  ServerInv'
  <1>1. /\ stream' \in [Streams -> {stream'[t] : t \in Streams}]
        /\ stream'[s] = str2
        /\ \A t \in Streams : t # s => stream'[t] = stream[t]
    BY StreamChanged
  <1>2. ASSUME NEW t \in Streams
        PROVE  StreamOk(stream'[t], table'.items)
    BY <1>1 DEF ServerInv
  <1>3. TableOk'
    <2>1. \A t \in Streams : stream[t].open => stream'[t].open
      BY <1>1
    <2> QED
      BY <2>1 DEF TableOk, ServerInv
  <1>4. ASSUME NEW t \in Streams
        PROVE  WaitsForInsert(t)'
    <2>1. WaitsForInsert(t)
      BY DEF ServerInv
    <2>2. CASE t = s
      BY <1>1, <2>1, <2>2 DEF WaitsForInsert
    <2>3. CASE t # s
      BY <1>1, <2>1, <2>3 DEF WaitsForInsert
    <2> QED
      BY <2>2, <2>3
  <1> QED
    BY <1>1, <1>2, <1>3, <1>4 DEF ServerInv

\* A stream whose reactor is replaced.
LEMMA NewReactor ==
    ASSUME NEW str, IsStream(str), NEW q, IsReactor(q), NEW str2,
           str2 = [str EXCEPT !.reactor = q]
    PROVE  /\ IsStream(str2) /\ str2.reactor = q /\ str2.open = str.open
           /\ str2.requests = str.requests /\ str2.ended = str.ended
           /\ str2.writes_done = str.writes_done
  BY DEF IsStream

LEMMA ReadEndsStep ==
    ASSUME ServerInv, NEW s \in Streams, ServerReadEnds(s)
    PROVE  ServerInv' /\ \A t \in Streams : Keeps(stream[t], stream'[t])
  <1> DEFINE str == stream[s]
             r == str.reactor
             q == OnReadEnd(r)
             str2 == [str EXCEPT !.reactor = q]
  <1>1. StreamOk(str, table.items) /\ IsStream(str) /\ IsReactor(r)
    BY DEF ServerInv, StreamOk, IsStream
  <1>2. stream' = [stream EXCEPT ![s] = str2] /\ table' = table
        /\ str.open /\ str.ended = "no" /\ str.writes_done
    BY DEF ServerReadEnds, Live, ServerInv
  <1>3. /\ IsReactor(q) /\ ~q.still_reading
        /\ r.is_finished => q.is_finished /\ q.status = r.status
        /\ ~r.is_finished /\ q.is_finished => q.status = "ok"
        /\ q.is_finished => q.responses \in {<< >>, r.responses}
        /\ ~q.is_finished => q.responses = r.responses /\ q.writes = r.writes
        /\ q.wire = r.wire /\ q.chunks = r.chunks
    BY <1>1, ReadEndFacts
  <1>9. ~q.is_finished => q.status = r.status
    BY <1>1 DEF OnReadEnd, SetReactorAsFinished, IsReactor
  <1> HIDE DEF q
  <1>4. /\ IsStream(str2) /\ str2.reactor = q /\ str2.open = str.open
        /\ str2.requests = str.requests /\ str2.ended = str.ended
        /\ str2.writes_done = str.writes_done
    BY <1>1, <1>3, NewReactor
  <1> HIDE DEF str2
  <1>5. Keeps(str, str2)
    <2>1. \A X : Reaches(str, X) => Reaches(str2, X)
      BY <1>3, <1>4, ReachesSame
    <2> QED
      BY <1>2, <1>3, <1>4, <2>1 DEF Keeps, Active
  <1>6. StreamOk(str2, table.items)
    <2>1. WritesMatch(q)
      BY <1>1, <1>3 DEF StreamOk, WritesMatch
    <2>2. ConfirmsOnly(q, table.items)
      BY <1>1, <1>3 DEF StreamOk, ConfirmsOnly
    <2>3. EndsRightly(str2)
      BY <1>1, <1>2, <1>3, <1>4, <1>9 DEF StreamOk, EndsRightly
    <2> QED
      BY <1>1, <1>2, <1>4, <1>5, <2>1, <2>2, <2>3 DEF StreamOk, Keeps, Active
  <1>7. ServerInv'
    BY <1>2, <1>3, <1>4, <1>6, StreamStep
  <1>8. ASSUME NEW t \in Streams
        PROVE  Keeps(stream[t], stream'[t])
    BY <1>2, <1>5, StreamChanged DEF Keeps
  <1> QED
    BY <1>7, <1>8

LEMMA WriteDoneStep ==
    ASSUME ServerInv, NEW s \in Streams, ServerWriteDone(s)
    PROVE  ServerInv' /\ \A t \in Streams : Keeps(stream[t], stream'[t])
  <1> DEFINE str == stream[s]
             r == str.reactor
             ok == str.ended = "no"
             q == OnWriteDone(r, ok)
             rest == Tail(r.responses)
             str2 == [str EXCEPT !.reactor = q]
  <1>1. StreamOk(str, table.items) /\ IsStream(str) /\ IsReactor(r)
    BY DEF ServerInv, StreamOk, IsStream
  <1>2. stream' = [stream EXCEPT ![s] = str2] /\ table' = table /\ r.writes > 0
    BY DEF ServerWriteDone, ServerInv
  <1>3. ~r.is_finished => r.responses # << >> /\ r.writes = 1
    BY <1>1, <1>2 DEF StreamOk, WritesMatch
  <1>4. /\ IsReactor(q)
        /\ q.still_reading = r.still_reading
        /\ q.read_in_flight = r.read_in_flight /\ q.chunks = r.chunks
        /\ r.is_finished => /\ q.is_finished /\ q.status = r.status
                            /\ q.responses = r.responses /\ q.wire = r.wire
        /\ ~r.is_finished /\ q.is_finished =>
               /\ ok => q.status = "ok" /\ ~r.still_reading
               /\ q.responses = << >> /\ q.wire = r.wire
        /\ ~q.is_finished =>
               /\ q.status = r.status /\ q.responses = rest
               /\ q.wire = IF rest = << >> THEN r.wire ELSE Append(r.wire, Head(rest))
               /\ q.writes = IF rest = << >> THEN r.writes - 1 ELSE r.writes
    <2>1. ok \in BOOLEAN
      OBVIOUS
    <2> HIDE DEF ok
    <2> QED
      BY <1>1, <1>3, <2>1, WriteDoneFacts
  <1> HIDE DEF q
  <1>5. /\ IsStream(str2) /\ str2.reactor = q /\ str2.open = str.open
        /\ str2.requests = str.requests /\ str2.ended = str.ended
        /\ str2.writes_done = str.writes_done
    BY <1>1, <1>4, NewReactor
  <1>6. str.open
    <2>1. UnusedStream.reactor.writes = 0
      BY DEF UnusedStream, NewInsertReactor, MaybeStartRead
    <2> QED
      BY <1>1, <1>2, <2>1 DEF StreamOk
  <1> HIDE DEF str2
  <1>7. Keeps(str, str2)
    <2>1. \A X : Reaches(str, X) => Reaches(str2, X)
      BY <1>4, <1>5, ReachesSame
    <2> QED
      BY <1>4, <1>5, <2>1 DEF Keeps, Active
  <1>8. StreamOk(str2, table.items)
    <2>1. WritesMatch(q)
      <3> HIDE DEF rest
      <3>1. ~q.is_finished => ~r.is_finished
        BY <1>4
      <3>2. ~q.is_finished => q.responses = rest
                              /\ q.writes = IF rest = << >> THEN 0 ELSE 1
        BY <1>3, <1>4, <3>1
      <3> QED
        BY <3>2 DEF WritesMatch
    <2>2. ConfirmsOnly(q, table.items)
      <3>1. ConfirmsOnly(r, table.items)
        BY <1>1 DEF StreamOk
      <3>2. CASE q.is_finished
        BY <1>4, <3>1, <3>2 DEF ConfirmsOnly
      <3>3. CASE ~q.is_finished
        <4>1. ~r.is_finished /\ r.responses # << >>
          BY <1>3, <1>4, <3>3
        <4>2. /\ r.responses \in Seq(Seq(Nat)) /\ r.wire \in Seq(Seq(Nat))
          BY <1>1 DEF IsReactor
        <4>3. /\ rest \in Seq(Seq(Nat)) /\ Len(rest) = Len(r.responses) - 1
              /\ \A i \in 1 .. Len(rest) : rest[i] = r.responses[i + 1]
          BY <4>1, <4>2
        <4> HIDE DEF rest
        <4>4. ASSUME NEW i \in DOMAIN rest PROVE ToSet(rest[i]) \subseteq table.items
          <5>1. /\ DOMAIN rest = 1 .. Len(rest) /\ Len(r.responses) \in Nat
                /\ DOMAIN r.responses = 1 .. Len(r.responses)
            BY <4>2, <4>3, LenProperties
          <5>3. i \in 1 .. Len(rest)
            BY <5>1, Zenon
          <5>4. i + 1 \in 1 .. Len(r.responses)
            BY <4>3, <5>1, <5>3
          <5>2. i + 1 \in DOMAIN r.responses /\ rest[i] = r.responses[i + 1]
            BY <4>3, <5>1, <5>3, <5>4, Zenon
          <5> QED
            BY <3>1, <5>2 DEF ConfirmsOnly
        <4>5. ASSUME NEW i \in DOMAIN q.wire PROVE ToSet(q.wire[i]) \subseteq table.items
          <5>1. CASE rest = << >>
            BY <1>4, <3>1, <3>3, <5>1 DEF ConfirmsOnly
          <5>2. CASE rest # << >>
            <6> DEFINE h == Head(rest)
            <6>1. h = rest[1] /\ 1 \in DOMAIN rest /\ h \in Seq(Nat)
              BY <4>3, <5>2, HeadTailProperties, EmptySeq
            <6> HIDE DEF h
            <6>2. q.wire = Append(r.wire, h)
              BY <1>4, <3>3, <5>2 DEF h
            <6>3. (i \in DOMAIN r.wire /\ q.wire[i] = r.wire[i]) \/ q.wire[i] = h
              BY <4>2, <6>1, <6>2, AppendProperties
            <6> QED
              BY <3>1, <4>4, <6>1, <6>3 DEF ConfirmsOnly
          <5> QED
            BY <5>1, <5>2
        <4> QED
          BY <1>4, <3>3, <4>4, <4>5 DEF ConfirmsOnly
      <3> QED
        BY <3>2, <3>3
    <2>3. EndsRightly(str2)
      <3>1. EndsRightly(str) /\ None \notin {"ok", "internal", "failed_precondition"}
        BY <1>1, InsertStreamAssumption DEF StreamOk
      <3> QED
        BY <1>4, <1>5, <3>1 DEF EndsRightly
    <2> QED
      BY <1>1, <1>5, <1>6, <1>7, <2>1, <2>2, <2>3 DEF StreamOk, Keeps, Active
  <1>9. ServerInv'
    BY <1>2, <1>4, <1>5, <1>8, StreamStep
  <1>10. ASSUME NEW t \in Streams
         PROVE  Keeps(stream[t], stream'[t])
    BY <1>2, <1>7, StreamChanged DEF Keeps
  <1> QED
    BY <1>9, <1>10

LEMMA EndedStep ==
    ASSUME ServerInv, NEW s \in Streams, stream[s].open, NEW how,
           how \notin {"no", "ok"},
           stream' = [stream EXCEPT ![s] = Ended(stream[s], how)], table' = table
    PROVE  ServerInv' /\ \A t \in Streams : Keeps(stream[t], stream'[t])
  <1> DEFINE str == stream[s]
             r == str.reactor
             q == OnCancel([r EXCEPT !.wire = << >>])
             str2 == Ended(str, how)
  <1>1. StreamOk(str, table.items) /\ IsStream(str) /\ IsReactor(r)
    BY DEF ServerInv, StreamOk, IsStream
  <1>2. /\ IsReactor(q) /\ ~q.still_reading /\ q.is_finished
        /\ q.responses \in {<< >>, r.responses} /\ q.wire = << >>
        /\ q.chunks = r.chunks
    BY <1>1, CancelFacts
  <1>3. str2 = [str EXCEPT !.ended = how, !.requests = << >>, !.reactor = q]
    BY <1>1 DEF Ended, IsStream
  <1> HIDE DEF q, str2
  <1>4. /\ IsStream(str2) /\ str2.reactor = q /\ str2.open = str.open
        /\ str2.requests = << >> /\ str2.ended = how
        /\ str2.writes_done = str.writes_done
    <2> DEFINE e == << >>
    <2>1. IsSeq(e) /\ \A i \in DOMAIN e : IsRequest(e[i])
      BY EmptyIsSeq
    <2>2. str2 = [str EXCEPT !.ended = how, !.requests = e, !.reactor = q]
      BY <1>3
    <2> HIDE DEF e
    <2>3. /\ IsStream(str2) /\ str2.reactor = q /\ str2.open = str.open
          /\ str2.requests = e /\ str2.ended = how
          /\ str2.writes_done = str.writes_done
      BY <1>1, <1>2, <2>1, <2>2 DEF IsStream
    <2> QED
      BY <2>3 DEF e
  <1>5. Keeps(str, str2)
    BY <1>2, <1>4 DEF Keeps, Active
  <1>6. StreamOk(str2, table.items)
    <2>1. ConfirmsOnly(q, table.items)
      BY <1>1, <1>2 DEF StreamOk, ConfirmsOnly
    <2>2. EndsRightly(str2)
      BY <1>2, <1>4 DEF EndsRightly
    <2> QED
      BY <1>1, <1>2, <1>4, <1>5, <2>1, <2>2 DEF StreamOk, Active, WritesMatch
  <1>7. ServerInv'
    BY <1>2, <1>4, <1>6, StreamStep DEF str2
  <1>8. ASSUME NEW t \in Streams
        PROVE  Keeps(stream[t], stream'[t])
    BY <1>5, StreamChanged DEF Keeps, str2
  <1> QED
    BY <1>7, <1>8

LEMMA BreakStep ==
    ASSUME ServerInv, NEW s \in Streams, Break(s)
    PROVE  ServerInv' /\ \A t \in Streams : Keeps(stream[t], stream'[t])
  <1>1. PICK how \in BreakStatuses : stream' = [stream EXCEPT ![s] = Ended(stream[s], how)]
    BY DEF Break, ServerInv
  <1>2. how \notin {"no", "ok"} /\ stream[s].open /\ table' = table
    BY InsertStreamAssumption DEF Break, Live
  <1> QED
    BY <1>1, <1>2, EndedStep

LEMMA ConcatSeq ==
    ASSUME NEW s, IsSeq(s), NEW t, IsSeq(t)
    PROVE  /\ IsSeq(s \o t) /\ Len(s \o t) = Len(s) + Len(t)
           /\ \A i \in 1 .. Len(s) : (s \o t)[i] = s[i]
           /\ \A i \in 1 .. Len(t) : (s \o t)[Len(s) + i] = t[i]
           /\ ToSet(s \o t) = ToSet(s) \cup ToSet(t)
  <1> DEFINE S == ToSet(s) \cup ToSet(t)
             u == s \o t
  <1>1. s \in Seq(S) /\ t \in Seq(S)
    BY DEF IsSeq, ToSet
  <1>2. Len(s) \in Nat /\ Len(t) \in Nat
    BY <1>1
  <1>3. /\ u \in Seq(S) /\ Len(u) = Len(s) + Len(t)
        /\ \A i \in 1 .. Len(s) + Len(t) : u[i] = IF i <= Len(s) THEN s[i] ELSE t[i - Len(s)]
    BY <1>1, ConcatProperties
  <1> HIDE DEF u, S
  <1>4. IsSeq(u) /\ ToSet(u) \subseteq S
    BY <1>3, SeqIsSeq
  <1>5. \A i \in 1 .. Len(s) : u[i] = s[i]
    BY <1>2, <1>3
  <1>6. ASSUME NEW i \in 1 .. Len(t) PROVE u[Len(s) + i] = t[i]
    <2>1. Len(s) + i \in 1 .. Len(s) + Len(t) /\ ~(Len(s) + i <= Len(s))
          /\ (Len(s) + i) - Len(s) = i
      BY <1>2
    <2> QED
      BY <1>3, <2>1
  <1>7. DOMAIN u = 1 .. Len(s) + Len(t) /\ DOMAIN s = 1 .. Len(s) /\ DOMAIN t = 1 .. Len(t)
    BY <1>3, <1>4, IsSeqFacts
  <1>8. ASSUME NEW x \in ToSet(s) PROVE x \in ToSet(u)
    <2>1. PICK i \in 1 .. Len(s) : x = s[i]
      BY <1>7 DEF ToSet
    <2>2. i \in 1 .. Len(s) + Len(t)
      BY <1>2
    <2> QED
      BY <1>5, <1>7, <2>1, <2>2 DEF ToSet
  <1>9. ASSUME NEW x \in ToSet(t) PROVE x \in ToSet(u)
    <2>1. PICK i \in 1 .. Len(t) : x = t[i]
      BY <1>7 DEF ToSet
    <2>2. Len(s) + i \in 1 .. Len(s) + Len(t)
      BY <1>2
    <2> QED
      BY <1>6, <1>7, <2>1, <2>2 DEF ToSet
  <1>10. ToSet(u) = S
    BY <1>4, <1>8, <1>9 DEF S
  <1> QED
    BY <1>3, <1>4, <1>5, <1>6, <1>10 DEF u, S

\* The inserts that a request adds to the queue of the table.
\* The inserts of a request.
InsertsOf(r, request, s) ==
    [i \in 1 .. Len(Accepted(SaveChunks(r, request), request.items))
        |-> [key |-> request.items[i].key, stream |-> s]]

AreInserts(new, r, request, s) ==
    /\ IsSeq(new)
    /\ Len(new) = Len(Accepted(SaveChunks(r, request), request.items))
    /\ Len(new) <= Len(request.items)
    /\ \A i \in 1 .. Len(new) :
          /\ new[i] = [key |-> request.items[i].key, stream |-> s]
          /\ new[i].key \in Nat /\ new[i].stream = s

LEMMA SubSeqSeq ==
    ASSUME NEW s, IsSeq(s), NEW m \in Int, 1 <= m, NEW n \in Int,
           m <= n + 1, n <= Len(s)
    PROVE  /\ IsSeq(SubSeq(s, m, n)) /\ Len(SubSeq(s, m, n)) = n - m + 1
           /\ \A i \in 1 .. n - m + 1 : SubSeq(s, m, n)[i] = s[m + i - 1]
           /\ ToSet(SubSeq(s, m, n)) \subseteq ToSet(s)
  <1>1. Len(s) \in Nat /\ DOMAIN s = 1 .. Len(s) /\ s \in Seq(ToSet(s))
    BY IsSeqFacts DEF IsSeq
  <1>2. \A i \in m .. n : i \in 1 .. Len(s)
    BY <1>1
  <1>3. \A i \in m .. n : s[i] \in ToSet(s)
    BY <1>1, <1>2, IsSeqFacts
  <1>4. /\ SubSeq(s, m, n) \in Seq(ToSet(s))
        /\ Len(SubSeq(s, m, n)) = IF m <= n THEN n - m + 1 ELSE 0
        /\ \A i \in 1 .. n - m + 1 : SubSeq(s, m, n)[i] = s[m + i - 1]
    BY <1>3, SubSeqProperties
  <1>5. (IF m <= n THEN n - m + 1 ELSE 0) = n - m + 1
    OBVIOUS
  <1> QED
    BY <1>4, <1>5, SeqIsSeq

LEMMA NewInserts ==
    ASSUME NEW r, NEW request, IsRequest(request), NEW s
    PROVE  AreInserts(InsertsOf(r, request, s), r, request, s)
  <1> USE DEF AreInserts
  <1> DEFINE new == InsertsOf(r, request, s)
  <1> DEFINE n == Len(Accepted(SaveChunks(r, request), request.items))
  <1>1. /\ IsSeq(request.items) /\ Len(request.items) \in Nat
        /\ DOMAIN request.items = 1 .. Len(request.items)
    BY IsSeqFacts DEF IsRequest
  <1>2. n \in Nat /\ n <= Len(request.items)
    BY <1>1, AcceptedFacts
  <1>3. new = [i \in 1 .. n |-> [key |-> request.items[i].key, stream |-> s]]
    BY DEF InsertsOf
  <1> HIDE DEF n, new
  <1>4. new = [i \in 1 .. n |-> new[i]]
    BY <1>3
  <1>5. IsSeq(new) /\ Len(new) = n
    BY <1>2, <1>4, FunctionIsSeq
  <1>6. ASSUME NEW i \in 1 .. n
        PROVE  /\ new[i] = [key |-> request.items[i].key, stream |-> s]
               /\ new[i].key \in Nat /\ new[i].stream = s
    <2>1. new[i] = [key |-> request.items[i].key, stream |-> s]
      BY <1>3
    <2>2. request.items[i].key \in Nat
      BY <1>1, <1>2 DEF IsRequest
    <2> QED
      BY <2>1, <2>2
  <1> QED
    BY <1>2, <1>5, <1>6 DEF n, new

\* What a server does with a request: a reactor that has not finished takes
\* all items of it into the queue of the table.
TakesRequest(s, str, str2, old, pending) ==
    LET items == Head(str.requests).items
    IN  /\ str.requests # << >> /\ str2.requests = Tail(str.requests)
        /\ IsRequest(Head(str.requests)) /\ str2.ended = str.ended
        /\ str2.reactor.wire = str.reactor.wire
        /\ Active(str2) => /\ Active(str)
                           /\ str2.reactor.responses = str.reactor.responses
        /\ str.reactor.is_finished => pending = old
        /\ ~str.reactor.is_finished =>
              \E new : /\ IsSeq(new) /\ pending = old \o new
                       /\ Len(new) \in Nat /\ Len(new) <= Len(items)
                       /\ Active(str2) => Len(new) = Len(items)
                       /\ \A i \in 1 .. Len(new) :
                             new[i].key = items[i].key /\ new[i].stream = s

LEMMA ReadsStep ==
    ASSUME ServerInv, NEW s \in Streams, ServerReads(s)
    PROVE  /\ ServerInv' /\ \A t \in Streams : Keeps(stream[t], stream'[t])
           /\ \A t \in Streams : t # s => stream'[t] = stream[t]
           /\ TakesRequest(s, stream[s], stream'[s], table.pending, table'.pending)
  <1>01. PICK str : str = stream[s]
    OBVIOUS
  <1>02. PICK r, qs : r = str.reactor /\ qs = str.requests
    OBVIOUS
  <1>03. PICK request : request = Head(qs)
    OBVIOUS
  <1>04. PICK new : new = InsertsOf(r, request, s)
    OBVIOUS
  <1>05. PICK old, pending :
            /\ old = table.pending
            /\ pending = IF r.is_finished THEN old ELSE old \o new
    OBVIOUS
  <1>06. PICK p : p = ProcessInsertRequest(HasRead(r), request, Len(pending))
    OBVIOUS
  <1>07. PICK q : q = OnReadDone(r, p)
    OBVIOUS
  <1>08. PICK str2 : str2 = [str EXCEPT !.requests = Tail(qs), !.reactor = q]
    OBVIOUS
  <1>1. StreamOk(str, table.items) /\ IsStream(str) /\ IsReactor(r) /\ IsSeq(qs)
    BY <1>01, <1>02 DEF ServerInv, StreamOk, IsStream
  <1>2. /\ stream' = [stream EXCEPT ![s] = str2]
        /\ table' = [table EXCEPT !.pending = pending]
        /\ str.open /\ str.ended = "no" /\ qs # << >>
    <2>1. stream' = [stream EXCEPT ![s].requests = Tail(@), ![s].reactor = q]
      BY <1>01, <1>02, <1>03, <1>04, <1>05, <1>06, <1>07 DEF ServerReads, InsertsOf
    <2>2. stream' = [stream EXCEPT ![s] = str2]
      BY <1>01, <1>02, <1>08, <2>1 DEF ServerInv
    <2>3. table' = [table EXCEPT !.pending = pending]
      BY <1>01, <1>02, <1>03, <1>04, <1>05 DEF ServerReads, InsertsOf
    <2> QED
      BY <1>01, <1>02, <2>2, <2>3 DEF ServerReads, Live
  <1>3. /\ IsSeq(Tail(qs)) /\ Len(Tail(qs)) = Len(qs) - 1
        /\ \A i \in 1 .. Len(qs) - 1 : Tail(qs)[i] = qs[i + 1]
        /\ Head(qs) = qs[1] /\ 1 \in DOMAIN qs
        /\ DOMAIN qs = 1 .. Len(qs) /\ Len(qs) \in Nat
        /\ DOMAIN Tail(qs) = 1 .. Len(qs) - 1
    <2>1. Len(qs) \in Nat /\ DOMAIN qs = 1 .. Len(qs) /\ Len(qs) > 0
      BY <1>1, <1>2, IsSeqFacts
    <2>2. /\ IsSeq(Tail(qs)) /\ Len(Tail(qs)) = Len(qs) - 1
          /\ \A i \in 1 .. Len(qs) - 1 : Tail(qs)[i] = qs[i + 1]
          /\ Head(qs) = qs[1]
      BY <1>1, <1>2, TailSeq
    <2>3. DOMAIN Tail(qs) = 1 .. Len(Tail(qs))
      BY <2>2, IsSeqFacts
    <2>4. 1 \in 1 .. Len(qs)
      BY <2>1
    <2> QED
      BY <2>1, <2>2, <2>3, <2>4
  <1>4. /\ IsRequest(request)
        /\ \A i \in DOMAIN Tail(qs) : IsRequest(Tail(qs)[i])
    <2>1. \A i \in 1 .. Len(qs) - 1 : i + 1 \in 1 .. Len(qs)
      BY <1>3
    <2>2. \A i \in DOMAIN qs : IsRequest(qs[i])
      BY <1>1, <1>02 DEF IsStream
    <2>3. IsRequest(request)
      BY <1>03, <1>3, <2>2, ZenonT(30)
    <2>4. ASSUME NEW i \in DOMAIN Tail(qs) PROVE IsRequest(Tail(qs)[i])
      <3>1. i \in 1 .. Len(qs) - 1
        BY <1>3
      <3>2. i + 1 \in DOMAIN qs
        BY <1>3, <2>1, <3>1
      <3> QED
        BY <1>3, <2>2, <3>1, <3>2, ZenonT(30)
    <2> QED
      BY <2>3, <2>4
  <1>5. /\ IsSeq(new)
        /\ Len(new) = Len(Accepted(SaveChunks(r, request), request.items))
        /\ Len(new) <= Len(request.items) /\ Len(new) \in Nat
        /\ \A i \in 1 .. Len(new) :
              /\ new[i].key \in Nat /\ new[i].stream = s
              /\ new[i].key = request.items[i].key
    <2>1. AreInserts(new, r, request, s)
      BY <1>04, <1>4, NewInserts
    <2>2. ASSUME NEW i \in 1 .. Len(new)
          PROVE  /\ new[i].key \in Nat /\ new[i].stream = s
                 /\ new[i].key = request.items[i].key
      <3>1. PICK k : k = request.items[i].key
        OBVIOUS
      <3>2. new[i] = [key |-> k, stream |-> s] /\ new[i].key \in Nat
        BY <2>1, <3>1 DEF AreInserts
      <3> QED
        BY <3>1, <3>2
    <2> QED
      BY <2>1, <2>2, IsSeqFacts DEF AreInserts
  <1>6. r.is_finished => q = OnReadEnd(r)
    BY <1>07 DEF OnReadDone
  <1>7. ~r.is_finished => q = p
    BY <1>07 DEF OnReadDone
  <1>8. ASSUME ~r.is_finished, NEW after, Link(r.chunks, request, after)
        PROVE  /\ IsReactor(q) /\ q.still_reading = r.still_reading
               /\ q.wire = r.wire
               /\ ~q.is_finished =>
                      /\ q.chunks = after /\ q.status = r.status
                      /\ q.responses = r.responses /\ q.writes = r.writes
               /\ q.is_finished =>
                      /\ q.responses = << >>
                      /\ q.status \notin {"ok", "internal", "failed_precondition"}
               /\ ~q.is_finished /\ q.still_reading /\ ~q.read_in_flight =>
                      /\ request.items # << >>
                      /\ Len(new) = Len(request.items)
               /\ ~q.is_finished /\ request.items # << >> =>
                      Len(new) = Len(request.items)
    <2>1. q = ProcessInsertRequest(HasRead(r), request, Len(pending))
      BY <1>06, <1>7, <1>8
    <2>2. PICK enqueued : enqueued = Len(pending)
      OBVIOUS
    <2>3. Processed(r, request, after, q)
      BY <1>1, <1>4, <1>8, <2>1, <2>2, ProcessFacts
    <2> QED
      BY <1>5, <2>3 DEF Processed
  <1>9. ~r.is_finished => \E X : Reaches(str, X)
    BY <1>1, <1>2, <1>02 DEF StreamOk, Active
  <1>10. ASSUME NEW X, Reaches(str, X)
         PROVE  \E Y : /\ Link(r.chunks, request, Y)
                       /\ \A u : u.requests = Tail(qs) /\ u.reactor.chunks = Y
                                   => Reaches(u, X)
    BY <1>1, <1>2, <1>02, <1>03, <1>10, ReachesRead
  <1>11. ~r.is_finished =>
            /\ IsReactor(q) /\ q.still_reading = r.still_reading
            /\ q.wire = r.wire
            /\ ~q.is_finished => /\ q.status = r.status /\ q.responses = r.responses
                                 /\ q.writes = r.writes
            /\ q.is_finished =>
                   /\ q.responses = << >>
                   /\ q.status \notin {"ok", "internal", "failed_precondition"}
            /\ ~q.is_finished /\ q.still_reading /\ ~q.read_in_flight =>
                   request.items # << >> /\ Len(new) = Len(request.items)
            /\ ~q.is_finished /\ request.items # << >> =>
                   Len(new) = Len(request.items)
    BY <1>8, <1>9, <1>10
  <1>12. r.is_finished =>
            /\ IsReactor(q) /\ ~q.still_reading /\ q.is_finished
            /\ q.status = r.status /\ q.responses \in {<< >>, r.responses}
            /\ q.wire = r.wire
    BY <1>1, <1>6, ReadEndFacts
  <1>13. IsReactor(q) /\ (~q.is_finished => ~r.is_finished)
    BY <1>1, <1>11, <1>12
  <1>14. /\ IsStream(str2) /\ str2.reactor = q /\ str2.open = str.open
         /\ str2.requests = Tail(qs) /\ str2.ended = str.ended
         /\ str2.writes_done = str.writes_done
    <2>0. PICK e : e = Tail(qs)
      OBVIOUS
    <2>1. IsSeq(e) /\ \A i \in DOMAIN e : IsRequest(e[i])
      BY <1>3, <1>4, <2>0
    <2>2. str2 = [str EXCEPT !.requests = e, !.reactor = q]
      BY <1>08, <2>0
    <2>3. /\ IsStream(str2) /\ str2.reactor = q /\ str2.open = str.open
          /\ str2.requests = e /\ str2.ended = str.ended
          /\ str2.writes_done = str.writes_done
      BY <1>1, <1>13, <2>1, <2>2 DEF IsStream
    <2> QED
      BY <2>0, <2>3
  <1>15. Keeps(str, str2)
    <2>1. ASSUME Active(str2) PROVE Active(str)
      BY <1>02, <1>13, <1>14, <2>1 DEF Active
    <2>2. ASSUME Active(str2), NEW X, Reaches(str, X) PROVE Reaches(str2, X)
      <3>1. PICK Y : /\ Link(r.chunks, request, Y)
                     /\ \A u : u.requests = Tail(qs) /\ u.reactor.chunks = Y
                                 => Reaches(u, X)
        BY <1>10, <2>2
      <3>2. q.chunks = Y
        BY <1>8, <1>13, <1>14, <2>2, <3>1 DEF Active
      <3> QED
        BY <1>14, <3>1, <3>2
    <2> QED
      BY <1>14, <2>1, <2>2 DEF Keeps
  <1>16. StreamOk(str2, table.items)
    <2>1. WritesMatch(q)
      BY <1>02, <1>1, <1>11, <1>13 DEF StreamOk, WritesMatch
    <2>2. ConfirmsOnly(q, table.items)
      BY <1>02, <1>1, <1>11, <1>12 DEF StreamOk, ConfirmsOnly
    <2>3. EndsRightly(str2)
      BY <1>02, <1>1, <1>2, <1>11, <1>12, <1>14 DEF StreamOk, EndsRightly
    <2> QED
      BY <1>1, <1>2, <1>14, <1>15, <2>1, <2>2, <2>3 DEF StreamOk, Keeps, Active
  <1>17. /\ stream' \in [Streams -> {stream'[t] : t \in Streams}]
         /\ stream'[s] = str2
         /\ \A t \in Streams : t # s => stream'[t] = stream[t]
    BY <1>2, StreamChanged
  <1>18. /\ table' \in [pending : {table'.pending}, items : {table'.items}]
         /\ table'.pending = pending /\ table'.items = table.items
    BY <1>2 DEF ServerInv, TableOk
  <1>19. IsSeq(old) /\ Len(old) \in Nat
    BY <1>05, IsSeqFacts DEF ServerInv, TableOk
  <1>29. PICK n, add : n = Len(old) /\ add = IF r.is_finished THEN 0 ELSE Len(new)
    OBVIOUS
  <1>28. /\ n \in Nat /\ add \in Nat
         /\ (r.is_finished => add = 0) /\ (~r.is_finished => add = Len(new))
    BY <1>5, <1>19, <1>29
  <1>20. /\ IsSeq(pending)
         /\ Len(pending) = n + add
         /\ \A i \in 1 .. n : pending[i] = old[i]
         /\ ~r.is_finished =>
               \A i \in 1 .. Len(new) : pending[n + i] = new[i]
    <2>1. CASE r.is_finished
      <3>1. pending = old /\ n + add = n
        BY <1>05, <1>28, <2>1
      <3> QED
        BY <1>19, <1>29, <2>1, <3>1
    <2>2. CASE ~r.is_finished
      <3>1. pending = old \o new /\ add = Len(new)
        BY <1>05, <1>28, <2>2
      <3> QED
        BY <1>5, <1>19, <1>29, <2>2, <3>1, ConcatSeq
    <2> QED
      BY <2>1, <2>2
  <1>21. DOMAIN pending = 1 .. Len(pending) /\ DOMAIN old = 1 .. n
    BY <1>19, <1>20, <1>29, IsSeqFacts
  <1>22. \A i \in 1 .. n : i \in 1 .. Len(pending)
    BY <1>20, <1>28
  <1>23. ASSUME NEW i \in 1 .. Len(pending)
         PROVE  /\ pending[i].key \in Nat /\ pending[i].stream \in Streams
                /\ stream'[pending[i].stream].open
    <2>1. \A t \in Streams : stream[t].open => stream'[t].open
      BY <1>01, <1>14, <1>17
    <2>2. CASE i <= n
      <3>0. i \in 1 .. n
        BY <1>20, <1>28, <2>2
      <3>1. i \in DOMAIN table.pending /\ pending[i] = table.pending[i]
        BY <1>05, <1>20, <1>21, <3>0
      <3> QED
        BY <2>1, <3>1 DEF ServerInv, TableOk
    <2>3. CASE ~(i <= n)
      <3>0. PICK j : j = i - n
        OBVIOUS
      <3>1. ~r.is_finished /\ j \in 1 .. Len(new) /\ i = n + j
        <4>1. i \in 1 .. n + add /\ n \in Nat /\ add \in Nat
          BY <1>20, <1>28
        <4>2. j \in 1 .. add /\ i = n + j /\ add # 0
          BY <2>3, <3>0, <4>1
        <4> QED
          BY <1>28, <4>2
      <3>2. pending[i] = new[j]
        BY <1>20, <3>1
      <3> QED
        BY <1>01, <1>2, <1>5, <2>1, <3>1, <3>2
    <2> QED
      BY <2>2, <2>3
  <1>24. TableOk'
    BY <1>18, <1>20, <1>21, <1>23 DEF TableOk, ServerInv
  <1>25. ASSUME NEW t \in Streams PROVE WaitsForInsert(t)'
    <2>1. CASE t # s
      <3>1. WaitsForInsert(t)
        BY DEF ServerInv
      <3>2. \A i \in DOMAIN table.pending :
               i \in DOMAIN pending /\ pending[i] = table.pending[i]
        BY <1>05, <1>20, <1>21, <1>22
      <3> QED
        BY <1>17, <1>18, <2>1, <3>1, <3>2 DEF WaitsForInsert
    <2>2. CASE t = s
      <3>1. SUFFICES ASSUME ~q.is_finished, q.still_reading, ~q.read_in_flight
                     PROVE  \E i \in DOMAIN pending : pending[i].stream = s
        BY <1>14, <1>17, <1>18, <2>2 DEF WaitsForInsert
      <3>2. ~r.is_finished /\ request.items # << >> /\ Len(new) = Len(request.items)
        BY <1>11, <1>13, <3>1
      <3>3. Len(new) >= 1
        BY <1>4, <3>2, IsSeqFacts DEF IsRequest
      <3>4. 1 \in 1 .. Len(new) /\ n + 1 \in 1 .. Len(pending)
        BY <1>20, <1>28, <3>2, <3>3
      <3>5. pending[n + 1] = new[1] /\ new[1].stream = s
        BY <1>5, <1>20, <3>2, <3>4
      <3> QED
        BY <1>21, <3>4, <3>5
    <2> QED
      BY <2>1, <2>2
  <1>26. ServerInv'
    BY <1>16, <1>17, <1>18, <1>24, <1>25 DEF ServerInv
  <1>27. ASSUME NEW t \in Streams
         PROVE  Keeps(stream[t], stream'[t])
    BY <1>01, <1>15, <1>17 DEF Keeps
  <1>30. TakesRequest(s, str, str2, old, pending)
    <2>1. ASSUME ~r.is_finished, Active(str2)
          PROVE  Len(new) = Len(request.items)
      <3>1. CASE request.items # << >>
        BY <1>11, <1>14, <2>1, <3>1 DEF Active
      <3>2. CASE request.items = << >>
        <4>1. Len(request.items) = 0
          BY <3>2, EmptyIsSeq
        <4> QED
          BY <1>5, <4>1
      <3> QED
        BY <3>1, <3>2
    <2>2. Active(str2) => Active(str) /\ q.responses = r.responses
      BY <1>02, <1>11, <1>13, <1>14 DEF Active
    <2>3. q.wire = r.wire
      BY <1>11, <1>12
    <2>4. r.is_finished => pending = old
      BY <1>05
    <2>5. ~r.is_finished => pending = old \o new
      BY <1>05
    <2> QED
      BY <1>02, <1>03, <1>2, <1>4, <1>5, <1>14, <2>1, <2>2, <2>3, <2>4, <2>5
      DEF TakesRequest
  <1> QED
    BY <1>01, <1>05, <1>17, <1>18, <1>26, <1>27, <1>30

-----------------------------------------------------------------------------
(* An insert. *)

LEMMA AppendsKey ==
    ASSUME NEW rs \in Seq(Seq(Nat)), NEW key \in Nat, NEW items,
           \A i \in DOMAIN rs : ToSet(rs[i]) \subseteq items,
           NEW c, c = Confirming(rs, key)
    PROVE  \A i \in DOMAIN c : ToSet(c[i]) \subseteq items \cup {key}
  <1>1. /\ c \in Seq(Seq(Nat)) /\ Len(c) > 0
        /\ Len(c) = IF Len(rs) < 2 THEN Len(rs) + 1 ELSE Len(rs)
        /\ \A i \in 1 .. Len(c) :
               c[i] = IF i < Len(c) THEN rs[i]
                      ELSE IF Len(rs) < 2 THEN <<key>> ELSE Append(rs[i], key)
    BY ConfirmingFacts
  <1>2. Len(rs) \in Nat /\ Len(c) \in Nat /\ DOMAIN rs = 1 .. Len(rs) /\ DOMAIN c = 1 .. Len(c)
    BY <1>1
  <1>3. ASSUME NEW i \in 1 .. Len(c) PROVE ToSet(c[i]) \subseteq items \cup {key}
    <2>1. CASE i < Len(c)
      <3>1. i \in DOMAIN rs
        BY <1>1, <1>2, <2>1
      <3>2. c[i] = rs[i]
        BY <1>1, <2>1
      <3> QED
        BY <3>1, <3>2
    <2>2. CASE ~(i < Len(c)) /\ Len(rs) < 2
      <3>1. c[i] = <<key>>
        BY <1>1, <2>2
      <3>2. ToSet(<<key>>) = {key}
        BY DEF ToSet
      <3> QED
        BY <3>1, <3>2
    <2>3. CASE ~(i < Len(c)) /\ ~(Len(rs) < 2)
      <3>1. c[i] = Append(rs[i], key)
        BY <1>1, <2>3
      <3>2. i \in DOMAIN rs
        BY <1>1, <1>2, <2>3
      <3>3. IsSeq(rs[i])
        BY <3>2, SeqIsSeq
      <3>4. ToSet(c[i]) = ToSet(rs[i]) \cup {key}
        BY <3>1, <3>3, AppendSeq
      <3> QED
        BY <3>2, <3>4
    <2> QED
      BY <2>1, <2>2, <2>3
  <1> QED
    BY <1>2, <1>3

LEMMA InsertedReactor ==
    ASSUME NEW r, IsReactor(r), NEW key \in Nat, NEW items,
           WritesMatch(r), ConfirmsOnly(r, items),
           NEW q, Completed(r, key, q)
    PROVE  WritesMatch(q) /\ ConfirmsOnly(q, items \cup {key})
  <1> DEFINE c == Confirming(r.responses, key)
  <1>1. r.responses \in Seq(Seq(Nat)) /\ r.wire \in Seq(Seq(Nat)) /\ r.writes \in Int
    BY DEF IsReactor
  <1>2. CASE r.is_finished
    BY <1>2 DEF Completed, WritesMatch, ConfirmsOnly, IsReactor
  <1>3. CASE ~r.is_finished
    <2>1. q.responses = c /\ ~q.is_finished
      BY <1>3 DEF Completed
    <2>2. c \in Seq(Seq(Nat)) /\ Len(c) > 0
      BY <1>1, ConfirmingFacts
    <2>3. \A i \in DOMAIN c : ToSet(c[i]) \subseteq items \cup {key}
      BY <1>1, AppendsKey DEF ConfirmsOnly
    <2>4. q.responses # << >>
      <3> HIDE DEF c
      <3> QED
        BY <2>1, <2>2
    <2>5. q.writes = 1
      BY <1>1, <1>3 DEF WritesMatch, Completed
    <2>6. \A i \in DOMAIN q.wire : ToSet(q.wire[i]) \subseteq items \cup {key}
      <3>1. CASE r.responses = << >>
        <4>1. PICK one : one = <<key>>
          OBVIOUS
        <4>2. ToSet(one) = {key}
          BY <4>1 DEF ToSet
        <4>3. q.wire = Append(r.wire, one)
          BY <1>3, <3>1, <4>1 DEF Completed
        <4>4. IsSeq(r.wire)
          BY <1>1, SeqIsSeq
        <4>5. \A i \in DOMAIN r.wire : ToSet(r.wire[i]) \subseteq items
          BY DEF ConfirmsOnly
        <4>6. /\ Len(r.wire) \in Nat /\ DOMAIN r.wire = 1 .. Len(r.wire)
              /\ Len(q.wire) = Len(r.wire) + 1 /\ DOMAIN q.wire = 1 .. Len(r.wire) + 1
              /\ \A i \in 1 .. Len(r.wire) : q.wire[i] = r.wire[i]
              /\ q.wire[Len(r.wire) + 1] = one
          BY <4>3, <4>4, AppendSeq, IsSeqFacts
        <4>7. ASSUME NEW i \in 1 .. Len(r.wire) + 1
              PROVE  ToSet(q.wire[i]) \subseteq items \cup {key}
          <5>1. CASE i \in 1 .. Len(r.wire)
            BY <4>5, <4>6, <5>1
          <5>2. CASE i = Len(r.wire) + 1
            BY <4>2, <4>6, <5>2
          <5>3. i \in 1 .. Len(r.wire) \/ i = Len(r.wire) + 1
            BY <4>6
          <5> QED
            BY <5>1, <5>2, <5>3
        <4> QED
          BY <4>6, <4>7
      <3>2. CASE r.responses # << >>
        <4>1. q.wire = r.wire
          BY <1>3, <3>2 DEF Completed
        <4> QED
          BY <4>1 DEF ConfirmsOnly
      <3> QED
        BY <3>1, <3>2
    <2> HIDE DEF c
    <2>7. WritesMatch(q)
      BY <2>4, <2>5 DEF WritesMatch
    <2>8. ConfirmsOnly(q, items \cup {key})
      BY <2>1, <2>3, <2>6 DEF ConfirmsOnly
    <2> QED
      BY <2>7, <2>8
  <1> QED
    BY <1>2, <1>3

\* What the table does with the insert x at the head of its queue.
TakesInsert(x) ==
    LET str == stream[x.stream]
        str2 == stream'[x.stream]
    IN  /\ table.pending # << >> /\ x = Head(table.pending)
        /\ table'.pending = Tail(table.pending)
        /\ x.stream \in Streams /\ x.key \in Nat
        /\ \A t \in Streams : t # x.stream => stream'[t] = stream[t]
        /\ str2.requests = str.requests /\ str2.ended = str.ended
        /\ Completed(str.reactor, x.key, str2.reactor)

LEMMA InsertsStep ==
    ASSUME ServerInv, TableInserts
    PROVE  /\ ServerInv' /\ table.items \subseteq table'.items
           /\ \A t \in Streams : Keeps(stream[t], stream'[t])
           /\ TakesInsert(Head(table.pending))
  <1>01. PICK pending, items : pending = table.pending /\ items = table.items
    OBVIOUS
  <1>02. PICK rest, key, s :
            rest = Tail(pending) /\ key = Head(pending).key /\ s = Head(pending).stream
    OBVIOUS
  <1>03. PICK str, r : str = stream[s] /\ r = str.reactor
    OBVIOUS
  <1>04. PICK q : q = InsertCompleted(r, key)
    OBVIOUS
  <1>05. PICK str2 : str2 = [str EXCEPT !.reactor = q]
    OBVIOUS
  <1>1. IsSeq(pending) /\ pending # << >>
    BY <1>01 DEF ServerInv, TableOk, TableInserts
  <1>2. /\ IsSeq(rest) /\ Len(rest) = Len(pending) - 1 /\ Len(pending) \in Nat
        /\ \A i \in 1 .. Len(pending) - 1 : rest[i] = pending[i + 1]
        /\ DOMAIN pending = 1 .. Len(pending) /\ Len(pending) > 0
        /\ Head(pending) = pending[1]
    BY <1>02, <1>1, TailSeq, IsSeqFacts
  <1>16. DOMAIN rest = 1 .. Len(pending) - 1
    BY <1>2, IsSeqFacts
  <1>3. 1 \in DOMAIN pending
    BY <1>2
  <1>4. key \in Nat /\ s \in Streams /\ str.open
    BY <1>01, <1>02, <1>03, <1>2, <1>3 DEF ServerInv, TableOk
  <1>5. StreamOk(str, items) /\ IsStream(str) /\ IsReactor(r)
        /\ WritesMatch(r) /\ ConfirmsOnly(r, items)
    BY <1>01, <1>03, <1>4 DEF ServerInv, StreamOk, IsStream
  <1>6. /\ stream' = [stream EXCEPT ![s] = str2]
        /\ table' = [pending |-> rest, items |-> items \cup {key}]
    <2>1. stream' = [stream EXCEPT ![s].reactor = q]
      BY <1>01, <1>02, <1>03, <1>04 DEF TableInserts
    <2> QED
      BY <1>01, <1>02, <1>03, <1>05, <2>1 DEF TableInserts, ServerInv
  <1>7. table'.pending = rest /\ table'.items = items \cup {key}
        /\ table' \in [pending : {table'.pending}, items : {table'.items}]
    BY <1>6
  <1>8. Completed(r, key, q)
    BY <1>04, <1>4, <1>5, CompletedFacts
  <1>9. WritesMatch(q) /\ ConfirmsOnly(q, items \cup {key}) /\ IsReactor(q)
    BY <1>4, <1>5, <1>8, InsertedReactor DEF Completed
  <1>10. /\ IsStream(str2) /\ str2.reactor = q /\ str2.open = str.open
         /\ str2.requests = str.requests /\ str2.ended = str.ended
         /\ str2.writes_done = str.writes_done
    BY <1>05, <1>5, <1>9, NewReactor
  <1>11. Keeps(str, str2)
    BY <1>03, <1>8, <1>10, ReachesSame DEF Keeps, Active, Completed
  <1>12. StreamOk(str2, items \cup {key})
    <2>1. EndsRightly(str2)
      BY <1>03, <1>5, <1>8, <1>10 DEF StreamOk, EndsRightly, Completed
    <2> QED
      BY <1>4, <1>5, <1>9, <1>10, <1>11, <2>1 DEF StreamOk, Keeps, Active
  <1>13. /\ stream' \in [Streams -> {stream'[t] : t \in Streams}]
         /\ stream'[s] = str2
         /\ \A t \in Streams : t # s => stream'[t] = stream[t]
    BY <1>4, <1>6, StreamChanged
  <1>14. ASSUME NEW t \in Streams
         PROVE  /\ StreamOk(stream'[t], items \cup {key})
                /\ Keeps(stream[t], stream'[t])
    <2>1. CASE t = s
      BY <1>03, <1>11, <1>12, <1>13, <2>1
    <2>2. CASE t # s
      <3>1. stream'[t] = stream[t] /\ StreamOk(stream[t], items)
        BY <1>01, <1>13, <2>2 DEF ServerInv
      <3>2. Keeps(stream[t], stream'[t])
        BY <3>1 DEF Keeps
      <3>3. ConfirmsOnly(stream[t].reactor, items \cup {key})
        BY <3>1 DEF StreamOk, ConfirmsOnly
      <3> QED
        BY <3>1, <3>2, <3>3 DEF StreamOk
    <2> QED
      BY <2>1, <2>2
  <1>15. \A i \in 1 .. Len(pending) - 1 : i + 1 \in DOMAIN pending
    BY <1>2
  <1>17. TableOk'
    <2>1. ASSUME NEW i \in DOMAIN rest
          PROVE  /\ rest[i].key \in Nat /\ rest[i].stream \in Streams
                 /\ stream'[rest[i].stream].open
      <3>1. PICK j : j = i + 1
        OBVIOUS
      <3>2. j \in DOMAIN pending /\ rest[i] = pending[j]
        BY <1>2, <1>15, <1>16, <3>1
      <3>3. /\ pending[j].key \in Nat /\ pending[j].stream \in Streams
            /\ stream[pending[j].stream].open
        BY <1>01, <3>2 DEF ServerInv, TableOk
      <3>4. stream'[pending[j].stream].open
        BY <1>14, <3>3 DEF Keeps
      <3> QED
        BY <3>2, <3>3, <3>4
    <2>2. items \cup {key} \subseteq Nat
      BY <1>01, <1>4 DEF ServerInv, TableOk
    <2> QED
      BY <1>2, <1>7, <2>1, <2>2 DEF TableOk
  <1>18. ASSUME NEW t \in Streams PROVE WaitsForInsert(t)'
    <2>1. CASE t = s
      BY <1>8, <1>10, <1>13, <2>1 DEF WaitsForInsert, Completed
    <2>2. CASE t # s
      <3>1. SUFFICES ASSUME NEW i \in DOMAIN pending, pending[i].stream = t
                     PROVE  \E k \in DOMAIN rest : rest[k].stream = t
        BY <1>01, <1>7, <1>13, <2>2 DEF WaitsForInsert, ServerInv
      <3>2. i # 1
        BY <1>02, <1>2, <2>2, <3>1
      <3>3. PICK j : j = i - 1
        OBVIOUS
      <3>4. j \in 1 .. Len(pending) - 1 /\ i = j + 1
        BY <1>2, <3>2, <3>3
      <3>5. j \in DOMAIN rest /\ rest[j] = pending[i]
        BY <1>2, <1>16, <3>4
      <3> QED
        BY <3>1, <3>5
    <2> QED
      BY <2>1, <2>2
  <1>19. ServerInv'
    BY <1>7, <1>13, <1>14, <1>17, <1>18 DEF ServerInv
  <1>20. TakesInsert(Head(table.pending))
    BY <1>01, <1>02, <1>03, <1>1, <1>4, <1>7, <1>8, <1>10, <1>13 DEF TakesInsert
  <1> QED
    BY <1>01, <1>7, <1>14, <1>19, <1>20

\* Every step of the transport, the servers and the table.
LEMMA ServerStep ==
    ASSUME ServerInv, ServerNext
    PROVE  /\ ServerInv' /\ table.items \subseteq table'.items
           /\ \A t \in Streams : Keeps(stream[t], stream'[t])
  <1>1. ASSUME NEW s \in Streams,
               ServerReads(s) \/ ServerReadEnds(s) \/ ServerWriteDone(s) \/ Break(s)
        PROVE  table'.items = table.items
    BY <1>1 DEF ServerReads, ServerReadEnds, ServerWriteDone, Break, ServerInv, TableOk
  <1> QED
    BY <1>1, ReadsStep, ReadEndsStep, WriteDoneStep, BreakStep, InsertsStep DEF ServerNext

-----------------------------------------------------------------------------
(* What a writer may count on. *)

\* A server that reads on will have these chunks when it has read all that is
\* under way.
Has(str, chunks) ==
    Active(str) => \E X : Reaches(str, X) /\ chunks \subseteq X

LEMMA HasLess ==
    ASSUME NEW str, NEW S, Has(str, S), NEW T, T \subseteq S
    PROVE  Has(str, T)
  BY DEF Has

LEMMA HasKept ==
    ASSUME NEW str, NEW S, Has(str, S), NEW str2, Keeps(str, str2)
    PROVE  Has(str2, S)
  BY DEF Has, Keeps

\* All other streams are as they were.
OnlyStream(s) == \A t \in Streams : t # s => stream'[t] = stream[t]

\* A stream may be open from the start.
LEMMA ServerInvStart ==
    ASSUME EmptyTable, stream \in [Streams -> {stream[s] : s \in Streams}],
           \A s \in Streams : stream[s] = UnusedStream
                              \/ stream[s] = [UnusedStream EXCEPT !.open = TRUE]
    PROVE  ServerInv /\ \A s \in Streams : ~stream[s].writes_done
  <1>1. PICK u : u = UnusedStream
    OBVIOUS
  <1>2. PICK empty : empty = << >>
    OBVIOUS
  <1>3. empty \in Seq(Seq(Nat)) /\ IsSeq(empty) /\ DOMAIN empty = {}
    BY <1>2, EmptyIsSeq
  <1>4. PICK r : r = NewInsertReactor
    OBVIOUS
  <1>5. /\ IsReactor(r) /\ r.read_in_flight /\ ~r.is_finished /\ r.still_reading
        /\ r.responses = empty /\ r.wire = empty /\ r.writes = 0 /\ r.status = None
    <2>1. PICK x : x = [read_in_flight |-> FALSE, still_reading |-> TRUE,
                        is_finished |-> FALSE, responses |-> empty, writes |-> 0,
                        sending |-> empty, wire |-> empty, status |-> None,
                        check_failed |-> FALSE, chunks |-> {}]
      OBVIOUS
    <2>2. r = MaybeStartRead(x)
      BY <1>2, <1>4, <2>1 DEF NewInsertReactor
    <2>3. /\ IsReactor(x) /\ ~x.is_finished /\ x.still_reading
          /\ x.responses = empty /\ x.wire = empty /\ x.writes = 0 /\ x.status = None
      BY <1>3, <2>1 DEF IsReactor
    <2> QED
      BY <2>2, <2>3, MaybeStartReadFacts
  <1>6. /\ u = [open |-> FALSE, requests |-> empty, writes_done |-> FALSE,
                ended |-> "no", reactor |-> r]
    BY <1>1, <1>2, <1>4 DEF UnusedStream
  <1>7. StreamOk(u, {})
    <2>1. IsStream(u) /\ u.requests = empty /\ u.reactor = r /\ ~u.open
          /\ u.ended = "no"
      BY <1>3, <1>5, <1>6 DEF IsStream
    <2>2. WritesMatch(r)
      BY <1>2, <1>5 DEF WritesMatch
    <2>3. ConfirmsOnly(r, {})
      BY <1>3, <1>5 DEF ConfirmsOnly
    <2>4. EndsRightly(u)
      <3>1. None \notin {"internal", "failed_precondition"}
        BY InsertStreamAssumption
      <3> QED
        BY <1>5, <2>1, <3>1 DEF EndsRightly
    <2>5. Reaches(u, r.chunks)
      BY <1>2, <2>1, ReachesNow
    <2> QED
      BY <1>1, <2>1, <2>2, <2>3, <2>4, <2>5 DEF StreamOk
  <1>9. PICK v : v = [u EXCEPT !.open = TRUE]
    OBVIOUS
  <1>13. /\ IsStream(v) /\ v.requests = empty /\ v.reactor = r /\ v.open
         /\ v.ended = "no" /\ ~v.writes_done /\ ~u.writes_done
    BY <1>3, <1>5, <1>6, <1>9 DEF IsStream
  <1>14. StreamOk(v, {})
    <2>1. u.reactor = r /\ u.ended = "no"
      BY <1>6
    <2>2. Reaches(v, r.chunks)
      BY <1>2, <1>13, ReachesNow
    <2>3. EndsRightly(v)
      BY <1>5, <1>7, <1>13, <2>1 DEF StreamOk, EndsRightly
    <2> QED
      BY <1>7, <1>13, <2>1, <2>2, <2>3 DEF StreamOk
  <1>8. \A s \in Streams : stream[s] = u \/ stream[s] = v
    BY <1>1, <1>9
  <1>10. table.items = {} /\ table.pending = empty
         /\ table \in [pending : {table.pending}, items : {table.items}]
    BY <1>2 DEF EmptyTable
  <1>11. TableOk
    BY <1>3, <1>10 DEF TableOk
  <1>12. \A s \in Streams : WaitsForInsert(s)
    <2>1. u.reactor = r
      BY <1>6
    <2> QED
      BY <1>5, <1>8, <1>13, <2>1 DEF WaitsForInsert
  <1> QED
    BY <1>7, <1>8, <1>10, <1>11, <1>12, <1>13, <1>14 DEF ServerInv

LEMMA ServerInvInit ==
    ASSUME NoStreams, EmptyTable
    PROVE  ServerInv
  <1>1. stream \in [Streams -> {stream[s] : s \in Streams}]
    BY DEF NoStreams
  <1>2. \A s \in Streams : stream[s] = UnusedStream
    BY DEF NoStreams
  <1> QED
    BY <1>1, <1>2, ServerInvStart

LEMMA ServerStays ==
    ASSUME ServerInv, stream' = stream, table' = table
    PROVE  ServerInv'
  BY DEF ServerInv, TableOk, WaitsForInsert

LEMMA NextStreamIsNew ==
    ASSUME ServerInv, Unopened # {}
    PROVE  NextStream \in Streams /\ ~stream[NextStream].open
  <1>1. Unopened \in SUBSET Nat
    BY InsertStreamAssumption DEF Unopened
  <1>2. \E s \in Unopened : \A t \in Unopened : s <= t
    BY <1>1, LeastExists
  <1>3. NextStream \in Unopened
    BY <1>2 DEF NextStream
  <1> QED
    BY <1>3 DEF Unopened

LEMMA OpenedStep ==
    ASSUME ServerInv, NEW s \in Streams, ~stream[s].open,
           stream' = Opened(s), table' = table
    PROVE  /\ ServerInv' /\ OnlyStream(s) /\ Has(stream'[s], {})
           /\ stream'[s].open /\ ~stream'[s].writes_done
           /\ stream'[s].ended = "no" /\ stream'[s].reactor.wire = << >>
  <1>1. PICK str, str2 : str = stream[s] /\ str2 = [str EXCEPT !.open = TRUE]
    OBVIOUS
  <1>2. stream' = [stream EXCEPT ![s] = str2]
    BY <1>1 DEF Opened, ServerInv
  <1>3. StreamOk(str, table.items) /\ IsStream(str) /\ str = UnusedStream
    BY <1>1 DEF ServerInv, StreamOk
  <1>4. /\ IsStream(str2) /\ str2.reactor = str.reactor /\ str2.open
        /\ str2.requests = str.requests /\ str2.ended = str.ended
        /\ str2.writes_done = str.writes_done
    BY <1>1, <1>3 DEF IsStream
  <1>5. \A X : Reaches(str, X) => Reaches(str2, X)
    BY <1>4, ReachesSame
  <1>6. StreamOk(str2, table.items)
    BY <1>3, <1>4, <1>5 DEF StreamOk, Active, EndsRightly
  <1>7. ServerInv'
    BY <1>1, <1>2, <1>4, <1>6, StreamStep
  <1>8. stream'[s] = str2 /\ OnlyStream(s)
    BY <1>2, StreamChanged DEF OnlyStream
  <1>9. Has(str2, {})
    BY <1>6 DEF StreamOk, Has
  <1>10. str.ended = "no" /\ ~str.writes_done /\ str.reactor = NewInsertReactor
    BY <1>3 DEF UnusedStream
  <1>11. NewInsertReactor.wire = << >>
    BY DEF NewInsertReactor, MaybeStartRead
  <1> QED
    BY <1>4, <1>7, <1>8, <1>9, <1>10, <1>11

LEMMA SentStep ==
    ASSUME ServerInv, NEW s \in Streams, stream[s].open,
           NEW q, IsRequest(q), NEW S, Has(stream[s], S),
           \A i \in DOMAIN q.items : ChunksOf(q.items[i]) \subseteq S \cup q.chunks,
           q.items # << >> => q.keep \subseteq S \cup q.chunks,
           stream' = Sent(s, q), table' = table
    PROVE  /\ ServerInv' /\ OnlyStream(s)
           /\ Has(stream'[s], IF q.items = << >> THEN S \cup q.chunks ELSE q.keep)
           /\ stream'[s].open /\ stream'[s].writes_done = stream[s].writes_done
           /\ stream'[s].ended = stream[s].ended
           /\ stream'[s].reactor = stream[s].reactor
  <1>1. CASE ~Live(s)
    <2>1. stream' = stream
      BY <1>1 DEF Sent
    <2>2. ~Active(stream[s])
      BY <1>1 DEF Live, Active
    <2>3. ServerInv'
      BY <2>1 DEF ServerInv, TableOk, WaitsForInsert
    <2> QED
      BY <2>1, <2>2, <2>3 DEF Has, OnlyStream
  <1>2. CASE Live(s)
    <2>1. PICK str, qs : str = stream[s] /\ qs = Append(str.requests, q)
      OBVIOUS
    <2>2. PICK str2 : str2 = [str EXCEPT !.requests = qs]
      OBVIOUS
    <2>3. stream' = [stream EXCEPT ![s] = str2]
      BY <1>2, <2>1, <2>2 DEF Sent, ServerInv
    <2>4. StreamOk(str, table.items) /\ IsStream(str)
      BY <2>1 DEF ServerInv, StreamOk
    <2>5. IsSeq(qs) /\ \A i \in DOMAIN qs : IsRequest(qs[i])
      <3>1. PICK rs : rs = str.requests
        OBVIOUS
      <3>2. IsSeq(rs) /\ \A i \in DOMAIN rs : IsRequest(rs[i])
        BY <2>4, <3>1 DEF IsStream
      <3>3. /\ IsSeq(qs) /\ Len(qs) = Len(rs) + 1
            /\ \A i \in 1 .. Len(rs) : qs[i] = rs[i]
            /\ qs[Len(rs) + 1] = q
        BY <2>1, <3>1, <3>2, AppendSeq
      <3>4. /\ Len(rs) \in Nat /\ DOMAIN rs = 1 .. Len(rs)
            /\ DOMAIN qs = 1 .. Len(qs)
        BY <3>2, <3>3, IsSeqFacts
      <3>5. ASSUME NEW i \in DOMAIN qs PROVE IsRequest(qs[i])
        <4>1. i \in DOMAIN rs \/ i = Len(rs) + 1
          BY <3>3, <3>4
        <4> QED
          BY <3>2, <3>3, <3>4, <4>1
      <3> QED
        BY <3>3, <3>5
    <2>6. /\ IsStream(str2) /\ str2.reactor = str.reactor /\ str2.open = str.open
          /\ str2.requests = qs /\ str2.ended = str.ended
          /\ str2.writes_done = str.writes_done
      BY <2>2, <2>4, <2>5 DEF IsStream
    <2>7. PICK Y : Y = IF q.items = << >> THEN S \cup q.chunks ELSE q.keep
      OBVIOUS
    <2>8. Has(str2, Y)
      <3>1. SUFFICES ASSUME Active(str2)
                     PROVE  \E X : Reaches(str2, X) /\ Y \subseteq X
        BY DEF Has
      <3>2. Active(str)
        BY <2>6, <3>1 DEF Active
      <3>3. PICK X : Reaches(str, X) /\ S \subseteq X
        BY <2>1, <3>2 DEF Has
      <3>4. PICK Z : Z = IF q.items = << >> THEN X \cup q.chunks ELSE q.keep
        OBVIOUS
      <3>5. Link(X, q, Z)
        BY <3>3, <3>4 DEF Link
      <3>6. IsSeq(str.requests)
        BY <2>4 DEF IsStream
      <3>7. Reaches(str2, Z)
        BY <2>1, <2>6, <3>3, <3>5, <3>6, ReachesSent
      <3> QED
        BY <2>7, <3>3, <3>4, <3>7
    <2>9. StreamOk(str2, table.items)
      <3>1. EndsRightly(str2)
        BY <2>4, <2>6 DEF StreamOk, EndsRightly
      <3> QED
        BY <2>1, <2>4, <2>6, <2>8, <3>1 DEF StreamOk, Has
    <2>10. ServerInv'
      BY <2>1, <2>3, <2>6, <2>9, StreamStep
    <2>11. stream'[s] = str2 /\ OnlyStream(s)
      BY <2>3, StreamChanged DEF OnlyStream
    <2> QED
      BY <2>1, <2>6, <2>7, <2>8, <2>10, <2>11
  <1> QED
    BY <1>1, <1>2

LEMMA HalfClosedStep ==
    ASSUME ServerInv, NEW s \in Streams, stream[s].open,
           stream' = HalfClosed(s), table' = table
    PROVE  /\ ServerInv' /\ OnlyStream(s)
           /\ \A S : Has(stream[s], S) => Has(stream'[s], S)
           /\ stream'[s].open /\ stream'[s].writes_done
           /\ stream'[s].ended = stream[s].ended
           /\ stream'[s].reactor = stream[s].reactor
  <1>1. PICK str, str2 : str = stream[s] /\ str2 = [str EXCEPT !.writes_done = TRUE]
    OBVIOUS
  <1>2. stream' = [stream EXCEPT ![s] = str2]
    BY <1>1 DEF HalfClosed, ServerInv
  <1>3. StreamOk(str, table.items) /\ IsStream(str)
    BY <1>1 DEF ServerInv, StreamOk
  <1>4. /\ IsStream(str2) /\ str2.reactor = str.reactor /\ str2.open = str.open
        /\ str2.requests = str.requests /\ str2.ended = str.ended
        /\ str2.writes_done
    BY <1>1, <1>3 DEF IsStream
  <1>5. \A X : Reaches(str, X) => Reaches(str2, X)
    BY <1>4, ReachesSame
  <1>6. StreamOk(str2, table.items)
    BY <1>1, <1>3, <1>4, <1>5 DEF StreamOk, Active, EndsRightly
  <1>7. ServerInv'
    BY <1>1, <1>2, <1>4, <1>6, StreamStep
  <1>8. stream'[s] = str2 /\ OnlyStream(s)
    BY <1>2, StreamChanged DEF OnlyStream
  <1>9. \A S : Has(str, S) => Has(str2, S)
    BY <1>4, <1>5 DEF Has, Active
  <1> QED
    BY <1>1, <1>4, <1>7, <1>8, <1>9

LEMMA CancelledStep ==
    ASSUME ServerInv, NEW s \in Streams, stream[s].open,
           stream' = TryCancelled(s), table' = table
    PROVE  ServerInv' /\ \A t \in Streams : Keeps(stream[t], stream'[t])
  <1>1. CASE ~Live(s)
    <2>1. stream' = stream
      BY <1>1 DEF TryCancelled
    <2> QED
      BY <2>1 DEF ServerInv, TableOk, WaitsForInsert, Keeps
  <1>2. CASE Live(s)
    <2>1. PICK how : how = "cancelled"
      OBVIOUS
    <2>2. stream' = [stream EXCEPT ![s] = Ended(stream[s], how)]
      BY <1>2, <2>1 DEF TryCancelled, ServerInv
    <2>3. how \notin {"no", "ok"}
      BY <2>1
    <2> QED
      BY <2>2, <2>3, EndedStep
  <1> QED
    BY <1>1, <1>2

LEMMA ReadFromStep ==
    ASSUME ServerInv, NEW s \in Streams, stream[s].open, CanRead(s),
           stream' = ReadFrom(s), table' = table
    PROVE  /\ ServerInv' /\ ToSet(Response(s)) \subseteq table.items
           /\ \A t \in Streams : Keeps(stream[t], stream'[t])
  <1>1. PICK str, r : str = stream[s] /\ r = str.reactor
    OBVIOUS
  <1>2. PICK w, rest : w = r.wire /\ rest = Tail(w)
    OBVIOUS
  <1>3. PICK q : q = [r EXCEPT !.wire = rest]
    OBVIOUS
  <1>4. PICK str2 : str2 = [str EXCEPT !.reactor = q]
    OBVIOUS
  <1>5. stream' = [stream EXCEPT ![s] = str2] /\ w # << >>
    BY <1>1, <1>2, <1>3, <1>4 DEF ReadFrom, CanRead, ServerInv
  <1>6. /\ StreamOk(str, table.items) /\ IsStream(str) /\ IsReactor(r)
        /\ ConfirmsOnly(r, table.items) /\ w \in Seq(Seq(Nat))
    BY <1>1, <1>2 DEF ServerInv, StreamOk, IsStream, IsReactor
  <1>7. /\ rest \in Seq(Seq(Nat)) /\ Len(rest) = Len(w) - 1 /\ Len(w) \in Nat
        /\ \A i \in 1 .. Len(w) - 1 : rest[i] = w[i + 1]
        /\ DOMAIN rest = 1 .. Len(w) - 1
        /\ Head(w) = w[1] /\ 1 \in DOMAIN w /\ DOMAIN w = 1 .. Len(w)
    BY <1>2, <1>5, <1>6
  <1>8. /\ IsReactor(q) /\ q.wire = rest /\ q.responses = r.responses
        /\ q.still_reading = r.still_reading /\ q.is_finished = r.is_finished
        /\ q.read_in_flight = r.read_in_flight /\ q.status = r.status
        /\ q.chunks = r.chunks /\ q.writes = r.writes
    BY <1>3, <1>6, <1>7 DEF IsReactor
  <1>9. /\ IsStream(str2) /\ str2.reactor = q /\ str2.open = str.open
        /\ str2.requests = str.requests /\ str2.ended = str.ended
        /\ str2.writes_done = str.writes_done
    BY <1>4, <1>6, <1>8, NewReactor
  <1>10. Keeps(str, str2)
    BY <1>1, <1>8, <1>9, ReachesSame DEF Keeps, Active
  <1>11. \A i \in DOMAIN w : ToSet(w[i]) \subseteq table.items
    BY <1>2, <1>6 DEF ConfirmsOnly
  <1>12. StreamOk(str2, table.items)
    <2>1. ASSUME NEW i \in DOMAIN rest PROVE ToSet(rest[i]) \subseteq table.items
      <3>1. PICK j : j = i + 1
        OBVIOUS
      <3>2. j \in DOMAIN w
        BY <1>7, <3>1
      <3>3. rest[i] = w[j]
        BY <1>7, <3>1
      <3> QED
        BY <1>11, <3>2, <3>3
    <2>2. ConfirmsOnly(q, table.items)
      BY <1>6, <1>8, <2>1 DEF ConfirmsOnly
    <2>3. EndsRightly(str2)
      BY <1>1, <1>6, <1>8, <1>9 DEF StreamOk, EndsRightly
    <2>4. WritesMatch(q)
      BY <1>1, <1>6, <1>8 DEF StreamOk, WritesMatch
    <2> QED
      BY <1>1, <1>6, <1>9, <1>10, <2>2, <2>3, <2>4 DEF StreamOk, Keeps, Active
  <1>13. ServerInv'
    BY <1>1, <1>5, <1>8, <1>9, <1>12, StreamStep
  <1>14. stream'[s] = str2 /\ \A t \in Streams : t # s => stream'[t] = stream[t]
    BY <1>5, StreamChanged
  <1>15. ASSUME NEW t \in Streams PROVE Keeps(stream[t], stream'[t])
    BY <1>1, <1>10, <1>14 DEF Keeps
  <1>16. Response(s) = w[1]
    BY <1>1, <1>2, <1>7 DEF Response
  <1> QED
    BY <1>7, <1>11, <1>13, <1>15, <1>16

\* What the invariant says of a server that refuses something.
LEMMA NeverRefuses ==
    ASSUME ServerInv, NEW s \in Streams
    PROVE  \/ stream[s].ended # "no"
           \/ stream[s].reactor.status \notin {"internal", "failed_precondition"}
  BY DEF ServerInv, StreamOk, EndsRightly

-----------------------------------------------------------------------------
(* The chunker. *)

IsChunker(c) ==
    /\ c \in [column : {c.column}, max_chunk_length : Nat,
              num_keep_alive_refs : Nat, auto_tuned : {c.auto_tuned},
              scored : {c.scored}, tuned : {c.tuned}, next : Int,
              buffer : {c.buffer}, active_refs : {c.active_refs},
              ready : {c.ready}, chunks : {c.chunks}]
    /\ IsSeq(c.buffer) /\ IsSeq(c.active_refs)

\* A chunk made before the one under construction.
Older(c, chunk) == \E n \in Int : n < c.next /\ chunk = <<c.column, n>>

\* The last references are those of the buffer, and the others are ready.
InOrder(c) ==
    LET a == Len(c.active_refs)
        b == Len(c.buffer)
    IN  /\ b <= a
        /\ \A i \in 1 .. a :
              IF i <= a - b THEN c.active_refs[i] \in c.ready
              ELSE c.active_refs[i].chunk = <<c.column, c.next>>
        /\ \A r \in c.ready : Older(c, r.chunk)

ChunkerOk(c) ==
    /\ IsChunker(c) /\ InOrder(c)
    /\ 1 <= c.max_chunk_length /\ c.max_chunk_length <= c.num_keep_alive_refs
    /\ Len(c.buffer) <= c.num_keep_alive_refs

\* The data of the cell is in a chunk or will be.
Usable(c, cell) ==
    \/ cell \in c.ready
    \/ cell \in ToSet(c.active_refs) /\ cell.chunk = <<c.column, c.next>>

\* Nothing that was usable is lost.
Evolves(c, d) ==
    /\ d.column = c.column /\ c.next <= d.next /\ c.ready \subseteq d.ready
    /\ \A cell : Usable(c, cell) => Usable(d, cell)

LEMMA ActiveUsable ==
    ASSUME NEW c, IsChunker(c), InOrder(c), NEW cell \in ToSet(c.active_refs)
    PROVE  Usable(c, cell)
  <1>1. PICK i \in 1 .. Len(c.active_refs) : cell = c.active_refs[i]
    BY IsSeqFacts DEF IsChunker
  <1> QED
    BY <1>1 DEF InOrder, Usable

\* Nothing is in the buffer: all references are ready.
LEMMA AllReady ==
    ASSUME NEW c, IsChunker(c), InOrder(c), c.buffer = << >>
    PROVE  /\ ToSet(c.active_refs) \subseteq c.ready
           /\ \A cell : Usable(c, cell) => cell \in c.ready
  <1>1. Len(c.buffer) = 0
    BY EmptyIsSeq
  <1>2. Len(c.active_refs) \in Nat
    BY IsSeqFacts DEF IsChunker
  <1>3. \A i \in 1 .. Len(c.active_refs) : i <= Len(c.active_refs) - 0
    BY <1>2
  <1>4. \A i \in 1 .. Len(c.active_refs) : c.active_refs[i] \in c.ready
    BY <1>1, <1>3 DEF InOrder
  <1>5. ToSet(c.active_refs) \subseteq c.ready
    BY <1>4, IsSeqFacts DEF IsChunker
  <1> QED
    BY <1>5 DEF Usable

LEMMA OlderGrows ==
    ASSUME NEW c, NEW d, c.next \in Int, d.next \in Int, c.next <= d.next,
           d.column = c.column, NEW chunk, Older(c, chunk)
    PROVE  Older(d, chunk)
  <1>1. PICK n \in Int : n < c.next /\ chunk = <<c.column, n>>
    BY DEF Older
  <1>2. n < d.next
    BY <1>1
  <1> QED
    BY <1>1, <1>2 DEF Older

\* A chunk that is made makes every reference ready.
LEMMA FlushFacts ==
    ASSUME NEW c, IsChunker(c), InOrder(c), NEW d, d = FlushChunker(c)
    PROVE  /\ IsChunker(d) /\ InOrder(d) /\ Evolves(c, d) /\ d.buffer = << >>
           /\ d.active_refs = c.active_refs
           /\ ToSet(d.active_refs) \subseteq d.ready
           /\ d.max_chunk_length = c.max_chunk_length
           /\ d.num_keep_alive_refs = c.num_keep_alive_refs
           /\ c.buffer = << >> => d = c
           /\ c.buffer # << >> => d.next = c.next + 1
           /\ d.ready \subseteq c.ready \cup ToSet(c.active_refs)
  <1>1. CASE c.buffer = << >>
    <2>1. d = c
      BY <1>1 DEF FlushChunker
    <2>2. c.next \in Int
      BY DEF IsChunker
    <2> QED
      BY <1>1, <2>1, <2>2, AllReady DEF Evolves
  <1>2. CASE c.buffer # << >>
    <2>1. PICK key, empty : key = <<c.column, c.next>> /\ empty = << >>
      OBVIOUS
    <2>0. NextChunkKey(c) = key
      BY <2>1 DEF NextChunkKey
    <2>2. PICK ready, n :
             /\ ready = c.ready \cup {r \in ToSet(c.active_refs) : r.chunk = key}
             /\ n = c.next + 1
      OBVIOUS
    <2>13. PICK chunks :
              chunks = [k \in DOMAIN c.chunks \cup {key} |->
                             IF k \in DOMAIN c.chunks THEN c.chunks[k] ELSE c.buffer]
      OBVIOUS
    <2>3. n \in Int /\ c.next < n /\ c.next \in Int
      BY <2>2 DEF IsChunker
    <2>4. d = [c EXCEPT !.chunks = chunks, !.ready = ready, !.buffer = empty,
                        !.next = n]
      BY <1>2, <2>0, <2>1, <2>2, <2>13 DEF FlushChunker
    <2>5. IsSeq(empty)
      BY <2>1, EmptyIsSeq
    <2>6. /\ IsChunker(d) /\ d.column = c.column /\ d.next = n /\ d.ready = ready
          /\ d.buffer = empty /\ d.active_refs = c.active_refs
          /\ d.max_chunk_length = c.max_chunk_length
          /\ d.num_keep_alive_refs = c.num_keep_alive_refs
      BY <2>3, <2>4, <2>5 DEF IsChunker
    <2>7. ToSet(c.active_refs) \subseteq ready
      <3>1. ASSUME NEW r \in ToSet(c.active_refs) PROVE r \in ready
        BY <2>1, <2>2, ActiveUsable DEF Usable
      <3> QED
        BY <3>1
    <2>8. Len(d.buffer) = 0 /\ Len(d.active_refs) \in Nat
      BY <2>1, <2>6, EmptyIsSeq, IsSeqFacts DEF IsChunker
    <2>9. \A i \in 1 .. Len(d.active_refs) : d.active_refs[i] \in d.ready
      BY <2>6, <2>7, IsSeqFacts DEF IsChunker
    <2>10. \A r \in d.ready : Older(d, r.chunk)
      <3>1. ASSUME NEW r \in c.ready PROVE Older(d, r.chunk)
        <4>1. Older(c, r.chunk)
          BY DEF InOrder
        <4> QED
          BY <2>3, <2>6, <4>1, OlderGrows
      <3>2. ASSUME NEW r, r.chunk = key PROVE Older(d, r.chunk)
        BY <2>1, <2>3, <2>6, <3>2 DEF Older
      <3> QED
        BY <2>2, <2>6, <3>1, <3>2
    <2>11. InOrder(d)
      <3>1. \A i \in 1 .. Len(d.active_refs) : i <= Len(d.active_refs) - 0
        BY <2>8
      <3> QED
        BY <2>8, <2>9, <2>10, <3>1 DEF InOrder
    <2>12. Evolves(c, d)
      BY <2>2, <2>3, <2>6, <2>7 DEF Evolves, Usable
    <2> QED
      BY <1>2, <2>1, <2>2, <2>6, <2>7, <2>11, <2>12
  <1> QED
    BY <1>1, <1>2

\* What Expire lets go is ready.
LEMMA ExpireFacts ==
    ASSUME NEW c, IsChunker(c), InOrder(c), Len(c.buffer) <= c.num_keep_alive_refs,
           NEW d, d = Expire(c)
    PROVE  /\ IsChunker(d) /\ InOrder(d) /\ Evolves(c, d)
           /\ d.buffer = c.buffer /\ d.next = c.next /\ d.ready = c.ready
           /\ d.max_chunk_length = c.max_chunk_length
           /\ d.num_keep_alive_refs = c.num_keep_alive_refs
           /\ ToSet(d.active_refs) \subseteq ToSet(c.active_refs)
           /\ c.active_refs # << >> /\ 1 <= c.num_keep_alive_refs =>
                 /\ d.active_refs # << >>
                 /\ Last(d.active_refs) = Last(c.active_refs)
  <1>1. PICK refs, n, m, b :
           refs = c.active_refs /\ n = Len(refs) /\ m = c.num_keep_alive_refs
           /\ b = Len(c.buffer)
    OBVIOUS
  <1>2. n \in Nat /\ m \in Nat /\ b \in Nat /\ b <= n /\ b <= m /\ c.next \in Int
        /\ IsSeq(refs) /\ DOMAIN refs = 1 .. n
    BY <1>1, IsSeqFacts DEF IsChunker, InOrder
  <1>3. CASE n <= m
    <2>1. d = c
      <3>1. d = [c EXCEPT !.active_refs = c.active_refs]
        BY <1>1, <1>3 DEF Expire, IsChunker
      <3> QED
        BY <3>1 DEF IsChunker
    <2> QED
      BY <1>2, <2>1 DEF Evolves
  <1>4. CASE ~(n <= m)
    <2>1. PICK short : short = SubSeq(refs, n - m + 1, n)
      OBVIOUS
    <2>2. d = [c EXCEPT !.active_refs = short]
      BY <1>1, <1>4, <2>1 DEF Expire, IsChunker
    <2>3. PICK a : a = n - m + 1
      OBVIOUS
    <2>4. a \in Int /\ 1 <= a /\ a <= n + 1 /\ n - a + 1 = m /\ n - m \in Nat
      BY <1>2, <1>4, <2>3
    <2>6. /\ IsSeq(short) /\ ToSet(short) \subseteq ToSet(refs)
          /\ Len(short) = n - a + 1
          /\ \A i \in 1 .. n - a + 1 : short[i] = refs[a + i - 1]
      <3>1. n \in Int /\ n <= Len(refs) /\ short = SubSeq(refs, a, n)
        BY <1>1, <1>2, <2>1, <2>3
      <3> QED
        BY <1>2, <2>4, <3>1, SubSeqSeq, ZenonT(30)
    <2>5. Len(short) = m /\ \A i \in 1 .. m : short[i] = refs[n - m + i]
      <3>1. \A i \in 1 .. m : a + i - 1 = n - m + i
        BY <1>2, <2>3, <2>4
      <3> QED
        BY <2>4, <2>6, <3>1
    <2>7. /\ IsChunker(d) /\ d.column = c.column /\ d.next = c.next
          /\ d.ready = c.ready /\ d.buffer = c.buffer /\ d.active_refs = short
          /\ d.max_chunk_length = c.max_chunk_length
          /\ d.num_keep_alive_refs = c.num_keep_alive_refs
      BY <2>2, <2>6 DEF IsChunker
    <2>8. \A i \in 1 .. n : IF i <= n - b THEN refs[i] \in c.ready
                            ELSE refs[i].chunk = <<c.column, c.next>>
      BY <1>1 DEF InOrder
    <2>9. ASSUME NEW i \in 1 .. m
          PROVE  IF i <= m - b THEN short[i] \in c.ready
                 ELSE short[i].chunk = <<c.column, c.next>>
      <3>1. PICK j : j = n - m + i
        OBVIOUS
      <3>2. j \in 1 .. n /\ (i <= m - b <=> j <= n - b)
        BY <1>2, <2>4, <3>1
      <3>3. short[i] = refs[j]
        BY <2>5, <3>1
      <3> QED
        BY <2>8, <3>2, <3>3
    <2>10. InOrder(d)
      <3>1. \A r \in c.ready : Older(d, r.chunk)
        BY <2>7 DEF InOrder, Older
      <3> QED
        BY <1>1, <1>2, <2>5, <2>7, <2>9, <3>1 DEF InOrder
    <2>11. ASSUME NEW cell, Usable(c, cell) PROVE Usable(d, cell)
      <3>1. CASE cell \in c.ready
        BY <2>7, <3>1 DEF Usable
      <3>2. CASE cell \notin c.ready
        <4>1. cell \in ToSet(refs) /\ cell.chunk = <<c.column, c.next>>
          BY <1>1, <2>11, <3>2 DEF Usable
        <4>2. PICK i \in 1 .. n : cell = refs[i]
          BY <1>1, <1>2, <4>1, IsSeqFacts
        <4>3. ~(i <= n - b)
          BY <2>8, <3>2, <4>2
        <4>4. PICK j : j = i - (n - m)
          OBVIOUS
        <4>5. j \in 1 .. m /\ n - m + j = i
          BY <1>2, <1>4, <4>3, <4>4
        <4>6. cell = short[j]
          BY <2>5, <4>2, <4>5
        <4>7. cell \in ToSet(short)
          BY <2>5, <2>6, <4>5, <4>6, IsSeqFacts
        <4> QED
          BY <2>7, <4>1, <4>7 DEF Usable
      <3> QED
        BY <3>1, <3>2
    <2>12. 1 <= m => short # << >> /\ Last(short) = Last(refs)
      <3>1. SUFFICES ASSUME 1 <= m PROVE short # << >> /\ Last(short) = Last(refs)
        OBVIOUS
      <3>2. short # << >>
        BY <1>2, <2>5, <2>6, <3>1, IsSeqFacts
      <3>3. short[m] = refs[n - m + m] /\ n - m + m = n
        BY <1>2, <2>5, <3>1
      <3> QED
        BY <1>1, <2>5, <3>2, <3>3 DEF Last
    <2> QED
      BY <1>1, <1>2, <2>6, <2>7, <2>10, <2>11, <2>12 DEF Evolves
  <1> QED
    BY <1>3, <1>4

LEMMA AppendFacts ==
    ASSUME NEW c, ChunkerOk(c), NEW episode, NEW step,
           NEW f, f = AppendToChunker(c, episode, step)
    PROVE  /\ ChunkerOk(f) /\ Evolves(c, f) /\ f.active_refs # << >>
           /\ Last(f.active_refs).chunk = <<c.column, c.next>>
           /\ ToSet(f.active_refs)
                 \subseteq ToSet(c.active_refs) \cup {Last(f.active_refs)}
           /\ f.ready \subseteq c.ready \cup ToSet(c.active_refs) \cup {Last(f.active_refs)}
  <1>1. PICK cell, refs, buffer :
           /\ cell = CellRef(c, episode, step)
           /\ refs = Append(c.active_refs, cell)
           /\ buffer = Append(c.buffer, <<episode, step>>)
    OBVIOUS
  <1>2. cell.chunk = <<c.column, c.next>>
    BY <1>1 DEF CellRef, NextChunkKey
  <1>3. PICK d : d = [c EXCEPT !.active_refs = refs, !.buffer = buffer]
    OBVIOUS
  <1>4. IsChunker(c) /\ InOrder(c) /\ c.next \in Int
    BY DEF ChunkerOk, IsChunker
  <1>5. PICK n, b : n = Len(c.active_refs) /\ b = Len(c.buffer)
    OBVIOUS
  <1>6. /\ IsSeq(refs) /\ Len(refs) = n + 1 /\ ToSet(refs) = ToSet(c.active_refs) \cup {cell}
        /\ \A i \in 1 .. n : refs[i] = c.active_refs[i]
        /\ refs[n + 1] = cell
    BY <1>1, <1>4, <1>5, AppendSeq DEF IsChunker
  <1>7. IsSeq(buffer) /\ Len(buffer) = b + 1
    BY <1>1, <1>4, <1>5, AppendSeq DEF IsChunker
  <1>8. n \in Nat /\ b \in Nat /\ b <= n /\ b <= c.num_keep_alive_refs
    BY <1>4, <1>5, IsSeqFacts DEF IsChunker, InOrder, ChunkerOk
  <1>9. /\ IsChunker(d) /\ d.active_refs = refs /\ d.buffer = buffer
        /\ d.column = c.column /\ d.next = c.next /\ d.ready = c.ready
        /\ d.max_chunk_length = c.max_chunk_length
        /\ d.num_keep_alive_refs = c.num_keep_alive_refs
    BY <1>3, <1>4, <1>6, <1>7 DEF IsChunker
  <1>10. InOrder(d)
    <2>1. ASSUME NEW i \in 1 .. n + 1
          PROVE  IF i <= (n + 1) - (b + 1) THEN refs[i] \in c.ready
                 ELSE refs[i].chunk = <<c.column, c.next>>
      <3>1. CASE i = n + 1
        <4>1. ~(i <= (n + 1) - (b + 1))
          BY <1>8, <3>1
        <4> QED
          BY <1>2, <1>6, <3>1, <4>1
      <3>2. CASE i # n + 1
        <4>1. i \in 1 .. n /\ (i <= (n + 1) - (b + 1) <=> i <= n - b)
          BY <1>8, <3>2
        <4>2. IF i <= n - b THEN c.active_refs[i] \in c.ready
              ELSE c.active_refs[i].chunk = <<c.column, c.next>>
          BY <1>4, <1>5, <4>1 DEF InOrder
        <4> QED
          BY <1>6, <4>1, <4>2
      <3> QED
        BY <3>1, <3>2
    <2>2. \A r \in c.ready : Older(d, r.chunk)
      BY <1>4, <1>9 DEF InOrder, Older
    <2>3. b + 1 <= n + 1
      BY <1>8
    <2> QED
      BY <1>6, <1>7, <1>9, <2>1, <2>2, <2>3 DEF InOrder
  <1>11. Evolves(c, d)
    BY <1>4, <1>6, <1>9 DEF Evolves, Usable
  <1>12. refs # << >> /\ Last(refs) = cell
    BY <1>6, <1>8, IsSeqFacts DEF Last
  <1>13. PICK e : e = IF Len(buffer) >= c.max_chunk_length
                      THEN FlushChunker(d) ELSE d
    OBVIOUS
  <1>14. f = Expire(e)
    BY <1>1, <1>3, <1>9, <1>13 DEF AppendToChunker
  <1>15. /\ IsChunker(e) /\ InOrder(e) /\ Evolves(c, e) /\ e.active_refs = refs
         /\ e.max_chunk_length = c.max_chunk_length
         /\ e.num_keep_alive_refs = c.num_keep_alive_refs
         /\ Len(e.buffer) <= c.num_keep_alive_refs
         /\ e.ready \subseteq c.ready \cup ToSet(refs)
    <2>1. c.max_chunk_length \in Nat /\ c.num_keep_alive_refs \in Nat
          /\ c.max_chunk_length <= c.num_keep_alive_refs
      BY DEF ChunkerOk, IsChunker
    <2>2. CASE Len(buffer) >= c.max_chunk_length
      <3>1. e = FlushChunker(d)
        BY <1>13, <2>2
      <3>2. /\ IsChunker(e) /\ InOrder(e) /\ Evolves(d, e) /\ e.buffer = << >>
            /\ e.active_refs = d.active_refs
            /\ e.max_chunk_length = d.max_chunk_length
            /\ e.num_keep_alive_refs = d.num_keep_alive_refs
            /\ e.ready \subseteq d.ready \cup ToSet(d.active_refs)
        BY <1>9, <1>10, <3>1, FlushFacts
      <3>3. Len(e.buffer) = 0
        BY <3>2, EmptyIsSeq
      <3>4. Evolves(c, e)
        <4>1. e.next \in Int
          BY <3>2 DEF IsChunker
        <4> QED
          BY <1>4, <1>9, <1>11, <3>2, <4>1 DEF Evolves
      <3> QED
        BY <1>9, <2>1, <3>2, <3>3, <3>4
    <2>3. CASE ~(Len(buffer) >= c.max_chunk_length)
      <3>1. e = d
        BY <1>13, <2>3
      <3>2. b + 1 <= c.num_keep_alive_refs
        BY <1>7, <1>8, <2>1, <2>3
      <3> QED
        BY <1>7, <1>9, <1>10, <1>11, <3>1, <3>2
    <2> QED
      BY <2>2, <2>3
  <1>16. 1 <= c.num_keep_alive_refs /\ c.num_keep_alive_refs \in Nat
    BY DEF ChunkerOk, IsChunker
  <1>17. /\ IsChunker(f) /\ InOrder(f) /\ Evolves(e, f)
         /\ f.buffer = e.buffer /\ f.next = e.next /\ f.ready = e.ready
         /\ f.max_chunk_length = e.max_chunk_length
         /\ f.num_keep_alive_refs = e.num_keep_alive_refs
         /\ ToSet(f.active_refs) \subseteq ToSet(e.active_refs)
         /\ f.active_refs # << >> /\ Last(f.active_refs) = Last(e.active_refs)
    BY <1>12, <1>14, <1>15, <1>16, ExpireFacts
  <1>18. Evolves(c, f)
    <2>1. e.next \in Int /\ f.next \in Int
      BY <1>15, <1>17 DEF IsChunker
    <2> QED
      BY <1>4, <1>15, <1>17, <2>1 DEF Evolves
  <1>19. ChunkerOk(f)
    BY <1>15, <1>17 DEF ChunkerOk
  <1> QED
    BY <1>2, <1>6, <1>12, <1>15, <1>17, <1>18, <1>19

LEMMA ConfigFacts ==
    ASSUME NEW c, ChunkerOk(c), NEW o, o.max_chunk_length \in Nat,
           o.num_keep_alive_refs \in Nat, MayApplyConfig(c, o),
           NEW f, f = ApplyConfig(c, o)
    PROVE  ChunkerOk(f) /\ Evolves(c, f)
  <1>1. PICK d : d = [c EXCEPT !.max_chunk_length = o.max_chunk_length,
                               !.num_keep_alive_refs = o.num_keep_alive_refs,
                               !.auto_tuned = o.auto_tuned, !.scored = 0,
                               !.tuned = FALSE]
    OBVIOUS
  <1>2. f = Expire(d)
    BY <1>1 DEF ApplyConfig
  <1>3. IsChunker(c) /\ InOrder(c) /\ c.next \in Int
    BY DEF ChunkerOk, IsChunker
  <1>4. /\ IsChunker(d) /\ d.active_refs = c.active_refs /\ d.buffer = c.buffer
        /\ d.column = c.column /\ d.next = c.next /\ d.ready = c.ready
        /\ d.max_chunk_length = o.max_chunk_length
        /\ d.num_keep_alive_refs = o.num_keep_alive_refs
    BY <1>1, <1>3 DEF IsChunker
  <1>5. InOrder(d) /\ Evolves(c, d)
    BY <1>3, <1>4 DEF InOrder, Older, Evolves, Usable
  <1>6. Len(d.buffer) = 0 /\ 1 <= d.max_chunk_length
        /\ d.max_chunk_length <= d.num_keep_alive_refs
    BY <1>4, EmptyIsSeq DEF MayApplyConfig, ValidOptions
  <1>7. /\ IsChunker(f) /\ InOrder(f) /\ Evolves(d, f)
        /\ f.buffer = d.buffer /\ f.next = d.next /\ f.ready = d.ready
        /\ f.max_chunk_length = d.max_chunk_length
        /\ f.num_keep_alive_refs = d.num_keep_alive_refs
    BY <1>2, <1>4, <1>5, <1>6, ExpireFacts
  <1>8. ChunkerOk(f)
    BY <1>4, <1>6, <1>7 DEF ChunkerOk
  <1>9. Evolves(c, f)
    BY <1>3, <1>4, <1>5, <1>7 DEF Evolves
  <1> QED
    BY <1>8, <1>9

LEMMA FinalizedFacts ==
    ASSUME NEW c, ChunkerOk(c), NEW f \in OnItemFinalized(c)
    PROVE  ChunkerOk(f) /\ Evolves(c, f)
  <1>1. PICK m, k : m = c.max_chunk_length /\ k = c.num_keep_alive_refs
    OBVIOUS
  <1>2. IsChunker(c) /\ InOrder(c) /\ c.next \in Int /\ m \in Nat /\ k \in Nat
        /\ 1 <= m /\ m <= k
    BY <1>1 DEF ChunkerOk, IsChunker
  <1>3. \E scored, tuned, n :
           /\ f = [c EXCEPT !.scored = scored, !.tuned = tuned,
                            !.max_chunk_length = n]
           /\ n \in Nat /\ 1 <= n /\ n <= k
    <2>1. CASE f = c
      <3>1. f = [c EXCEPT !.scored = c.scored, !.tuned = c.tuned,
                          !.max_chunk_length = m]
        BY <1>1, <1>2, <2>1 DEF IsChunker
      <3> QED
        BY <1>2, <3>1
    <2>2. PICK d : d = [c EXCEPT !.scored = IF c.scored < NumItemsToScore
                                            THEN c.scored + 1 ELSE c.scored]
      OBVIOUS
    <2>3. PICK scored : d = [c EXCEPT !.scored = scored]
      BY <2>2
    <2>4. CASE f = d
      <3>1. f = [c EXCEPT !.scored = scored, !.tuned = c.tuned,
                          !.max_chunk_length = m]
        BY <1>1, <1>2, <2>3, <2>4 DEF IsChunker
      <3> QED
        BY <1>2, <3>1
    <2>5. ASSUME NEW diff \in {2, 0, -1},
                 f = [d EXCEPT !.scored = 0, !.tuned = TRUE,
                               !.max_chunk_length =
                                  IF m + diff < 1 THEN 1
                                  ELSE IF m + diff > k THEN k ELSE m + diff]
          PROVE  \E sc, tuned, n :
                    /\ f = [c EXCEPT !.scored = sc, !.tuned = tuned,
                                     !.max_chunk_length = n]
                    /\ n \in Nat /\ 1 <= n /\ n <= k
      <3>1. PICK n : n = IF m + diff < 1 THEN 1
                         ELSE IF m + diff > k THEN k ELSE m + diff
        OBVIOUS
      <3>2. n \in Nat /\ 1 <= n /\ n <= k
        BY <1>2, <3>1
      <3>3. f = [c EXCEPT !.scored = 0, !.tuned = TRUE, !.max_chunk_length = n]
        <4>1. f = [d EXCEPT !.scored = 0, !.tuned = TRUE, !.max_chunk_length = n]
          BY <2>5, <3>1
        <4> QED
          BY <1>2, <2>3, <4>1 DEF IsChunker
      <3> QED
        BY <3>2, <3>3
    <2>6. \/ f = c \/ f = d
          \/ \E diff \in {2, 0, -1} :
                f = [d EXCEPT !.scored = 0, !.tuned = TRUE,
                              !.max_chunk_length =
                                 IF m + diff < 1 THEN 1
                                 ELSE IF m + diff > k THEN k ELSE m + diff]
      <3>1. d.max_chunk_length = m
        BY <1>1, <1>2, <2>3 DEF IsChunker
      <3> QED
        BY <1>1, <2>2, <3>1 DEF OnItemFinalized
    <2> QED
      BY <2>1, <2>4, <2>5, <2>6
  <1>4. PICK scored, tuned, n :
           /\ f = [c EXCEPT !.scored = scored, !.tuned = tuned,
                            !.max_chunk_length = n]
           /\ n \in Nat /\ 1 <= n /\ n <= k
    BY <1>3
  <1>5. /\ IsChunker(f) /\ f.active_refs = c.active_refs /\ f.buffer = c.buffer
        /\ f.column = c.column /\ f.next = c.next /\ f.ready = c.ready
        /\ f.max_chunk_length = n /\ f.num_keep_alive_refs = k
    BY <1>1, <1>2, <1>4 DEF IsChunker
  <1>6. InOrder(f) /\ Evolves(c, f)
    BY <1>2, <1>5 DEF InOrder, Older, Evolves, Usable
  <1> QED
    BY <1>1, <1>4, <1>5, <1>6 DEF ChunkerOk

LEMMA ResetFacts ==
    ASSUME NEW c, ChunkerOk(c), NEW f, f = Reset(c)
    PROVE  /\ ChunkerOk(f) /\ f.active_refs = << >> /\ f.column = c.column
           /\ c.next <= f.next /\ f.ready = c.ready
  <1>1. PICK empty, n : empty = << >> /\ n = c.next + 1
    OBVIOUS
  <1>2. IsChunker(c) /\ InOrder(c) /\ c.next \in Int /\ n \in Int /\ c.next <= n
        /\ c.num_keep_alive_refs \in Nat
    BY <1>1 DEF ChunkerOk, IsChunker
  <1>3. f = [c EXCEPT !.buffer = empty, !.active_refs = empty, !.next = n]
    BY <1>1 DEF Reset
  <1>4. IsSeq(empty) /\ Len(empty) = 0
    BY <1>1, EmptyIsSeq
  <1>5. /\ IsChunker(f) /\ f.active_refs = empty /\ f.buffer = empty
        /\ f.column = c.column /\ f.next = n /\ f.ready = c.ready
        /\ f.max_chunk_length = c.max_chunk_length
        /\ f.num_keep_alive_refs = c.num_keep_alive_refs
    BY <1>2, <1>3, <1>4 DEF IsChunker
  <1>6. \A r \in f.ready : Older(f, r.chunk)
    BY <1>2, <1>5, OlderGrows DEF InOrder
  <1>7. InOrder(f)
    BY <1>4, <1>5, <1>6 DEF InOrder
  <1> QED
    BY <1>1, <1>2, <1>4, <1>5, <1>7 DEF ChunkerOk

LEMMA NewChunkerFacts ==
    ASSUME NEW o, o.max_chunk_length \in Nat, o.num_keep_alive_refs \in Nat,
           ValidOptions(o),
           NEW c, c = NewChunker(1, o)
    PROVE  ChunkerOk(c) /\ c.active_refs = << >> /\ c.ready = {}
  <1>1. PICK empty : empty = << >>
    OBVIOUS
  <1>2. c = [column |-> 1, max_chunk_length |-> o.max_chunk_length,
             num_keep_alive_refs |-> o.num_keep_alive_refs,
             auto_tuned |-> o.auto_tuned, scored |-> 0, tuned |-> FALSE,
             next |-> 1, buffer |-> empty, active_refs |-> empty,
             ready |-> {}, chunks |-> empty]
    BY <1>1 DEF NewChunker
  <1>3. IsSeq(empty) /\ Len(empty) = 0
    BY <1>1, EmptyIsSeq
  <1>4. /\ IsChunker(c) /\ c.active_refs = empty /\ c.buffer = empty /\ c.ready = {}
        /\ c.max_chunk_length = o.max_chunk_length
        /\ c.num_keep_alive_refs = o.num_keep_alive_refs
    BY <1>2, <1>3 DEF IsChunker
  <1>5. InOrder(c)
    BY <1>3, <1>4 DEF InOrder
  <1> QED
    BY <1>1, <1>3, <1>4, <1>5 DEF ChunkerOk, ValidOptions

LEMMA EvolvesNot ==
    ASSUME NEW c, ChunkerOk(c)
    PROVE  Evolves(c, c)
  BY DEF ChunkerOk, IsChunker, Evolves

LEMMA FlushOk ==
    ASSUME NEW c, ChunkerOk(c), NEW d, d = FlushChunker(c)
    PROVE  ChunkerOk(d) /\ Evolves(c, d)
  <1>1. /\ IsChunker(d) /\ InOrder(d) /\ Evolves(c, d) /\ d.buffer = << >>
        /\ d.max_chunk_length = c.max_chunk_length
        /\ d.num_keep_alive_refs = c.num_keep_alive_refs
    BY FlushFacts DEF ChunkerOk
  <1>2. Len(d.buffer) = 0 /\ d.num_keep_alive_refs \in Nat
    BY <1>1, EmptyIsSeq DEF IsChunker
  <1> QED
    BY <1>1, <1>2 DEF ChunkerOk
=============================================================================
