--------------------------- MODULE SamplerProofs ----------------------------
(***************************************************************************)
(* Proofs of the safety properties of the Sampler and of the streams that  *)
(* serve it, for every value of the constants.                             *)
(*                                                                         *)
(* Part 1: types, writes, reservations and Close.                          *)
(* Part 2: samples leave the Sampler in order and at most once, and the    *)
(*         Sampler implements SampleSource.                                *)
(***************************************************************************)
EXTENDS SamplerProperties, FiniteSetTheorems, SequenceTheorems, TLAPS

-----------------------------------------------------------------------------
(* Part 1. Types, writes, reservations and Close. *)

Statuses == {"ok", "cancelled", "unavailable", "timeout", "internal"}

\* An entry of a response, and a response.
Entry == [sample : Nat, chunks : Nat, end_of_sequence : BOOLEAN]
Response == Seq(Entry)

ReactorRecord ==
    [read_in_flight : BOOLEAN, still_reading : BOOLEAN, is_finished : BOOLEAN,
     responses : Seq(Response), writes : Int, sending : Response,
     wire : Seq(Response), status : Statuses \cup {None},
     check_failed : BOOLEAN, requested : Int, fetched : Int,
     last_batch_size : Int, waiting : BOOLEAN, enqueued : Int,
     oversize : BOOLEAN]

-----------------------------------------------------------------------------
(* Sequences. *)

LEMMA AppendFacts ==
    ASSUME NEW S, NEW q \in Seq(S), NEW x \in S
    PROVE  /\ Append(q, x) \in Seq(S)
           /\ Len(Append(q, x)) = Len(q) + 1 /\ Len(q) \in Nat
           /\ \A i \in 1 .. Len(q) : Append(q, x)[i] = q[i]
           /\ Append(q, x)[Len(q) + 1] = x
  BY AppendProperties

LEMMA TailFacts ==
    ASSUME NEW S, NEW q \in Seq(S), q # << >>
    PROVE  /\ Tail(q) \in Seq(S)
           /\ Len(Tail(q)) = Len(q) - 1 /\ Len(q) \in Nat \ {0}
           /\ \A i \in 1 .. Len(Tail(q)) : Tail(q)[i] = q[i + 1]
           /\ Head(q) = q[1] /\ Head(q) \in S
  BY HeadTailProperties, EmptySeq

-----------------------------------------------------------------------------
(* The methods of a reactor that pack samples into responses. *)

\* The last entry of a sequence of responses, with one chunk more; and the
\* responses with this entry in its place.
LastEntry(rs) == rs[Len(rs)][Len(rs[Len(rs)])]
BumpedEntry(rs, end) ==
    [sample |-> LastEntry(rs).sample, chunks |-> LastEntry(rs).chunks + 1,
     end_of_sequence |-> end]
WithLast(rs, x) ==
    [rs EXCEPT ![Len(rs)] = [rs[Len(rs)] EXCEPT ![Len(rs[Len(rs)])] = x]]
Bumped(rs, end) == WithLast(rs, BumpedEntry(rs, end))

\* There is a last entry.
HasEntry(rs) == rs # << >> /\ rs[Len(rs)] # << >>

FirstEntry(s) == [sample |-> s, chunks |-> 0, end_of_sequence |-> FALSE]

\* r and q differ at most in what they will send.
SameButResponses(r, q) ==
    q = [r EXCEPT !.responses = q.responses, !.oversize = q.oversize]

LEMMA LastFacts ==
    ASSUME NEW rs \in Seq(Response), HasEntry(rs)
    PROVE  /\ Len(rs) \in Nat \ {0} /\ rs[Len(rs)] \in Response
           /\ Len(rs[Len(rs)]) \in Nat \ {0} /\ LastEntry(rs) \in Entry
  <1>1. Len(rs) \in Nat \ {0}
    BY EmptySeq DEF HasEntry
  <1>2. rs[Len(rs)] \in Response
    BY <1>1
  <1>3. Len(rs[Len(rs)]) \in Nat \ {0}
    BY <1>2, EmptySeq DEF HasEntry, Response
  <1> QED
    BY <1>1, <1>2, <1>3 DEF LastEntry, Response

LEMMA WithLastFacts ==
    ASSUME NEW rs \in Seq(Response), HasEntry(rs), NEW x \in Entry
    PROVE  LET n == Len(rs)
               e == Len(rs[n])
               b == WithLast(rs, x)
           IN  /\ b \in Seq(Response) /\ Len(b) = n
               /\ \A m \in 1 .. n : m # n => b[m] = rs[m]
               /\ Len(b[n]) = e /\ b[n] \in Response
               /\ \A j \in 1 .. e : j # e => b[n][j] = rs[n][j]
               /\ b[n][e] = x
  <1> DEFINE n == Len(rs)
             e == Len(rs[n])
             l == [rs[n] EXCEPT ![e] = x]
  <1>1. n \in Nat \ {0} /\ rs[n] \in Response /\ e \in Nat \ {0}
    BY LastFacts
  <1>2. WithLast(rs, x) = [rs EXCEPT ![n] = l]
    BY DEF WithLast
  <1>3. /\ l \in Response /\ Len(l) = e
        /\ \A j \in 1 .. e : j # e => l[j] = rs[n][j]
        /\ l[e] = x
    BY <1>1 DEF Response
  <1> HIDE DEF l
  <1>4. LET b == [rs EXCEPT ![n] = l]
        IN  /\ b \in Seq(Response) /\ Len(b) = n
            /\ \A m \in 1 .. n : m # n => b[m] = rs[m]
            /\ b[n] = l
    BY <1>1, <1>3
  <1> QED
    BY <1>1, <1>2, <1>3, <1>4

LEMMA BumpedFacts ==
    ASSUME NEW rs \in Seq(Response), HasEntry(rs), NEW end \in BOOLEAN
    PROVE  LET n == Len(rs)
               e == Len(rs[n])
               b == Bumped(rs, end)
           IN  /\ n \in Nat \ {0} /\ e \in Nat \ {0}
               /\ b \in Seq(Response) /\ Len(b) = n
               /\ \A m \in 1 .. n : m # n => b[m] = rs[m]
               /\ Len(b[n]) = e /\ b[n] \in Response
               /\ \A j \in 1 .. e : j # e => b[n][j] = rs[n][j]
               /\ b[n][e].sample = rs[n][e].sample
               /\ b[n][e].end_of_sequence = end
  <1> DEFINE x == BumpedEntry(rs, end)
  <1>1. LastEntry(rs) \in Entry
    BY LastFacts
  <1>2. x \in Entry /\ x.sample = LastEntry(rs).sample /\ x.end_of_sequence = end
    BY <1>1 DEF Entry, BumpedEntry
  <1> HIDE DEF x
  <1> QED
    BY <1>2, LastFacts, WithLastFacts DEF Bumped, x, LastEntry

\* Two changes of the last entry.
LEMMA WithLastTwice ==
    ASSUME NEW rs \in Seq(Response), HasEntry(rs), NEW x \in Entry, NEW y \in Entry
    PROVE  WithLast(WithLast(rs, x), y) = WithLast(rs, y)
  <1> DEFINE n == Len(rs)
             e == Len(rs[n])
             l == rs[n]
             k == [l EXCEPT ![e] = x]
             b == [rs EXCEPT ![n] = k]
  <1>1. n \in Nat \ {0} /\ l \in Response /\ e \in Nat \ {0}
    BY LastFacts
  <1>2. k \in Response /\ Len(k) = e /\ [k EXCEPT ![e] = y] = [l EXCEPT ![e] = y]
    BY <1>1 DEF Response
  <1>3. b \in Seq(Response) /\ Len(b) = n /\ b[n] = k
    BY <1>1, <1>2
  <1>4. WithLast(rs, x) = b
    BY DEF WithLast
  <1> HIDE DEF k
  <1>5. [b EXCEPT ![n] = [l EXCEPT ![e] = y]] = [rs EXCEPT ![n] = [l EXCEPT ![e] = y]]
    BY <1>1, <1>2
  <1> HIDE DEF b
  <1>6. WithLast(b, y) = [b EXCEPT ![n] = [k EXCEPT ![e] = y]]
    BY <1>2, <1>3 DEF WithLast
  <1> QED
    BY <1>2, <1>4, <1>5, <1>6 DEF WithLast

LEMMA NewEntry ==
    ASSUME NEW s \in Nat
    PROVE  /\ FirstEntry(s) \in Entry /\ FirstEntry(s).sample = s
           /\ ~FirstEntry(s).end_of_sequence
           /\ << >> \in Response
           /\ Append(<< >>, FirstEntry(s)) = <<FirstEntry(s)>>
           /\ <<FirstEntry(s)>> \in Response /\ Len(<<FirstEntry(s)>>) = 1
           /\ <<FirstEntry(s)>>[1] = FirstEntry(s)
  BY DEF FirstEntry, Entry, Response

\* AddEntry puts an entry behind the last response, or begins the new one.
LEMMA AddEntryFacts ==
    ASSUME NEW r \in ReactorRecord, NEW s \in Nat, r.responses # << >>
    PROVE  LET q == AddEntry(r, s)
               n == Len(r.responses)
           IN  /\ q \in ReactorRecord /\ SameButResponses(r, q)
               /\ n \in Nat \ {0} /\ Len(q.responses) = n
               /\ r.responses[n] \in Response /\ q.oversize = r.oversize
               /\ \A m \in 1 .. n : m # n => q.responses[m] = r.responses[m]
               /\ q.responses[n] = Append(r.responses[n], FirstEntry(s))
               /\ q.responses \in Seq(Response)
  <1> DEFINE rs == r.responses
             n == Len(rs)
             l == Append(rs[n], FirstEntry(s))
             b == [rs EXCEPT ![n] = l]
             q == [r EXCEPT !.responses = b]
  <1>1. rs \in Seq(Response) /\ n \in Nat \ {0}
    BY EmptySeq DEF ReactorRecord
  <1>2. rs[n] \in Response
    BY <1>1
  <1>3. l \in Response
    BY <1>2, NewEntry, AppendFacts DEF Response
  <1>4. AddEntry(r, s) = q
    BY DEF AddEntry, FirstEntry
  <1> HIDE DEF l
  <1>5. /\ b \in Seq(Response) /\ Len(b) = n /\ b[n] = l
        /\ \A m \in 1 .. n : m # n => b[m] = rs[m]
    BY <1>1, <1>2, <1>3
  <1> HIDE DEF b
  <1>6. q \in ReactorRecord /\ q.responses = b /\ q.oversize = r.oversize
    BY <1>5 DEF ReactorRecord
  <1>7. q = [r EXCEPT !.responses = q.responses, !.oversize = q.oversize]
    BY <1>6 DEF ReactorRecord
  <1> HIDE DEF q
  <1> QED
    BY <1>1, <1>2, <1>4, <1>5, <1>6, <1>7 DEF SameButResponses, l

LEMMA NewResponseFacts ==
    ASSUME NEW r \in ReactorRecord
    PROVE  LET q == NewResponse(r)
           IN  /\ q \in ReactorRecord /\ SameButResponses(r, q)
               /\ q.responses = Append(r.responses, << >>)
               /\ q.oversize = FALSE
  <1>1. r.responses \in Seq(Response) /\ << >> \in Response
    BY EmptySeq DEF ReactorRecord, Response
  <1>2. Append(r.responses, << >>) \in Seq(Response)
    BY <1>1, AppendFacts
  <1> DEFINE a == Append(r.responses, << >>)
             q == [r EXCEPT !.responses = a, !.oversize = FALSE]
  <1> HIDE DEF a
  <1>3. q \in ReactorRecord /\ q.responses = a /\ q.oversize = FALSE
    BY <1>2 DEF ReactorRecord, a
  <1>4. q = [r EXCEPT !.responses = q.responses, !.oversize = q.oversize]
    BY <1>3 DEF ReactorRecord
  <1>5. NewResponse(r) = q
    BY DEF NewResponse, a
  <1> QED
    BY <1>3, <1>4, <1>5 DEF SameButResponses, a

LEMMA SameChain ==
    ASSUME NEW r \in ReactorRecord, NEW q \in ReactorRecord, NEW t \in ReactorRecord,
           SameButResponses(r, q), SameButResponses(q, t)
    PROVE  SameButResponses(r, t)
  BY DEF SameButResponses, ReactorRecord

\* Both together.
LEMMA NewResponseAddEntry ==
    ASSUME NEW r \in ReactorRecord, NEW s \in Nat
    PROVE  LET q == AddEntry(NewResponse(r), s)
           IN  /\ q \in ReactorRecord /\ SameButResponses(r, q)
               /\ q.responses = Append(r.responses, <<FirstEntry(s)>>)
               /\ q.oversize = FALSE
  <1> DEFINE rs == r.responses
             u == NewResponse(r)
             q == AddEntry(u, s)
             c == Append(rs, <<FirstEntry(s)>>)
  <1>1. rs \in Seq(Response) /\ << >> \in Response /\ <<FirstEntry(s)>> \in Response
        /\ Append(<< >>, FirstEntry(s)) = <<FirstEntry(s)>>
    BY NewEntry DEF ReactorRecord
  <1>2. /\ u \in ReactorRecord /\ SameButResponses(r, u)
        /\ u.responses = Append(rs, << >>) /\ u.oversize = FALSE
    BY NewResponseFacts
  <1>3. /\ Len(u.responses) = Len(rs) + 1 /\ Len(rs) \in Nat
        /\ \A m \in 1 .. Len(rs) : u.responses[m] = rs[m]
        /\ u.responses[Len(rs) + 1] = << >>
    BY <1>1, <1>2, AppendFacts
  <1>4. /\ c \in Seq(Response) /\ Len(c) = Len(rs) + 1
        /\ \A m \in 1 .. Len(rs) : c[m] = rs[m]
        /\ c[Len(rs) + 1] = <<FirstEntry(s)>>
    BY <1>1, AppendFacts
  <1>5. u.responses # << >>
    BY <1>3
  <1> HIDE DEF u, c
  <1>6. /\ q \in ReactorRecord /\ SameButResponses(u, q) /\ q.oversize = u.oversize
        /\ Len(q.responses) = Len(u.responses)
        /\ \A m \in 1 .. Len(u.responses) :
              m # Len(u.responses) => q.responses[m] = u.responses[m]
        /\ q.responses[Len(u.responses)] =
              Append(u.responses[Len(u.responses)], FirstEntry(s))
        /\ q.responses \in Seq(Response)
    BY <1>2, <1>5, AddEntryFacts
  <1> HIDE DEF q
  <1>7. \A m \in 1 .. Len(rs) + 1 : q.responses[m] = c[m]
    <2>1. q.responses[Len(rs) + 1] = c[Len(rs) + 1]
      BY <1>1, <1>3, <1>4, <1>6
    <2>2. \A m \in 1 .. Len(rs) : q.responses[m] = c[m]
      BY <1>3, <1>4, <1>6
    <2> QED
      BY <1>3, <2>1, <2>2
  <1>8. q.responses = c
    BY <1>3, <1>4, <1>6, <1>7, SMTT(30)
  <1>9. SameButResponses(r, q)
    BY <1>2, <1>6, SameChain
  <1> QED
    BY <1>2, <1>6, <1>8, <1>9 DEF q, u, c

LEMMA EntryChange ==
    ASSUME NEW a \in Entry, NEW f \in BOOLEAN
    PROVE  LET x == [a EXCEPT !.chunks = @ + 1]
               y == [x EXCEPT !.end_of_sequence = f]
           IN  /\ x \in Entry /\ y \in Entry
               /\ y = [sample |-> a.sample, chunks |-> a.chunks + 1,
                      end_of_sequence |-> f]
  <1> DEFINE x == [a EXCEPT !.chunks = @ + 1]
             y == [x EXCEPT !.end_of_sequence = f]
             z == [sample |-> a.sample, chunks |-> a.chunks + 1,
                   end_of_sequence |-> f]
  <1>1. a.sample \in Nat /\ a.chunks \in Nat /\ a.end_of_sequence \in BOOLEAN
    BY DEF Entry
  <1>2. x = [sample |-> a.sample, chunks |-> a.chunks + 1,
             end_of_sequence |-> a.end_of_sequence]
    BY DEF Entry
  <1>3. y = z
    <2> DEFINE c == a.chunks + 1
               b == a.sample
               d == a.end_of_sequence
    <2> HIDE DEF b, c, d
    <2>1. [[sample |-> b, chunks |-> c, end_of_sequence |-> d]
              EXCEPT !.end_of_sequence = f]
            = [sample |-> b, chunks |-> c, end_of_sequence |-> f]
      OBVIOUS
    <2> QED
      BY <1>2, <2>1 DEF b, c, d
  <1>4. a.chunks + 1 \in Nat
    BY <1>1
  <1>5. x \in Entry
    BY <1>1, <1>2, <1>4 DEF Entry
  <1>6. z \in Entry
    BY <1>1, <1>4 DEF Entry
  <1> QED
    BY <1>3, <1>5, <1>6

\* A chunk goes into the last entry; the rest of the sample may go into a new
\* response.
LEMMA AddChunkFacts ==
    ASSUME NEW r \in ReactorRecord, NEW s \in Samples,
           NEW i \in 1 .. Len(LargeChunks[s]), HasEntry(r.responses)
    PROVE  LET q == AddChunk(r, s, i)
               final == i = Len(LargeChunks[s])
           IN  /\ q \in ReactorRecord /\ SameButResponses(r, q)
               /\ \/ q.responses = Bumped(r.responses, final)
                  \/ /\ ~final
                     /\ q.responses = Append(Bumped(r.responses, FALSE),
                                             <<FirstEntry(s)>>)
  <1> DEFINE rs == r.responses
             n == Len(rs)
             e == Len(rs[n])
             final == i = Len(LargeChunks[s])
             a == LastEntry(rs)
             x == [a EXCEPT !.chunks = @ + 1]
             y == [x EXCEPT !.end_of_sequence = final]
             o == r.oversize \/ LargeChunks[s][i]
             b == WithLast(rs, x)
             c == WithLast(b, y)
             u == [r EXCEPT !.responses = b]
             v == [u EXCEPT !.responses = c]
             t == [v EXCEPT !.oversize = o]
  <1>1. rs \in Seq(Response) /\ s \in Nat /\ o \in BOOLEAN /\ final \in BOOLEAN
    BY SamplerAssumption DEF ReactorRecord
  <1>2. a \in Entry /\ n \in Nat \ {0} /\ rs[n] \in Response /\ e \in Nat \ {0}
        /\ a = rs[n][e]
    BY <1>1, LastFacts DEF LastEntry
  <1>3. AddChunk(r, s, i) =
          LET w == [r EXCEPT !.responses[n][e].chunks = @ + 1,
                             !.responses[n][e].end_of_sequence = final,
                             !.oversize = @ \/ LargeChunks[s][i]]
          IN  IF ~final /\ w.oversize THEN AddEntry(NewResponse(w), s) ELSE w
    BY DEF AddChunk
  <1> HIDE DEF final, a
  <1>4. x \in Entry /\ y \in Entry
    BY <1>1, <1>2, EntryChange
  <1>5. y = BumpedEntry(rs, final)
    BY <1>1, <1>2, EntryChange DEF BumpedEntry, a
  <1>6. x = [rs[n][e] EXCEPT !.chunks = @ + 1]
    BY <1>2
  <1> HIDE DEF x
  <1>7. y = [x EXCEPT !.end_of_sequence = final]
    OBVIOUS
  <1> HIDE DEF y
  <1>8. /\ b \in Seq(Response) /\ Len(b) = n /\ Len(b[n]) = e /\ b[n][e] = x
        /\ HasEntry(b)
    <2>1. /\ b \in Seq(Response) /\ Len(b) = n /\ Len(b[n]) = e /\ b[n][e] = x
          /\ b[n] \in Response
      BY <1>1, <1>4, WithLastFacts
    <2> QED
      BY <1>2, <2>1 DEF HasEntry, Response
  <1>9. c \in Seq(Response) /\ c = Bumped(rs, final)
    BY <1>1, <1>4, <1>5, <1>8, WithLastFacts, WithLastTwice DEF Bumped
  <1>10. u = [r EXCEPT !.responses[n][e].chunks = @ + 1]
    BY <1>6 DEF WithLast
  <1> HIDE DEF b
  <1>11. u \in ReactorRecord /\ u.responses = b
    BY <1>8 DEF ReactorRecord
  <1>12. c = [b EXCEPT ![n] = [b[n] EXCEPT ![e] = y]]
    BY <1>8 DEF WithLast
  <1>13. v = [u EXCEPT !.responses[n][e].end_of_sequence = final]
    BY <1>7, <1>8, <1>11, <1>12
  <1>14. t = [r EXCEPT !.responses[n][e].chunks = @ + 1,
                       !.responses[n][e].end_of_sequence = final,
                       !.oversize = @ \/ LargeChunks[s][i]]
    <2>1. v.oversize = r.oversize
      BY <1>9 DEF ReactorRecord
    <2> QED
      BY <1>10, <1>13, <2>1
  <1> HIDE DEF c, o
  <1>15. /\ t \in ReactorRecord /\ t.responses = c
         /\ t = [r EXCEPT !.responses = t.responses, !.oversize = t.oversize]
    BY <1>1, <1>9, <1>11 DEF ReactorRecord
  <1> HIDE DEF t
  <1>16. AddChunk(r, s, i) = IF ~final /\ t.oversize
                             THEN AddEntry(NewResponse(t), s) ELSE t
    BY <1>3, <1>14
  <1>17. CASE ~final /\ t.oversize
    <2>1. LET q == AddEntry(NewResponse(t), s)
          IN  /\ q \in ReactorRecord /\ SameButResponses(t, q)
              /\ q.responses = Append(t.responses, <<FirstEntry(s)>>)
      BY <1>1, <1>15, NewResponseAddEntry
    <2>2. SameButResponses(r, t)
      BY <1>15 DEF SameButResponses
    <2>3. SameButResponses(r, AddEntry(NewResponse(t), s))
      BY <1>15, <2>1, <2>2, SameChain
    <2>4. final = FALSE
      BY <1>1, <1>17
    <2> QED
      BY <1>9, <1>15, <1>16, <1>17, <2>1, <2>3, <2>4 DEF final
  <1>18. CASE ~(~final /\ t.oversize)
    BY <1>9, <1>15, <1>16, <1>18 DEF SameButResponses, final
  <1> QED
    BY <1>17, <1>18

-----------------------------------------------------------------------------
(* The loop over the chunks of a sample. *)

\* rs is b with more of sample s in it, whose first entry is the last one of b:
\* one entry of s at the end of each response from there on, and the sample has
\* ended in none but the last one, if at all.
PackedFrom(b, rs, s, done) ==
    LET n == Len(b)
        e == Len(b[n])
    IN  /\ rs \in Seq(Response) /\ HasEntry(rs) /\ Len(rs) >= n
        /\ \A m \in 1 .. n : m # n => rs[m] = b[m]
        /\ Len(rs[n]) = e
        /\ \A j \in 1 .. e : j # e => rs[n][j] = b[n][j]
        /\ \A m \in 1 .. Len(rs) : m > n => Len(rs[m]) = 1
        /\ \A m \in 1 .. Len(rs) : m >= n =>
              /\ rs[m][Len(rs[m])].sample = s
              /\ rs[m][Len(rs[m])].end_of_sequence => m = Len(rs) /\ done

LEMMA PackedBumped ==
    ASSUME NEW b \in Seq(Response), HasEntry(b), NEW s, NEW rs,
           PackedFrom(b, rs, s, FALSE), NEW end \in BOOLEAN
    PROVE  PackedFrom(b, Bumped(rs, end), s, end)
  <1> DEFINE n == Len(b)
             e == Len(b[n])
             l == Len(rs)
             k == Len(rs[l])
             c == Bumped(rs, end)
  <1>1. n \in Nat \ {0} /\ e \in Nat \ {0}
    BY LastFacts
  <1>2. /\ rs \in Seq(Response) /\ HasEntry(rs) /\ l >= n
        /\ \A m \in 1 .. n : m # n => rs[m] = b[m]
        /\ Len(rs[n]) = e
        /\ \A j \in 1 .. e : j # e => rs[n][j] = b[n][j]
        /\ \A m \in 1 .. l : m > n => Len(rs[m]) = 1
        /\ \A m \in 1 .. l : m >= n =>
              /\ rs[m][Len(rs[m])].sample = s
              /\ ~rs[m][Len(rs[m])].end_of_sequence
    BY DEF PackedFrom
  <1>3. /\ l \in Nat \ {0} /\ k \in Nat \ {0}
        /\ c \in Seq(Response) /\ Len(c) = l
        /\ \A m \in 1 .. l : m # l => c[m] = rs[m]
        /\ Len(c[l]) = k /\ c[l] \in Response
        /\ \A j \in 1 .. k : j # k => c[l][j] = rs[l][j]
        /\ c[l][k].sample = rs[l][k].sample
        /\ c[l][k].end_of_sequence = end
    BY <1>2, BumpedFacts
  <1> HIDE DEF c
  <1>4. HasEntry(c)
    BY <1>3 DEF HasEntry, Response
  <1>5. \A m \in 1 .. l : Len(c[m]) = Len(rs[m])
    BY <1>3
  <1>6. \A m \in 1 .. n : m # n => c[m] = b[m]
    BY <1>1, <1>2, <1>3
  <1>7. Len(c[n]) = e
    BY <1>1, <1>2, <1>3, <1>5
  <1>8. \A j \in 1 .. e : j # e => c[n][j] = b[n][j]
    <2>1. CASE n = l
      BY <1>1, <1>2, <1>3, <2>1
    <2>2. CASE n # l
      BY <1>1, <1>2, <1>3, <2>2
    <2> QED
      BY <2>1, <2>2
  <1>9. \A m \in 1 .. l : m > n => Len(c[m]) = 1
    BY <1>2, <1>5
  <1>10. ASSUME NEW m \in 1 .. l, m >= n
         PROVE  /\ c[m][Len(c[m])].sample = s
                /\ c[m][Len(c[m])].end_of_sequence => m = l /\ end
    <2>1. CASE m = l
      BY <1>2, <1>3, <1>10, <2>1
    <2>2. CASE m # l
      BY <1>2, <1>3, <1>10, <2>2
    <2> QED
      BY <2>1, <2>2
  <1> QED
    BY <1>1, <1>2, <1>3, <1>4, <1>6, <1>7, <1>8, <1>9, <1>10 DEF PackedFrom, c

LEMMA PackedAppend ==
    ASSUME NEW b \in Seq(Response), HasEntry(b), NEW s \in Nat, NEW rs,
           PackedFrom(b, rs, s, FALSE)
    PROVE  PackedFrom(b, Append(rs, <<FirstEntry(s)>>), s, FALSE)
  <1> DEFINE n == Len(b)
             e == Len(b[n])
             l == Len(rs)
             c == Append(rs, <<FirstEntry(s)>>)
  <1>1. n \in Nat \ {0} /\ e \in Nat \ {0}
    BY LastFacts
  <1>2. /\ rs \in Seq(Response) /\ HasEntry(rs) /\ l >= n
        /\ \A m \in 1 .. n : m # n => rs[m] = b[m]
        /\ Len(rs[n]) = e
        /\ \A j \in 1 .. e : j # e => rs[n][j] = b[n][j]
        /\ \A m \in 1 .. l : m > n => Len(rs[m]) = 1
        /\ \A m \in 1 .. l : m >= n =>
              /\ rs[m][Len(rs[m])].sample = s
              /\ ~rs[m][Len(rs[m])].end_of_sequence
    BY DEF PackedFrom
  <1>3. /\ <<FirstEntry(s)>> \in Response /\ Len(<<FirstEntry(s)>>) = 1
        /\ <<FirstEntry(s)>>[1].sample = s
        /\ ~<<FirstEntry(s)>>[1].end_of_sequence
    BY NewEntry
  <1>4. /\ c \in Seq(Response) /\ Len(c) = l + 1 /\ l \in Nat
        /\ \A i \in 1 .. l : c[i] = rs[i]
        /\ c[l + 1] = <<FirstEntry(s)>>
    BY <1>2, <1>3, AppendFacts
  <1> HIDE DEF c
  <1>5. HasEntry(c)
    BY <1>3, <1>4 DEF HasEntry
  <1>6. \A m \in 1 .. n : m # n => c[m] = b[m]
    BY <1>1, <1>2, <1>4
  <1>7. c[n] = rs[n]
    BY <1>1, <1>2, <1>4
  <1>8. ASSUME NEW m \in 1 .. l + 1, m > n
        PROVE  Len(c[m]) = 1
    <2>1. m = l + 1 \/ m \in 1 .. l
      BY <1>4
    <2> QED
      BY <1>2, <1>3, <1>4, <1>8, <2>1
  <1>9. ASSUME NEW m \in 1 .. l + 1, m >= n
        PROVE  c[m][Len(c[m])].sample = s /\ ~c[m][Len(c[m])].end_of_sequence
    <2>1. CASE m = l + 1
      BY <1>3, <1>4, <2>1
    <2>2. CASE m # l + 1
      <3>1. m \in 1 .. l
        BY <1>4, <2>2
      <3> QED
        BY <1>2, <1>4, <1>9, <3>1
    <2> QED
      BY <2>1, <2>2
  <1>10. Len(c) >= n
    BY <1>1, <1>2, <1>4
  <1>11. /\ Len(c[n]) = e
         /\ \A j \in 1 .. e : j # e => c[n][j] = b[n][j]
    BY <1>2, <1>7
  <1>12. PackedFrom(b, c, s, FALSE)
    BY <1>4, <1>5, <1>6, <1>8, <1>9, <1>10, <1>11 DEF PackedFrom
  <1> QED
    BY <1>12 DEF c

ChunkTurn(s, q, i) == AddChunk(q, s, i)
ChunkLoop == INSTANCE FoldFacts WITH Op <- ChunkTurn

\* What the loop makes of a reactor t whose last entry is a new one of s.
LEMMA ChunkLoopFacts ==
    ASSUME NEW t \in ReactorRecord, NEW s \in Samples, HasEntry(t.responses),
           PackedFrom(t.responses, t.responses, s, FALSE)
    PROVE  LET q == FoldLeft(LAMBDA r, i : AddChunk(r, s, i), t,
                             [i \in 1 .. Len(LargeChunks[s]) |-> i])
           IN  /\ q \in ReactorRecord /\ SameButResponses(t, q)
               /\ PackedFrom(t.responses, q.responses, s, TRUE)
  <1> DEFINE n == Len(LargeChunks[s])
             b == t.responses
             seq == [i \in 1 .. n |-> i]
             I == [i \in 0 .. n |->
                    {q \in ReactorRecord : /\ SameButResponses(t, q)
                                           /\ PackedFrom(b, q.responses, s, i = n)}]
             q == ChunkLoop!Fold(s, t, seq)
  <1>1. n \in Nat \ {0} /\ s \in Nat /\ b \in Seq(Response)
    BY SamplerAssumption, EmptySeq DEF ReactorRecord
  <1>2. FoldLeft(LAMBDA r, i : AddChunk(r, s, i), t, seq) = q
    BY DEF ChunkLoop!Fold, ChunkTurn, FoldLeft, MapThenFoldSet,
           ChunkLoop!FoldLeft, ChunkLoop!MapThenFoldSet, Max, ChunkLoop!Max
  <1> HIDE DEF n, q
  <1>3. t \in I[0]
    <2>1. SameButResponses(t, t)
      BY DEF SameButResponses, ReactorRecord
    <2>2. (0 = n) = FALSE /\ 0 \in 0 .. n
      BY <1>1
    <2>3. PackedFrom(b, t.responses, s, 0 = n)
      BY <2>2
    <2> QED
      BY <2>1, <2>2, <2>3
  <1>4. ASSUME NEW i \in 1 .. n, NEW a \in I[i - 1]
        PROVE  ChunkTurn(s, a, seq[i]) \in I[i]
    <2>1. i - 1 \in 0 .. n /\ (i - 1 = n) = FALSE /\ i \in 0 .. n /\ seq[i] = i
      BY <1>1
    <2>2. /\ a \in ReactorRecord /\ SameButResponses(t, a)
          /\ PackedFrom(b, a.responses, s, FALSE)
      BY <2>1
    <2>3. HasEntry(a.responses) /\ a.responses \in Seq(Response)
      BY <2>2 DEF PackedFrom
    <2> DEFINE c == AddChunk(a, s, i)
    <2>4. /\ c \in ReactorRecord /\ SameButResponses(a, c)
          /\ \/ c.responses = Bumped(a.responses, i = n)
             \/ /\ ~(i = n)
                /\ c.responses = Append(Bumped(a.responses, FALSE),
                                        <<FirstEntry(s)>>)
      BY <2>2, <2>3, AddChunkFacts DEF n
    <2> HIDE DEF c
    <2>5. SameButResponses(t, c)
      BY <2>2, <2>4, SameChain
    <2>6. PackedFrom(b, c.responses, s, i = n)
      <3>1. (i = n) \in BOOLEAN
        OBVIOUS
      <3>2. /\ PackedFrom(b, Bumped(a.responses, i = n), s, i = n)
            /\ PackedFrom(b, Bumped(a.responses, FALSE), s, FALSE)
        BY <1>1, <2>2, <3>1, PackedBumped
      <3>3. PackedFrom(b, Append(Bumped(a.responses, FALSE), <<FirstEntry(s)>>),
                       s, FALSE)
        BY <1>1, <3>2, PackedAppend
      <3>4. CASE c.responses = Bumped(a.responses, i = n)
        BY <3>2, <3>4
      <3>5. CASE /\ ~(i = n)
                 /\ c.responses = Append(Bumped(a.responses, FALSE),
                                         <<FirstEntry(s)>>)
        <4>1. (i = n) = FALSE
          BY <3>5
        <4> QED
          BY <3>3, <3>5, <4>1
      <3> QED
        BY <2>4, <3>4, <3>5
    <2>7. ChunkTurn(s, a, seq[i]) = c
      BY <2>1 DEF ChunkTurn, c
    <2> QED
      BY <2>1, <2>4, <2>5, <2>6, <2>7
  <1>5. DOMAIN seq = 1 .. n /\ n \in Nat
    BY <1>1
  <1> HIDE DEF I, seq
  <1>6. q \in I[n]
    BY <1>3, <1>4, <1>5, ChunkLoop!FoldInvariant DEF q
  <1>7. n \in 0 .. n /\ (n = n) = TRUE
    BY <1>1
  <1>8. /\ q \in ReactorRecord /\ SameButResponses(t, q)
        /\ PackedFrom(b, q.responses, s, TRUE)
    BY <1>6, <1>7 DEF I
  <1> QED
    BY <1>2, <1>8 DEF seq, n

-----------------------------------------------------------------------------
(* The order of entries, and the loop over samples. *)

\* Entry e may be read before entry f.
Before(e, f) == e.sample <= f.sample /\ (e.end_of_sequence => e.sample < f.sample)

Sorted(rs) ==
    \A m, k \in 1 .. Len(rs) : \A i \in 1 .. Len(rs[m]), j \in 1 .. Len(rs[k]) :
        m < k \/ (m = k /\ i < j) => Before(rs[m][i], rs[k][j])

\* No entry is of a sample beyond b.
Below(rs, b) ==
    \A m \in 1 .. Len(rs) : \A i \in 1 .. Len(rs[m]) : rs[m][i].sample <= b

\* qs is rs with entries of samples beyond lo and up to hi; the first response
\* is left alone when it is being written.
Grown(rs, qs, lo, hi, writing) ==
    /\ qs \in Seq(Response) /\ Len(qs) >= Len(rs)
    /\ \A m \in 1 .. Len(qs) : \A j \in 1 .. Len(qs[m]) :
          \/ lo < qs[m][j].sample /\ qs[m][j].sample <= hi
          \/ /\ m \in 1 .. Len(rs) /\ j \in 1 .. Len(rs[m])
             /\ qs[m][j] = rs[m][j]
    /\ writing /\ rs # << >> => qs[1] = rs[1]
    /\ Sorted(rs) /\ Below(rs, lo) => Sorted(qs)

\* The entries of what PackedFrom describes.
LEMMA GrownFromPacked ==
    ASSUME NEW rs \in Seq(Response), NEW b \in Seq(Response), HasEntry(b),
           NEW s \in Nat, NEW w \in BOOLEAN, NEW qs,
           PackedFrom(b, qs, s, TRUE),
           Len(rs) <= Len(b),
           \A m \in 1 .. Len(b) : m < Len(b) => m <= Len(rs) /\ b[m] = rs[m],
           \A j \in 1 .. Len(b[Len(b)]) : j < Len(b[Len(b)]) =>
              /\ Len(rs) = Len(b) /\ j \in 1 .. Len(rs[Len(b)])
              /\ b[Len(b)][j] = rs[Len(b)][j],
           w /\ rs # << >> => Len(b) > 1
    PROVE  Grown(rs, qs, s - 1, s, w)
  <1> DEFINE n == Len(b)
             e == Len(b[n])
             Old(m, i) == m < n \/ (m = n /\ i < e)
  <1>1. n \in Nat \ {0} /\ e \in Nat \ {0}
    BY LastFacts
  <1>2. /\ qs \in Seq(Response) /\ Len(qs) >= n /\ Len(qs) \in Nat
        /\ \A m \in 1 .. n : m # n => qs[m] = b[m]
        /\ Len(qs[n]) = e
        /\ \A j \in 1 .. e : j # e => qs[n][j] = b[n][j]
        /\ \A m \in 1 .. Len(qs) : m > n => Len(qs[m]) = 1
        /\ \A m \in 1 .. Len(qs) : m >= n =>
              /\ qs[m][Len(qs[m])].sample = s
              /\ qs[m][Len(qs[m])].end_of_sequence => m = Len(qs)
    BY SMTT(30) DEF PackedFrom
  <1>3. ASSUME NEW m \in 1 .. Len(qs), NEW i \in 1 .. Len(qs[m]), Old(m, i)
        PROVE  /\ m \in 1 .. Len(rs) /\ i \in 1 .. Len(rs[m])
               /\ qs[m][i] = rs[m][i]
    <2>1. CASE m < n
      BY <1>1, <1>2, <2>1
    <2>2. CASE m = n /\ i < e
      BY <1>1, <1>2, <2>2
    <2> QED
      BY <1>3, <2>1, <2>2
  <1>4. ASSUME NEW m \in 1 .. Len(qs), NEW i \in 1 .. Len(qs[m]), ~Old(m, i)
        PROVE  /\ m >= n /\ i = Len(qs[m]) /\ qs[m][i].sample = s
               /\ qs[m][i].end_of_sequence => m = Len(qs)
    <2>1. m >= n
      BY <1>1, <1>4
    <2>2. i = Len(qs[m])
      <3>1. CASE m = n
        BY <1>1, <1>2, <1>4, <3>1
      <3>2. CASE m > n
        BY <1>2, <3>2, SMTT(30)
      <3> QED
        BY <1>1, <2>1, <3>1, <3>2
    <2> QED
      BY <1>2, <2>1, <2>2
  <1> HIDE DEF Old
  <1>5. \A m \in 1 .. Len(qs) : \A j \in 1 .. Len(qs[m]) :
          \/ s - 1 < qs[m][j].sample /\ qs[m][j].sample <= s
          \/ /\ m \in 1 .. Len(rs) /\ j \in 1 .. Len(rs[m])
             /\ qs[m][j] = rs[m][j]
    BY <1>3, <1>4
  <1>6. ASSUME w, rs # << >>
        PROVE  qs[1] = rs[1]
    BY <1>1, <1>2, <1>6
  <1>7. ASSUME Sorted(rs), Below(rs, s - 1),
               NEW m \in 1 .. Len(qs), NEW k \in 1 .. Len(qs),
               NEW i \in 1 .. Len(qs[m]), NEW j \in 1 .. Len(qs[k]),
               m < k \/ (m = k /\ i < j)
        PROVE  Before(qs[m][i], qs[k][j])
    <2>1. CASE Old(m, i) /\ Old(k, j)
      <3>1. /\ m \in 1 .. Len(rs) /\ i \in 1 .. Len(rs[m])
            /\ qs[m][i] = rs[m][i]
        BY <1>3, <2>1
      <3>2. /\ k \in 1 .. Len(rs) /\ j \in 1 .. Len(rs[k])
            /\ qs[k][j] = rs[k][j]
        BY <1>3, <2>1
      <3> QED
        BY <1>7, <3>1, <3>2 DEF Sorted
    <2>2. CASE Old(m, i) /\ ~Old(k, j)
      <3>1. /\ m \in 1 .. Len(rs) /\ i \in 1 .. Len(rs[m])
            /\ qs[m][i] = rs[m][i]
        BY <1>3, <2>2
      <3>2. rs[m][i].sample <= s - 1 /\ rs[m][i].sample \in Nat
        <4>1. rs[m] \in Response
          BY <3>1
        <4>2. rs[m][i] \in Entry
          BY <3>1, <4>1 DEF Response
        <4> QED
          BY <1>7, <3>1, <4>2 DEF Below, Entry
      <3>3. qs[k][j].sample = s
        BY <1>4, <2>2
      <3> QED
        BY <3>1, <3>2, <3>3, SMTT(30) DEF Before
    <2>3. CASE ~Old(m, i) /\ Old(k, j)
      <3>1. m >= n /\ i = Len(qs[m])
        BY <1>4, <2>3
      <3>2. k < n \/ (k = n /\ j < e)
        BY <2>3 DEF Old
      <3> QED
        BY <1>1, <1>2, <1>7, <3>1, <3>2
    <2>4. CASE ~Old(m, i) /\ ~Old(k, j)
      <3>1. /\ i = Len(qs[m]) /\ qs[m][i].sample = s
            /\ qs[m][i].end_of_sequence => m = Len(qs)
        BY <1>4, <2>4
      <3>2. j = Len(qs[k]) /\ qs[k][j].sample = s
        BY <1>4, <2>4
      <3>3. m < k
        BY <1>7, <3>1, <3>2
      <3>4. ~qs[m][i].end_of_sequence
        BY <1>2, <3>1, <3>3
      <3> QED
        BY <3>1, <3>2, <3>4 DEF Before
    <2> QED
      BY <2>1, <2>2, <2>3, <2>4
  <1>8. Sorted(rs) /\ Below(rs, s - 1) => Sorted(qs)
    BY <1>7 DEF Sorted
  <1>9. Len(qs) >= Len(rs)
    BY <1>1, <1>2
  <1> QED
    BY <1>2, <1>5, <1>6, <1>8, <1>9 DEF Grown

\* The responses b are rs with a first entry of sample s behind them, in the last
\* response or in a new one.
Started(rs, b, s, w) ==
    LET n == Len(b)
    IN  /\ b \in Seq(Response) /\ n \in Nat \ {0} /\ Len(rs) <= n /\ n <= Len(rs) + 1
        /\ \A m \in 1 .. n : m < n => m <= Len(rs) /\ b[m] = rs[m]
        /\ b[n] \in Response /\ Len(b[n]) \in Nat \ {0}
        /\ n = Len(rs) => /\ Len(rs[n]) \in Nat /\ Len(b[n]) = Len(rs[n]) + 1
                          /\ \A j \in 1 .. Len(rs[n]) : b[n][j] = rs[n][j]
        /\ n # Len(rs) => Len(b[n]) = 1
        /\ b[n][Len(b[n])] = FirstEntry(s)
        /\ w /\ rs # << >> => n > 1

\* How ProcessSample begins.
LEMMA StartedFacts ==
    ASSUME NEW r \in ReactorRecord, NEW s \in Samples, NEW w \in BOOLEAN
    PROVE  LET t == AddEntry(IF NeedsResponse(r, w) THEN NewResponse(r) ELSE r, s)
           IN  /\ t \in ReactorRecord /\ SameButResponses(r, t)
               /\ Started(r.responses, t.responses, s, w)
  <1> DEFINE rs == r.responses
             t == AddEntry(IF NeedsResponse(r, w) THEN NewResponse(r) ELSE r, s)
             b == t.responses
             n == Len(b)
  <1>1. s \in Nat /\ rs \in Seq(Response) /\ Len(rs) \in Nat
    BY SamplerAssumption DEF ReactorRecord
  <1>2. /\ FirstEntry(s) \in Entry
        /\ <<FirstEntry(s)>> \in Response /\ Len(<<FirstEntry(s)>>) = 1
        /\ <<FirstEntry(s)>>[1] = FirstEntry(s)
    BY <1>1, NewEntry
  <1>3. CASE NeedsResponse(r, w)
    <2>1. t = AddEntry(NewResponse(r), s)
      BY <1>3
    <2>2. /\ t \in ReactorRecord /\ SameButResponses(r, t)
          /\ b = Append(rs, <<FirstEntry(s)>>)
      BY <1>1, <2>1, NewResponseAddEntry
    <2> HIDE DEF t
    <2>3. /\ b \in Seq(Response) /\ n = Len(rs) + 1
          /\ \A m \in 1 .. Len(rs) : b[m] = rs[m]
          /\ b[n] = <<FirstEntry(s)>>
      BY <1>1, <1>2, <2>2, AppendFacts
    <2>4. rs # << >> => Len(rs) \in Nat \ {0}
      BY <1>1, EmptySeq
    <2> HIDE DEF b
    <2>5. Started(rs, b, s, w)
      BY <1>1, <1>2, <2>3, <2>4 DEF Started
    <2> QED
      BY <2>2, <2>5 DEF b, t
  <1>4. CASE ~NeedsResponse(r, w)
    <2>1. t = AddEntry(r, s)
      BY <1>4
    <2>2. rs # << >> /\ ~(Len(rs) = 1 /\ w)
      BY <1>4 DEF NeedsResponse
    <2> HIDE DEF t
    <2>3. /\ t \in ReactorRecord /\ SameButResponses(r, t)
          /\ Len(rs) \in Nat \ {0} /\ n = Len(rs)
          /\ rs[n] \in Response
          /\ \A m \in 1 .. n : m # n => b[m] = rs[m]
          /\ b[n] = Append(rs[n], FirstEntry(s))
          /\ b \in Seq(Response)
      <3>1. s \in Nat /\ r.responses # << >>
        BY <1>1, <2>2
      <3>2. /\ t \in ReactorRecord /\ SameButResponses(r, t)
            /\ Len(rs) \in Nat \ {0} /\ n = Len(rs)
            /\ rs[Len(rs)] \in Response
            /\ \A m \in 1 .. Len(rs) : m # Len(rs) => b[m] = rs[m]
            /\ b[Len(rs)] = Append(rs[Len(rs)], FirstEntry(s))
            /\ b \in Seq(Response)
        BY <2>1, <3>1, AddEntryFacts, Zenon
      <3> HIDE DEF n
      <3> QED
        BY <3>2, Zenon
    <2>4. /\ b[n] \in Response /\ Len(b[n]) = Len(rs[n]) + 1 /\ Len(rs[n]) \in Nat
          /\ \A j \in 1 .. Len(rs[n]) : b[n][j] = rs[n][j]
          /\ b[n][Len(rs[n]) + 1] = FirstEntry(s)
      BY <1>2, <2>3, AppendFacts DEF Response
    <2>5. w => n > 1
      <3>1. n \in Nat \ {0} /\ ~(n = 1 /\ w)
        BY <2>2, <2>3
      <3> HIDE DEF n
      <3> QED
        BY <3>1
    <2>6. Len(b[n]) \in Nat \ {0} /\ b[n][Len(b[n])] = FirstEntry(s)
      <3> HIDE DEF n, b
      <3> QED
        BY <2>4
    <2>7. \A m \in 1 .. n : m < n => m <= Len(rs) /\ b[m] = rs[m]
      BY <2>3
    <2> HIDE DEF b
    <2>8. Started(rs, b, s, w)
      BY <1>1, <2>3, <2>4, <2>5, <2>6, <2>7 DEF Started
    <2> QED
      BY <2>3, <2>8 DEF b, t
  <1> QED
    BY <1>3, <1>4

\* ProcessSample packs sample s behind what waits to be sent.
LEMMA ProcessSampleFacts ==
    ASSUME NEW r \in ReactorRecord, NEW s \in Samples, NEW w \in BOOLEAN
    PROVE  LET q == ProcessSample(r, s, w)
           IN  /\ q \in ReactorRecord /\ SameButResponses(r, q)
               /\ Grown(r.responses, q.responses, s - 1, s, w)
  <1> DEFINE rs == r.responses
             t == AddEntry(IF NeedsResponse(r, w) THEN NewResponse(r) ELSE r, s)
             b == t.responses
             q == ProcessSample(r, s, w)
             n == Len(b)
  <1>1. s \in Nat /\ rs \in Seq(Response) /\ Len(rs) \in Nat
    BY SamplerAssumption DEF ReactorRecord
  <1>2. q = FoldLeft(LAMBDA a, i : AddChunk(a, s, i), t,
                     [i \in 1 .. Len(LargeChunks[s]) |-> i])
    BY DEF ProcessSample
  <1>3. FirstEntry(s).sample = s /\ ~FirstEntry(s).end_of_sequence
    BY <1>1, NewEntry
  <1>4. t \in ReactorRecord /\ SameButResponses(r, t) /\ Started(rs, b, s, w)
    BY StartedFacts
  <1> HIDE DEF t, q
  <1>5. /\ b \in Seq(Response) /\ n \in Nat \ {0} /\ Len(rs) <= n
        /\ \A m \in 1 .. n : m < n => m <= Len(rs) /\ b[m] = rs[m]
        /\ b[n] \in Response /\ Len(b[n]) \in Nat \ {0}
        /\ b[n][Len(b[n])] = FirstEntry(s)
        /\ w /\ rs # << >> => n > 1
    BY <1>4 DEF Started
  <1>6. \A j \in 1 .. Len(b[n]) : j < Len(b[n]) =>
              /\ Len(rs) = n /\ j \in 1 .. Len(rs[n]) /\ b[n][j] = rs[n][j]
    BY <1>4 DEF Started
  <1>7. HasEntry(b)
    BY <1>5, EmptySeq DEF HasEntry, Response
  <1>8. PackedFrom(b, b, s, FALSE)
    BY <1>3, <1>5, <1>7 DEF PackedFrom
  <1>9. /\ q \in ReactorRecord /\ SameButResponses(t, q)
        /\ PackedFrom(b, q.responses, s, TRUE)
    <2>1. t \in ReactorRecord /\ HasEntry(t.responses)
          /\ PackedFrom(t.responses, t.responses, s, FALSE)
      BY <1>4, <1>7, <1>8
    <2>2. LET u == FoldLeft(LAMBDA a, i : AddChunk(a, s, i), t,
                            [i \in 1 .. Len(LargeChunks[s]) |-> i])
          IN  /\ u \in ReactorRecord /\ SameButResponses(t, u)
              /\ PackedFrom(t.responses, u.responses, s, TRUE)
      BY <2>1, ChunkLoopFacts
    <2> QED
      BY <1>2, <2>2
  <1>10. SameButResponses(r, q)
    BY <1>4, <1>9, SameChain
  <1>11. Grown(rs, q.responses, s - 1, s, w)
    BY <1>1, <1>5, <1>6, <1>7, <1>9, GrownFromPacked
  <1> QED
    BY <1>9, <1>10, <1>11 DEF q

LEMMA GrownSame ==
    ASSUME NEW rs \in Seq(Response), NEW d, NEW w
    PROVE  Grown(rs, rs, d, d, w)
  BY DEF Grown

LEMMA GrownChain ==
    ASSUME NEW rs \in Seq(Response), NEW qs, NEW us, NEW w \in BOOLEAN,
           NEW a \in Int, NEW b \in Int, NEW c \in Int, a <= b, b <= c,
           Grown(rs, qs, a, b, w), Grown(qs, us, b, c, w)
    PROVE  Grown(rs, us, a, c, w)
  <1>1. /\ qs \in Seq(Response) /\ Len(qs) >= Len(rs)
        /\ us \in Seq(Response) /\ Len(us) >= Len(qs)
        /\ Len(rs) \in Nat /\ Len(qs) \in Nat /\ Len(us) \in Nat
    BY DEF Grown
  <1>2. ASSUME NEW q \in Seq(Response), NEW m \in 1 .. Len(q), NEW j \in 1 .. Len(q[m])
        PROVE  q[m][j].sample \in Nat
    <2>1. q[m] \in Response
      OBVIOUS
    <2>2. q[m][j] \in Entry
      BY <2>1 DEF Response
    <2> QED
      BY <2>2 DEF Entry
  <1>3. ASSUME NEW m \in 1 .. Len(qs), NEW j \in 1 .. Len(qs[m])
        PROVE  \/ a < qs[m][j].sample /\ qs[m][j].sample <= b
               \/ /\ m \in 1 .. Len(rs) /\ j \in 1 .. Len(rs[m])
                  /\ qs[m][j] = rs[m][j]
    BY DEF Grown
  <1>4. ASSUME NEW m \in 1 .. Len(us), NEW j \in 1 .. Len(us[m])
        PROVE  \/ a < us[m][j].sample /\ us[m][j].sample <= c
               \/ /\ m \in 1 .. Len(rs) /\ j \in 1 .. Len(rs[m])
                  /\ us[m][j] = rs[m][j]
    <2>1. CASE b < us[m][j].sample /\ us[m][j].sample <= c
      <3> DEFINE x == us[m][j].sample
      <3>1. x \in Nat
        BY <1>1, <1>2
      <3> HIDE DEF x
      <3>2. a < x /\ x <= c
        BY <2>1, <3>1 DEF x
      <3> QED
        BY <3>2 DEF x
    <2>2. CASE /\ m \in 1 .. Len(qs) /\ j \in 1 .. Len(qs[m])
               /\ us[m][j] = qs[m][j]
      <3>1. \/ a < qs[m][j].sample /\ qs[m][j].sample <= b
            \/ /\ m \in 1 .. Len(rs) /\ j \in 1 .. Len(rs[m])
               /\ qs[m][j] = rs[m][j]
        BY <1>3, <2>2
      <3>2. us[m][j].sample \in Nat
        BY <1>1, <1>2
      <3> QED
        BY <2>2, <3>1, <3>2
    <2> QED
      BY <2>1, <2>2 DEF Grown
  <1>5. ASSUME w, rs # << >> PROVE us[1] = rs[1]
    <2>1. Len(rs) \in Nat \ {0}
      BY <1>5, EmptySeq
    <2>2. Len(qs) # 0
      BY <1>1, <2>1
    <2>3. qs # << >>
      BY <2>2, EmptySeq
    <2> QED
      BY <1>5, <2>3 DEF Grown
  <1>6. ASSUME Sorted(rs), Below(rs, a) PROVE Sorted(us)
    <2>1. Sorted(qs)
      BY <1>6 DEF Grown
    <2>2. ASSUME NEW m \in 1 .. Len(qs), NEW j \in 1 .. Len(qs[m])
          PROVE  qs[m][j].sample <= b
      <3>1. qs[m][j].sample \in Nat
        BY <1>1, <1>2
      <3>2. CASE /\ m \in 1 .. Len(rs) /\ j \in 1 .. Len(rs[m])
                 /\ qs[m][j] = rs[m][j]
        <4>1. rs[m][j].sample <= a
          BY <1>6, <3>2 DEF Below
        <4> QED
          BY <3>1, <3>2, <4>1
      <3> QED
        BY <1>3, <3>2
    <2>3. Below(qs, b)
      BY <2>2 DEF Below
    <2> QED
      BY <2>1, <2>3 DEF Grown
  <1>7. Len(us) >= Len(rs)
    BY <1>1
  <1> QED
    BY <1>1, <1>4, <1>5, <1>6, <1>7 DEF Grown

SampleTurn(w, q, x) == ProcessSample(q, x, w)
SampleLoop == INSTANCE FoldFacts WITH Op <- SampleTurn

\* The samples d + 1, ..., d + n are packed.
LEMMA SampleLoopFacts ==
    ASSUME NEW r \in ReactorRecord, NEW w \in BOOLEAN, NEW d \in Nat, NEW n \in Nat,
           \A i \in 1 .. n : d + i \in Samples
    PROVE  LET q == FoldLeft(LAMBDA a, x : ProcessSample(a, x, w), r,
                             [i \in 1 .. n |-> d + i])
           IN  /\ q \in ReactorRecord /\ SameButResponses(r, q)
               /\ Grown(r.responses, q.responses, d, d + n, w)
  <1> DEFINE rs == r.responses
             seq == [i \in 1 .. n |-> d + i]
             I == [i \in 0 .. n |->
                    {q \in ReactorRecord : /\ SameButResponses(r, q)
                                           /\ Grown(rs, q.responses, d, d + i, w)}]
             q == SampleLoop!Fold(w, r, seq)
  <1>1. rs \in Seq(Response)
    BY DEF ReactorRecord
  <1>2. FoldLeft(LAMBDA a, x : ProcessSample(a, x, w), r, seq) = q
    BY DEF SampleLoop!Fold, SampleTurn, FoldLeft, MapThenFoldSet,
           SampleLoop!FoldLeft, SampleLoop!MapThenFoldSet, Max, SampleLoop!Max
  <1> HIDE DEF q
  <1>3. r \in I[0]
    <2>1. SameButResponses(r, r)
      BY DEF SameButResponses, ReactorRecord
    <2>2. d + 0 = d /\ 0 \in 0 .. n
      OBVIOUS
    <2>3. Grown(rs, r.responses, d, d + 0, w)
      BY <1>1, <2>2, GrownSame
    <2> QED
      BY <2>1, <2>2, <2>3
  <1>4. ASSUME NEW i \in 1 .. n, NEW a \in I[i - 1]
        PROVE  SampleTurn(w, a, seq[i]) \in I[i]
    <2> DEFINE c == ProcessSample(a, d + i, w)
    <2>1. i - 1 \in 0 .. n /\ i \in 0 .. n /\ seq[i] = d + i /\ d + i \in Samples
      OBVIOUS
    <2>2. /\ a \in ReactorRecord /\ SameButResponses(r, a)
          /\ Grown(rs, a.responses, d, d + (i - 1), w)
      BY <2>1
    <2>3. d + (i - 1) = d + i - 1 /\ d <= d + i - 1 /\ d + i - 1 <= d + i
          /\ d + i - 1 \in Int /\ d + i \in Int /\ d \in Int
      OBVIOUS
    <2>4. /\ c \in ReactorRecord /\ SameButResponses(a, c)
          /\ Grown(a.responses, c.responses, d + i - 1, d + i, w)
      BY <2>1, <2>2, ProcessSampleFacts
    <2> HIDE DEF c
    <2>5. SameButResponses(r, c)
      BY <2>2, <2>4, SameChain
    <2>6. Grown(rs, a.responses, d, d + i - 1, w)
      BY <2>2, <2>3
    <2>7. Grown(rs, c.responses, d, d + i, w)
      BY <1>1, <2>3, <2>4, <2>6, GrownChain
    <2>8. SampleTurn(w, a, seq[i]) = c
      BY <2>1 DEF SampleTurn, c
    <2> QED
      BY <2>1, <2>4, <2>5, <2>7, <2>8
  <1>5. DOMAIN seq = 1 .. n
    OBVIOUS
  <1> HIDE DEF I, seq
  <1>6. q \in I[n]
    BY <1>3, <1>4, <1>5, SampleLoop!FoldInvariant DEF q
  <1>7. n \in 0 .. n
    OBVIOUS
  <1>8. /\ q \in ReactorRecord /\ SameButResponses(r, q)
        /\ Grown(rs, q.responses, d, d + n, w)
    BY <1>6, <1>7 DEF I
  <1> QED
    BY <1>2, <1>8 DEF seq

-----------------------------------------------------------------------------
(* One write at a time. *)

\* What WritesAreExclusive says of a reactor, and that as long as it is not
\* finished a write is in flight exactly when there is something to send: this
\* is how SamplingDone and MaybeSendNextResponse tell whether to start one.
Exclusive(r) ==
    /\ ~r.check_failed /\ r.writes \in {0, 1}
    /\ r.is_finished => r.status \in Statuses
    /\ ~r.is_finished => /\ r.responses # << >> => r.writes = 1
                         /\ r.responses = << >> => r.writes = 0
                         /\ r.responses # << >> => r.responses[1] = r.sending

ReactorInv(r) == r \in ReactorRecord /\ Exclusive(r)

LEMMA NewReactorInv == ReactorInv(NewSampleReactor)
  <1>1. << >> \in Seq(Response) /\ << >> \in Response
    BY EmptySeq DEF Response
  <1>2. InitialGrpcSampleBatchSize \in Int
    BY SampleReactorAssumption
  <1> DEFINE k == InitialGrpcSampleBatchSize
             e == << >>
             z == 0
             r == [read_in_flight |-> FALSE, still_reading |-> TRUE,
                   is_finished |-> FALSE, responses |-> e, writes |-> z,
                   sending |-> e, wire |-> e, status |-> None,
                   check_failed |-> FALSE, requested |-> z, fetched |-> z,
                   last_batch_size |-> k, waiting |-> FALSE,
                   enqueued |-> z, oversize |-> FALSE]
             q == [r EXCEPT !.read_in_flight = TRUE]
  <1>3. NewSampleReactor = [r EXCEPT !.read_in_flight =
                                @ \/ (r.still_reading /\ ~r.is_finished)]
    BY DEF NewSampleReactor, MaybeStartRead
  <1>4. NewSampleReactor = q
    BY <1>3
  <1>5. z \in Int /\ k \in Int /\ e \in Seq(Response) /\ e \in Response
    BY <1>1, <1>2
  <1> HIDE DEF k, e, z
  <1>6. r \in ReactorRecord
    BY <1>5 DEF ReactorRecord
  <1>7. q \in ReactorRecord
    BY <1>6 DEF ReactorRecord
  <1>8. /\ q.check_failed = FALSE /\ q.is_finished = FALSE /\ q.writes = z
        /\ q.responses = e
    OBVIOUS
  <1> HIDE DEF q
  <1>9. Exclusive(q)
    BY <1>8 DEF Exclusive, z, e
  <1> QED
    BY <1>4, <1>7, <1>9 DEF ReactorInv

\* SetReactorAsFinished of a reactor that is not finished.
LEMMA FinishInv ==
    ASSUME NEW r \in ReactorRecord, ~r.check_failed, r.writes \in {0, 1},
           ~r.is_finished, NEW status \in Statuses,
           r.responses # << >> => status # "ok"
    PROVE  ReactorInv(SetReactorAsFinished(r, status))
  <1>1. << >> \in Seq(Response)
    BY EmptySeq
  <1> QED
    BY <1>1 DEF SetReactorAsFinished, ReactorInv, Exclusive, ReactorRecord

\* Changes of fields that Exclusive does not read.
LEMMA ExclusiveSame ==
    ASSUME NEW r, NEW q, Exclusive(r), q.check_failed = r.check_failed,
           q.writes = r.writes, q.is_finished = r.is_finished, q.status = r.status,
           q.responses = r.responses, q.sending = r.sending
    PROVE  Exclusive(q)
  BY DEF Exclusive

LEMMA StartInv ==
    ASSUME NEW r, ReactorInv(r)
    PROVE  ReactorInv(MaybeStartRead(r)) /\ ReactorInv(MaybeStartSampling(r))
  <1> DEFINE a == MaybeStartRead(r)
             n == NextBatchSize(r)
             b == [r EXCEPT !.waiting = TRUE, !.enqueued = n]
  <1>1. r \in ReactorRecord
    BY DEF ReactorInv
  <1>2. n \in Int
    BY <1>1 DEF NextBatchSize, Lesser, ReactorRecord
  <1>3. /\ a \in ReactorRecord
        /\ a.check_failed = r.check_failed
        /\ a.writes = r.writes /\ a.is_finished = r.is_finished
        /\ a.status = r.status
        /\ a.responses = r.responses /\ a.sending = r.sending
    BY <1>1 DEF MaybeStartRead, ReactorRecord
  <1> HIDE DEF a, n
  <1>4. /\ b \in ReactorRecord
        /\ b.check_failed = r.check_failed
        /\ b.writes = r.writes /\ b.is_finished = r.is_finished
        /\ b.status = r.status
        /\ b.responses = r.responses /\ b.sending = r.sending
    BY <1>1, <1>2 DEF ReactorRecord
  <1>5. MaybeStartSampling(r) = r \/ MaybeStartSampling(r) = b
    BY DEF MaybeStartSampling, n
  <1> HIDE DEF b
  <1>6. ReactorInv(a) /\ ReactorInv(b)
    BY <1>3, <1>4, ExclusiveSame DEF ReactorInv
  <1> QED
    BY <1>5, <1>6 DEF a

LEMMA SendInv ==
    ASSUME NEW r \in ReactorRecord, ~r.check_failed, r.writes = 0,
           r.is_finished => r.status \in Statuses
    PROVE  ReactorInv(MaybeSendNextResponse(r))
  <1>1. CASE r.responses = << >> \/ r.is_finished
    BY <1>1 DEF MaybeSendNextResponse, ReactorInv, Exclusive
  <1>2. CASE ~(r.responses = << >> \/ r.is_finished)
    <2> DEFINE h == Head(r.responses)
               a == Append(r.wire, h)
               k == r.writes + 1
               q == [r EXCEPT !.writes = k, !.sending = h, !.wire = a]
    <2>1. h \in Response /\ h = r.responses[1]
      BY <1>2, TailFacts DEF ReactorRecord
    <2>2. a \in Seq(Response)
      BY <2>1, AppendFacts DEF ReactorRecord
    <2>3. MaybeSendNextResponse(r) = q
      BY <1>2 DEF MaybeSendNextResponse
    <2>k. k = 1 /\ k \in Int
      OBVIOUS
    <2> HIDE DEF h, a, k
    <2>4. /\ q \in ReactorRecord /\ q.writes = k /\ q.sending = h
          /\ q.check_failed = r.check_failed /\ q.responses = r.responses
          /\ q.is_finished = r.is_finished
      BY <2>1, <2>2, <2>k DEF ReactorRecord
    <2> HIDE DEF q
    <2>5. Exclusive(q)
      BY <1>2, <2>1, <2>4, <2>k DEF Exclusive
    <2> QED
      BY <2>3, <2>4, <2>5 DEF ReactorInv
  <1> QED
    BY <1>1, <1>2

LEMMA ReadEndInv ==
    ASSUME NEW r, ReactorInv(r)
    PROVE  ReactorInv(OnReadEnd(r))
  <1> DEFINE s == [r EXCEPT !.read_in_flight = FALSE, !.still_reading = FALSE]
  <1>1. /\ s \in ReactorRecord
        /\ s.check_failed = r.check_failed
        /\ s.writes = r.writes /\ s.is_finished = r.is_finished
        /\ s.status = r.status
        /\ s.responses = r.responses /\ s.sending = r.sending
    BY DEF ReactorInv, ReactorRecord
  <1>2. OnReadEnd(r) = IF ShouldFinish(s) THEN SetReactorAsFinished(s, "ok") ELSE s
    BY DEF OnReadEnd
  <1> HIDE DEF s
  <1>3. ReactorInv(s)
    BY <1>1, ExclusiveSame DEF ReactorInv
  <1>4. ASSUME ShouldFinish(s)
        PROVE  ReactorInv(SetReactorAsFinished(s, "ok"))
    <2>1. s.responses = << >> /\ ~s.is_finished
      BY <1>4 DEF ShouldFinish
    <2>2. ~s.check_failed /\ s.writes \in {0, 1} /\ "ok" \in Statuses
      BY <1>3 DEF ReactorInv, Exclusive, Statuses
    <2> QED
      BY <1>1, <2>1, <2>2, FinishInv
  <1> QED
    BY <1>2, <1>3, <1>4

LEMMA ReadDoneInv ==
    ASSUME NEW r, ReactorInv(r), NEW n \in Nat
    PROVE  ReactorInv(OnReadDone(r, ProcessSampleRequest(HasRead(r), n)))
  <1> DEFINE z == 0
             a == [r EXCEPT !.read_in_flight = FALSE]
             s == [a EXCEPT !.fetched = z, !.requested = n]
  <1>2. ProcessSampleRequest(HasRead(r), n) = MaybeStartSampling(s)
    BY DEF ProcessSampleRequest, HasRead
  <1>r. r \in ReactorRecord /\ z \in Int /\ n \in Int
    BY DEF ReactorInv
  <1>a. /\ a \in ReactorRecord
        /\ a.check_failed = r.check_failed
        /\ a.writes = r.writes /\ a.is_finished = r.is_finished
        /\ a.status = r.status
        /\ a.responses = r.responses /\ a.sending = r.sending
    BY <1>r DEF ReactorRecord
  <1> HIDE DEF a, z
  <1>s. /\ s \in ReactorRecord
        /\ s.check_failed = a.check_failed
        /\ s.writes = a.writes /\ s.is_finished = a.is_finished
        /\ s.status = a.status
        /\ s.responses = a.responses /\ s.sending = a.sending
    BY <1>r, <1>a DEF ReactorRecord
  <1>1. /\ s \in ReactorRecord
        /\ s.check_failed = r.check_failed
        /\ s.writes = r.writes /\ s.is_finished = r.is_finished
        /\ s.status = r.status
        /\ s.responses = r.responses /\ s.sending = r.sending
    BY <1>a, <1>s
  <1> HIDE DEF s
  <1>3. ReactorInv(s)
    BY <1>1, ExclusiveSame DEF ReactorInv
  <1> QED
    BY <1>2, <1>3, StartInv, ReadEndInv DEF OnReadDone

LEMMA WriteDoneInv ==
    ASSUME NEW r, ReactorInv(r), r.writes > 0, NEW ok \in BOOLEAN
    PROVE  ReactorInv(OnSampleWriteDone(r, ok))
  <1> DEFINE k == r.writes - 1
             e == << >>
             s == [r EXCEPT !.writes = k, !.sending = e]
             t == [s EXCEPT !.responses = Tail(@)]
  <1>1. r \in ReactorRecord /\ r.writes = 1 /\ ~r.check_failed
        /\ (r.is_finished => r.status \in Statuses)
    BY DEF ReactorInv, Exclusive
  <1>2. << >> \in Response
    BY EmptySeq DEF Response
  <1>4. OnWriteDone(r, ok) =
          IF s.is_finished THEN s
          ELSE IF ~ok THEN SetReactorAsFinished(s, "internal")
          ELSE IF ~t.still_reading /\ t.responses = << >>
          THEN SetReactorAsFinished(t, "ok")
          ELSE MaybeSendNextResponse(t)
    BY DEF OnWriteDone
  <1>k. k = 0 /\ k \in Int /\ e \in Response
    BY <1>1, <1>2
  <1> HIDE DEF k, e
  <1>3. /\ s \in ReactorRecord /\ s.writes = k /\ s.responses = r.responses
        /\ s.check_failed = r.check_failed /\ s.status = r.status
        /\ s.is_finished = r.is_finished
    BY <1>1, <1>k DEF ReactorRecord
  <1> USE <1>k
  <1> HIDE DEF s
  <1>5. CASE s.is_finished
    <2>1. ReactorInv(s)
      BY <1>1, <1>3, <1>5 DEF ReactorInv, Exclusive
    <2> QED
      BY <1>4, <1>5, <2>1, StartInv DEF OnSampleWriteDone
  <1>6. CASE ~s.is_finished /\ ~ok
    <2>1. ReactorInv(SetReactorAsFinished(s, "internal"))
      BY <1>1, <1>3, <1>6, FinishInv DEF Statuses
    <2> QED
      BY <1>4, <1>6, <2>1, StartInv DEF OnSampleWriteDone
  <1>7. CASE ~s.is_finished /\ ok
    <2>1. s.responses # << >>
      BY <1>1, <1>3, <1>7 DEF ReactorInv, Exclusive
    <2>2. Tail(s.responses) \in Seq(Response)
      BY <1>3, <2>1, TailFacts DEF ReactorRecord
    <2>3. /\ t \in ReactorRecord /\ t.writes = 0
          /\ t.check_failed = r.check_failed
          /\ t.is_finished = r.is_finished
      BY <1>3, <2>2 DEF ReactorRecord
    <2> HIDE DEF t
    <2>4. ReactorInv(MaybeSendNextResponse(t))
      BY <1>1, <1>3, <1>7, <2>3, SendInv
    <2>5. ASSUME t.responses = << >>
          PROVE  ReactorInv(SetReactorAsFinished(t, "ok"))
      BY <1>1, <1>3, <1>7, <2>3, <2>5, FinishInv DEF Statuses
    <2>6. ReactorInv(OnWriteDone(r, ok))
      BY <1>4, <1>7, <2>4, <2>5
    <2> QED
      BY <2>6, StartInv DEF OnSampleWriteDone
  <1> QED
    BY <1>5, <1>6, <1>7

LEMMA CancelInv ==
    ASSUME NEW r, ReactorInv(r)
    PROVE  ReactorInv(OnCancel(r))
  <1> DEFINE s == [r EXCEPT !.still_reading = FALSE]
  <1>1. /\ s \in ReactorRecord
        /\ s.check_failed = r.check_failed
        /\ s.writes = r.writes /\ s.is_finished = r.is_finished
        /\ s.status = r.status
        /\ s.responses = r.responses /\ s.sending = r.sending
    BY DEF ReactorInv, ReactorRecord
  <1>2. OnCancel(r) = IF s.is_finished THEN s ELSE SetReactorAsFinished(s, "internal")
    BY DEF OnCancel
  <1> HIDE DEF s
  <1>3. ReactorInv(s)
    BY <1>1, ExclusiveSame DEF ReactorInv
  <1>4. ASSUME ~s.is_finished
        PROVE  ReactorInv(SetReactorAsFinished(s, "internal"))
    <2>1. ~s.check_failed /\ s.writes \in {0, 1} /\ "internal" \in Statuses
      BY <1>3 DEF ReactorInv, Exclusive, Statuses
    <2> QED
      BY <1>1, <1>4, <2>1, FinishInv
  <1> QED
    BY <1>2, <1>3, <1>4

LEMMA SamplingFailedInv ==
    ASSUME NEW r, ReactorInv(r), NEW status \in TableErrors
    PROVE  ReactorInv(SamplingFailed(r, status))
  <1> DEFINE z == 0
             s == [r EXCEPT !.waiting = FALSE, !.enqueued = z]
  <1>r. r \in ReactorRecord /\ z \in Int
    BY DEF ReactorInv
  <1> HIDE DEF z
  <1>1. /\ s \in ReactorRecord
        /\ s.check_failed = r.check_failed
        /\ s.writes = r.writes /\ s.is_finished = r.is_finished
        /\ s.status = r.status
        /\ s.responses = r.responses /\ s.sending = r.sending
    BY <1>r DEF ReactorRecord
  <1>2. SamplingFailed(r, status) = IF s.is_finished THEN s
                                    ELSE SetReactorAsFinished(s, status)
    BY DEF SamplingFailed, z
  <1> HIDE DEF s
  <1>3. ReactorInv(s)
    BY <1>1, ExclusiveSame DEF ReactorInv
  <1>4. ASSUME ~s.is_finished
        PROVE  ReactorInv(SetReactorAsFinished(s, status))
    <2>1. ~s.check_failed /\ s.writes \in {0, 1}
      BY <1>3 DEF ReactorInv, Exclusive
    <2>2. status \in Statuses /\ status # "ok"
      BY SamplerAssumption DEF Statuses
    <2> QED
      BY <1>1, <1>4, <2>1, <2>2, FinishInv
  <1> QED
    BY <1>2, <1>3, <1>4

\* The fields of a reactor that packing samples leaves alone.
LEMMA SameFields ==
    ASSUME NEW r \in ReactorRecord, NEW q \in ReactorRecord, SameButResponses(r, q)
    PROVE  /\ q.check_failed = r.check_failed /\ q.writes = r.writes
           /\ q.is_finished = r.is_finished /\ q.status = r.status
           /\ q.sending = r.sending /\ q.wire = r.wire
           /\ q.requested = r.requested /\ q.fetched = r.fetched
           /\ q.waiting = r.waiting /\ q.enqueued = r.enqueued
           /\ q.last_batch_size = r.last_batch_size
           /\ q.read_in_flight = r.read_in_flight
           /\ q.still_reading = r.still_reading
  BY DEF SameButResponses, ReactorRecord

\* SamplingDone up to the point where the samples are packed, and whether it
\* starts a write.
SamplesPacked(r, samples) ==
    FoldLeft(LAMBDA q, x : ProcessSample(q, x, r.responses # << >>),
             [r EXCEPT !.waiting = FALSE, !.enqueued = 0,
                       !.fetched = @ + Len(samples)], samples)

LEMMA SamplesPackedFacts ==
    ASSUME NEW r \in ReactorRecord, NEW d \in Nat, NEW n \in Nat,
           \A i \in 1 .. n : d + i \in Samples
    PROVE  LET t == SamplesPacked(r, [i \in 1 .. n |-> d + i])
           IN  /\ t \in ReactorRecord
               /\ t.check_failed = r.check_failed /\ t.writes = r.writes
               /\ t.is_finished = r.is_finished /\ t.status = r.status
               /\ t.sending = r.sending /\ t.wire = r.wire
               /\ Grown(r.responses, t.responses, d, d + n, r.responses # << >>)
  <1> DEFINE seq == [i \in 1 .. n |-> d + i]
             w == r.responses # << >>
             f == r.fetched + Len(seq)
             z == 0
             s == [r EXCEPT !.waiting = FALSE, !.enqueued = z, !.fetched = f]
             t == FoldLeft(LAMBDA q, x : ProcessSample(q, x, w), s, seq)
  <1>1. SamplesPacked(r, seq) = t
    BY DEF SamplesPacked
  <1>2. Len(seq) = n
    BY DEF seq
  <1>3. f \in Int /\ z \in Int
    BY <1>2 DEF ReactorRecord
  <1>4. w \in BOOLEAN
    OBVIOUS
  <1> HIDE DEF f, z, w
  <1>5. /\ s \in ReactorRecord
        /\ s.check_failed = r.check_failed /\ s.writes = r.writes
        /\ s.is_finished = r.is_finished /\ s.status = r.status
        /\ s.sending = r.sending /\ s.wire = r.wire
        /\ s.responses = r.responses
    BY <1>3 DEF ReactorRecord
  <1> HIDE DEF s
  <1>6. /\ t \in ReactorRecord /\ SameButResponses(s, t)
        /\ Grown(s.responses, t.responses, d, d + n, w)
    BY <1>4, <1>5, SampleLoopFacts
  <1> HIDE DEF t
  <1>7. /\ t.check_failed = s.check_failed /\ t.writes = s.writes
        /\ t.is_finished = s.is_finished /\ t.status = s.status
        /\ t.sending = s.sending /\ t.wire = s.wire
    BY <1>5, <1>6, SameFields
  <1> QED
    BY <1>1, <1>5, <1>6, <1>7 DEF w

LEMMA SamplingDoneInv ==
    ASSUME NEW r, ReactorInv(r), NEW d \in Nat, NEW n \in Nat,
           \A i \in 1 .. n : d + i \in Samples
    PROVE  ReactorInv(SamplingDone(r, [i \in 1 .. n |-> d + i]))
  <1> DEFINE seq == [i \in 1 .. n |-> d + i]
             w == r.responses # << >>
             t == SamplesPacked(r, seq)
             u == IF w THEN t ELSE MaybeSendNextResponse(t)
             k == Len(seq)
             v == [u EXCEPT !.last_batch_size = k]
  <1>0. r \in ReactorRecord /\ Exclusive(r)
    BY DEF ReactorInv
  <1>1. /\ t \in ReactorRecord
        /\ t.check_failed = r.check_failed /\ t.writes = r.writes
        /\ t.is_finished = r.is_finished /\ t.status = r.status
        /\ t.sending = r.sending /\ t.wire = r.wire
        /\ Grown(r.responses, t.responses, d, d + n, w)
    BY <1>0, SamplesPackedFacts
  <1>2. SamplingDone(r, seq) = IF u.requested = u.fetched THEN MaybeStartRead(u)
                               ELSE MaybeStartSampling(v)
    BY DEF SamplingDone, SamplesPacked
  <1>3. k \in Int
    BY DEF seq
  <1> HIDE DEF t, k, seq
  <1>4. ASSUME r.is_finished PROVE ReactorInv(u)
    <2>1. u = t
      BY <1>1, <1>4 DEF MaybeSendNextResponse
    <2> HIDE DEF u
    <2>2. Exclusive(t)
      BY <1>0, <1>1, <1>4 DEF Exclusive
    <2>3. ReactorInv(t)
      BY <1>1, <2>2 DEF ReactorInv
    <2> QED
      BY <2>1, <2>3
  <1>5. ASSUME ~r.is_finished /\ w PROVE ReactorInv(u)
    <2>1. Len(t.responses) >= Len(r.responses) /\ t.responses[1] = r.responses[1]
      BY <1>1, <1>5 DEF Grown
    <2>2. t.responses # << >>
      BY <1>0, <1>5, <2>1, EmptySeq DEF ReactorRecord
    <2>3. Exclusive(t)
      BY <1>0, <1>1, <1>5, <2>1, <2>2 DEF Exclusive
    <2>4. u = t
      BY <1>5
    <2>5. ReactorInv(t)
      BY <1>1, <2>3 DEF ReactorInv
    <2> HIDE DEF u
    <2> QED
      BY <2>4, <2>5
  <1>6. ASSUME ~r.is_finished /\ ~w PROVE ReactorInv(u)
    <2>1. r.writes = 0 /\ ~r.check_failed
      BY <1>0, <1>6 DEF Exclusive
    <2>2. u = MaybeSendNextResponse(t)
      BY <1>6
    <2> HIDE DEF u
    <2>3. ReactorInv(MaybeSendNextResponse(t))
      BY <1>1, <1>6, <2>1, SendInv
    <2> QED
      BY <2>2, <2>3
  <1>w. w \in BOOLEAN /\ r.is_finished \in BOOLEAN
    BY <1>0 DEF ReactorRecord
  <1> HIDE DEF u, w
  <1>7. ReactorInv(u)
    BY <1>4, <1>5, <1>6, <1>w
  <1>8. ReactorInv(v)
    <2>1. u \in ReactorRecord
      BY <1>7 DEF ReactorInv
    <2>2. /\ v \in ReactorRecord
          /\ v.check_failed = u.check_failed /\ v.writes = u.writes
          /\ v.is_finished = u.is_finished /\ v.status = u.status
          /\ v.responses = u.responses /\ v.sending = u.sending
      BY <1>3, <2>1 DEF ReactorRecord
    <2> HIDE DEF v
    <2>3. Exclusive(v)
      BY <1>7, <2>2, ExclusiveSame DEF ReactorInv
    <2> QED
      BY <2>2, <2>3 DEF ReactorInv
  <1> QED
    BY <1>2, <1>7, <1>8, StartInv DEF seq

-----------------------------------------------------------------------------
(* The types of the variables. *)

WorkerRecord ==
    [pc : {"idle", "fetch", "reserve", "write", "read", "sample", "report",
           "stopped"},
     closed : BOOLEAN, reserved_slots : Nat, to_stream : Nat, got : Nat,
     request : Nat, sampled : Nat, parts : Seq(Entry), prev_batch_size : Nat,
     stream : Streams \cup {0}, status : Statuses]

StreamRecord ==
    [worker : Nat \cup {None}, request : Nat,
     ended : {"no", "cancelled", "unavailable"}, gone : BOOLEAN,
     reactor : ReactorRecord]

Capacity == options.max_in_flight * GetNumWorkers(options)

QueueRecord(c) ==
    [capacity : {c}, buffer : [0 .. c - 1 -> Nat \cup {NoSample}], pushes : Nat,
     pops : Nat, reserved : Int, closed : BOOLEAN, num_waiting_to_pop : Int]

SamplerRecord ==
    [requested : Int, returned : Nat, closed : BOOLEAN,
     worker_status : {"ok", "timeout", "internal"}]

ConsumerRecord ==
    [pc : {"idle", "emit", "pop", "count", "failed"},
     active : Nat \cup {NoSample}, left : Int,
     result : {None, "ok", "invalid", "out_of_range", "cancelled", "timeout",
               "internal"},
     delivered : Seq(Nat \cup {NoSample}), dropped : Nat]

\* Where a worker is determines what it holds.
Placed(x) ==
    /\ x.pc = "sample" => x.reserved_slots = x.request /\ options.kind = "local"
    /\ x.pc \in {"write", "read"} => options.kind = "grpc"
    /\ x.pc \in {"reserve", "write", "read"} /\ options.kind = "grpc" =>
           x.stream \in Streams

WorkerOK(x) == x \in WorkerRecord /\ Placed(x)
StreamOK(st) == st \in StreamRecord /\ Exclusive(st.reactor)

TypeInv ==
    /\ options \in Options
    /\ worker \in [Workers -> WorkerRecord] /\ \A w \in Workers : Placed(worker[w])
    /\ stream \in [Streams -> StreamRecord]
    /\ \A s \in Streams : Exclusive(stream[s].reactor)
    /\ queue \in QueueRecord(Capacity)
    /\ sampler \in SamplerRecord
    /\ consumer \in ConsumerRecord
    /\ closer \in [pc : {"idle", "cancel", "join", "done"}, remaining : SUBSET Workers]
    /\ drawn \in Seq(Nat \cup {None})

LEMMA WorkerNumbers ==
    ASSUME NEW r \in WorkerRecord
    PROVE  /\ r.reserved_slots \in Nat /\ r.to_stream \in Nat /\ r.got \in Nat
           /\ r.request \in Nat /\ r.sampled \in Nat /\ r.prev_batch_size \in Nat
  BY DEF WorkerRecord

LEMMA OptionsFacts ==
    ASSUME options \in Options
    PROVE  /\ options.kind \in {"grpc", "local"}
           /\ options.max_in_flight \in Nat \ {0}
           /\ GetNumWorkers(options) \in Nat \ {0}
           /\ Workers \subseteq Nat \ {0} /\ IsFiniteSet(Workers)
           /\ Capacity \in Nat \ {0}
  <1> DEFINE m == options.max_in_flight
             n == GetNumWorkers(options)
  <1>1. /\ options \in [kind : {"grpc", "local"}, num_workers : Nat,
                        max_in_flight : Nat, call : {"timestep", "trajectory"}]
        /\ Validate(options) /\ MaxSamples \in Nat
    BY SamplerAssumption
  <1>2. m \in Nat \ {0} /\ options.num_workers \in Nat \ {0}
    BY <1>1 DEF Validate
  <1>3. MaxSamples \div m \in Int
    BY <1>1, <1>2
  <1>4. n \in Nat \ {0}
    BY <1>2, <1>3 DEF GetNumWorkers, Lesser
  <1> HIDE DEF m, n
  <1>5. m * n \in Nat \ {0}
    BY <1>2, <1>4
  <1>6. Workers = 1 .. n
    BY DEF Workers, n
  <1>7. IsFiniteSet(1 .. n)
    BY <1>4, FS_Interval
  <1> QED
    BY <1>1, <1>2, <1>4, <1>5, <1>6, <1>7 DEF Capacity, m, n

LEMMA InitTypeInv == Init => TypeInv
  <1> SUFFICES ASSUME Init PROVE TypeInv
    OBVIOUS
  <1>1. options \in Options
    BY DEF Init
  <1>2. NewWorker \in WorkerRecord /\ Placed(NewWorker)
    BY EmptySeq DEF NewWorker, WorkerRecord, Placed, Statuses
  <1>3. UnusedStream \in StreamRecord /\ Exclusive(UnusedStream.reactor)
    BY NewReactorInv DEF UnusedStream, StreamRecord, ReactorInv
  <1>4. EmptyQueue(Capacity) \in QueueRecord(Capacity)
    <2> DEFINE c == Capacity
    <2>1. c \in Nat
      BY <1>1, OptionsFacts
    <2> HIDE DEF c
    <2>2. EmptyQueue(c) \in QueueRecord(c)
      BY <2>1 DEF EmptyQueue, QueueRecord
    <2> QED
      BY <2>2 DEF c
  <1>5. queue = EmptyQueue(Capacity)
    BY DEF Init, Capacity
  <1>6. sampler \in SamplerRecord
    BY DEF Init, SamplerRecord
  <1>7. consumer \in ConsumerRecord
    BY EmptySeq DEF Init, ConsumerRecord
  <1>8. worker \in [Workers -> WorkerRecord] /\ \A w \in Workers : Placed(worker[w])
    BY <1>2 DEF Init
  <1>9. /\ stream \in [Streams -> StreamRecord]
        /\ \A s \in Streams : Exclusive(stream[s].reactor)
    BY <1>3 DEF Init
  <1>10. closer \in [pc : {"idle", "cancel", "join", "done"},
                     remaining : SUBSET Workers]
    BY DEF Init
  <1>11. drawn \in Seq(Nat \cup {None})
    BY EmptySeq DEF Init
  <1> QED
    BY <1>1, <1>4, <1>5, <1>6, <1>7, <1>8, <1>9, <1>10, <1>11 DEF TypeInv

-----------------------------------------------------------------------------
(* The queue. *)

LEMMA LargestExists ==
    ASSUME NEW n \in Nat, NEW S \in SUBSET (1 .. n), S # {}
    PROVE  \E j \in S : \A k \in S : k <= j
  <1> SUFFICES ASSUME \A j \in S : \E k \in S : ~(k <= j) PROVE FALSE
    OBVIOUS
  <1> DEFINE P == {i \in Nat : \E k \in S : k >= i}
  <1>1. 0 \in P
    <2>1. PICK k : k \in S
      OBVIOUS
    <2>2. k \in Nat /\ k >= 0
      BY <2>1
    <2> QED
      BY <2>1, <2>2
  <1>2. \A i \in 0 .. n + 1 : i \in P /\ i < n + 1 => i + 1 \in P
    <2> SUFFICES ASSUME NEW i \in 0 .. n + 1, i \in P PROVE i + 1 \in P
      OBVIOUS
    <2>1. PICK k \in S : k >= i
      OBVIOUS
    <2>2. PICK m \in S : ~(m <= k)
      OBVIOUS
    <2>3. m >= i + 1 /\ i + 1 \in Nat
      BY <2>1, <2>2
    <2> QED
      BY <2>3
  <1>3. n + 1 \in Nat /\ n + 1 \in 0 .. n + 1
    OBVIOUS
  <1> HIDE DEF P
  <1>4. n + 1 \in P
    BY <1>1, <1>2, <1>3, ChunkLoop!Induction
  <1> QED
    BY <1>4 DEF P

LEMMA SlotType ==
    ASSUME NEW c \in Nat \ {0}, NEW q \in QueueRecord(c), NEW xs \in Seq(Nat),
           NEW i \in 0 .. c - 1
    PROVE  SlotAfter(q, xs, i) \in Nat \cup {NoSample}
  <1> DEFINE hits == {j \in 1 .. Len(xs) : (q.pushes + j - 1) % q.capacity = i}
             top == CHOOSE j \in hits : \A k \in hits : k <= j
  <1>1. SlotAfter(q, xs, i) = IF hits = {} THEN q.buffer[i] ELSE xs[top]
    BY DEF SlotAfter
  <1>2. hits \subseteq 1 .. Len(xs) /\ Len(xs) \in Nat
    OBVIOUS
  <1>3. q.buffer[i] \in Nat \cup {NoSample}
    BY DEF QueueRecord
  <1> HIDE DEF hits
  <1>4. hits # {} => top \in 1 .. Len(xs)
    BY <1>2, LargestExists
  <1> HIDE DEF top
  <1> QED
    BY <1>1, <1>3, <1>4

LEMMA PushFacts ==
    ASSUME NEW c \in Nat \ {0}, NEW q \in QueueRecord(c), NEW xs \in Seq(Nat)
    PROVE  LET p == PushBatch(q, xs)
           IN  /\ p \in QueueRecord(c) /\ p.closed = q.closed
               /\ p.reserved = q.reserved - Len(xs)
               /\ p.pushes = q.pushes + Len(xs) /\ p.pops = q.pops
               /\ p.num_waiting_to_pop = q.num_waiting_to_pop
               /\ p.buffer = [i \in 0 .. c - 1 |-> SlotAfter(q, xs, i)]
  <1> DEFINE a == q.reserved - Len(xs)
             b == q.pushes + Len(xs)
             f == [i \in 0 .. c - 1 |-> SlotAfter(q, xs, i)]
             p == [q EXCEPT !.reserved = a, !.pushes = b, !.buffer = f]
  <1>1. DOMAIN q.buffer = 0 .. c - 1
    BY DEF QueueRecord
  <1>2. PushBatch(q, xs) = p
    BY <1>1 DEF PushBatch
  <1>3. a \in Int /\ b \in Nat
    BY DEF QueueRecord
  <1>4. f \in [0 .. c - 1 -> Nat \cup {NoSample}]
    BY SlotType
  <1> HIDE DEF a, b, f
  <1>5. /\ p \in QueueRecord(c) /\ p.closed = q.closed
        /\ p.reserved = a /\ p.pushes = b /\ p.pops = q.pops
        /\ p.num_waiting_to_pop = q.num_waiting_to_pop /\ p.buffer = f
    BY <1>3, <1>4 DEF QueueRecord
  <1> QED
    BY <1>2, <1>5 DEF a, b, f

LEMMA ReserveFacts ==
    ASSUME NEW c \in Nat \ {0}, NEW q \in QueueRecord(c), NEW n \in Int
    PROVE  LET p == Reserve(q, n)
           IN  /\ p \in QueueRecord(c) /\ p.closed = q.closed
               /\ p.reserved = q.reserved + n
               /\ p.pushes = q.pushes /\ p.pops = q.pops
               /\ p.num_waiting_to_pop = q.num_waiting_to_pop
               /\ p.buffer = q.buffer
  <1> DEFINE a == q.reserved + n
             p == [q EXCEPT !.reserved = a]
  <1>1. a \in Int
    BY DEF QueueRecord
  <1>2. Reserve(q, n) = p
    BY DEF Reserve
  <1> HIDE DEF a
  <1>3. /\ p \in QueueRecord(c) /\ p.closed = q.closed
        /\ p.reserved = a /\ p.pushes = q.pushes /\ p.pops = q.pops
        /\ p.num_waiting_to_pop = q.num_waiting_to_pop
        /\ p.buffer = q.buffer
    BY <1>1 DEF QueueRecord
  <1> QED
    BY <1>2, <1>3 DEF a

LEMMA CloseFacts ==
    ASSUME NEW c \in Nat \ {0}, NEW q \in QueueRecord(c)
    PROVE  LET p == CloseQueue(q)
           IN  /\ p \in QueueRecord(c) /\ p.closed = TRUE
               /\ p.reserved = q.reserved
               /\ p.pushes = q.pushes /\ p.pops = q.pops
               /\ p.num_waiting_to_pop = q.num_waiting_to_pop
               /\ p.buffer = q.buffer
  BY DEF CloseQueue, QueueRecord

\* EnterPop and FailPop.
LEMMA TicketFacts ==
    ASSUME NEW c \in Nat \ {0}, NEW q \in QueueRecord(c), NEW p,
           p = EnterPop(q) \/ p = FailPop(q)
    PROVE  /\ p \in QueueRecord(c) /\ p.closed = q.closed
           /\ p.reserved = q.reserved
           /\ p.pushes = q.pushes /\ p.pops = q.pops /\ p.buffer = q.buffer
  <1>1. PICK n \in Int : p = [q EXCEPT !.num_waiting_to_pop = n]
    <2>1. q.num_waiting_to_pop + 1 \in Int /\ q.num_waiting_to_pop - 1 \in Int
      BY DEF QueueRecord
    <2> QED
      BY <2>1 DEF EnterPop, FailPop
  <1> QED
    BY <1>1 DEF QueueRecord

LEMMA PopFacts ==
    ASSUME NEW c \in Nat \ {0}, NEW q \in QueueRecord(c)
    PROVE  LET p == Pop(q)
           IN  /\ p \in QueueRecord(c) /\ p.closed = q.closed
               /\ p.reserved = q.reserved
               /\ p.pushes = q.pushes /\ p.pops = q.pops + 1
               /\ p.buffer = [q.buffer EXCEPT ![q.pops % c] = NoSample]
               /\ Oldest(q) = q.buffer[q.pops % c]
               /\ Oldest(q) \in Nat \cup {NoSample}
  <1> DEFINE a == q.num_waiting_to_pop - 1
             b == q.pops + 1
             f == [q.buffer EXCEPT ![q.pops % c] = NoSample]
             p == [q EXCEPT !.num_waiting_to_pop = a, !.pops = b, !.buffer = f]
  <1>1. a \in Int /\ b \in Nat /\ q.capacity = c /\ q.pops \in Nat
    BY DEF QueueRecord
  <1>2. q.pops % c \in 0 .. c - 1
    BY <1>1
  <1>3. q.buffer \in [0 .. c - 1 -> Nat \cup {NoSample}]
    BY DEF QueueRecord
  <1>4. f \in [0 .. c - 1 -> Nat \cup {NoSample}]
    BY <1>3
  <1>5. Pop(q) = p
    BY <1>1, <1>3 DEF Pop, QueueRecord
  <1> HIDE DEF a, b, f
  <1>6. /\ p \in QueueRecord(c) /\ p.closed = q.closed
        /\ p.reserved = q.reserved /\ p.pushes = q.pushes /\ p.pops = b
        /\ p.buffer = f
    BY <1>1, <1>4 DEF QueueRecord
  <1>7. Oldest(q) = q.buffer[q.pops % c]
    BY <1>1 DEF Oldest
  <1>8. Oldest(q) \in Nat \cup {NoSample}
    BY <1>2, <1>3, <1>7
  <1> QED
    BY <1>5, <1>6, <1>7, <1>8 DEF b, f

-----------------------------------------------------------------------------
(* What a step of a worker does to its record and to the queue. *)

LEMMA ReturnFacts ==
    ASSUME NEW x \in WorkerRecord, NEW got \in Nat, NEW status \in Statuses
    PROVE  LET y == Return(x, got, status)
           IN  /\ WorkerOK(y) /\ y.pc = "report" /\ y.closed = x.closed
               /\ y.reserved_slots = x.reserved_slots /\ y.stream = x.stream
               /\ y.parts = << >>
  <1> DEFINE z == 0
             e == << >>
             y == [x EXCEPT !.pc = "report", !.got = got, !.status = status,
                            !.request = z, !.sampled = z, !.parts = e,
                            !.prev_batch_size = z]
  <1>1. Return(x, got, status) = y
    BY DEF Return
  <1>2. z \in Nat /\ e \in Seq(Entry)
    BY EmptySeq
  <1> HIDE DEF z, e
  <1>3. /\ y \in WorkerRecord /\ y.pc = "report" /\ y.closed = x.closed
        /\ y.reserved_slots = x.reserved_slots /\ y.stream = x.stream
        /\ y.parts = e
    BY <1>2 DEF WorkerRecord
  <1> HIDE DEF y
  <1>4. Placed(y)
    BY <1>3 DEF Placed
  <1> QED
    BY <1>1, <1>3, <1>4 DEF WorkerOK, e

\* The new record of worker w, which keeps its stream or opens one because it
\* has not been cancelled.
Becomes(w, x) ==
    /\ worker' = [worker EXCEPT ![w] = x] /\ WorkerOK(x)
    /\ x.closed = worker[w].closed
    /\ x.stream = worker[w].stream \/ ~x.closed

\* The reservations of the queue follow those of worker w.
Reserves(w, x) ==
    /\ queue' \in QueueRecord(Capacity) /\ (queue.closed => queue'.closed)
    /\ ~queue'.closed =>
          /\ queue'.reserved = queue.reserved + x.reserved_slots
                                   - worker[w].reserved_slots
          /\ \/ QueueSize(queue') + queue'.reserved = QueueSize(queue) + queue.reserved
             \/ QueueSize(queue') + queue'.reserved <= Capacity

LEMMA SameReserves ==
    ASSUME TypeInv, NEW w \in Workers, NEW x, queue' = queue,
           x.reserved_slots = worker[w].reserved_slots
    PROVE  Reserves(w, x)
  <1>1. worker[w] \in WorkerRecord /\ queue \in QueueRecord(Capacity)
    BY DEF TypeInv
  <1>2. worker[w].reserved_slots \in Nat /\ queue.reserved \in Int
    BY <1>1 DEF WorkerRecord, QueueRecord
  <1>3. queue.reserved = queue.reserved + x.reserved_slots - worker[w].reserved_slots
    BY <1>2
  <1> QED
    BY <1>1, <1>3 DEF Reserves

\* Steps that set the place of a worker, and little else.
LEMMA WorkerStopsFacts ==
    ASSUME TypeInv, NEW w \in Workers, WorkerStops(w)
    PROVE  \E x : Becomes(w, x) /\ Reserves(w, x)
  <1> DEFINE x == [worker[w] EXCEPT !.pc = "stopped"]
  <1>1. worker \in [Workers -> WorkerRecord] /\ worker[w] \in WorkerRecord
    BY DEF TypeInv
  <1>2. worker' = [worker EXCEPT ![w] = x] /\ queue' = queue
    BY DEF WorkerStops
  <1>3. /\ x \in WorkerRecord /\ x.pc = "stopped" /\ x.closed = worker[w].closed
        /\ x.stream = worker[w].stream
        /\ x.reserved_slots = worker[w].reserved_slots
    BY <1>1 DEF WorkerRecord
  <1> HIDE DEF x
  <1>4. Placed(x)
    BY <1>3 DEF Placed
  <1>5. Becomes(w, x) /\ Reserves(w, x)
    BY <1>2, <1>3, <1>4, SameReserves DEF Becomes, WorkerOK
  <1> QED
    BY <1>5

LEMMA WorkerStartsFacts ==
    ASSUME TypeInv, NEW w \in Workers, WorkerStarts(w)
    PROVE  \E x : Becomes(w, x) /\ Reserves(w, x)
  <1> DEFINE n == Lesser(MaxSamplesPerStream, MaxSamples - sampler.requested)
             b == InitialSampleBatchSize
             x == [worker[w] EXCEPT !.pc = "fetch", !.to_stream = n,
                                    !.prev_batch_size = b]
  <1>1. worker \in [Workers -> WorkerRecord] /\ worker[w] \in WorkerRecord
    BY DEF TypeInv
  <1>2. worker' = [worker EXCEPT ![w] = x] /\ queue' = queue
    BY <1>1 DEF WorkerStarts
  <1>3. n \in Nat /\ b \in Nat
    BY SamplerAssumption DEF TypeInv, SamplerRecord, WorkerStarts, Lesser
  <1> HIDE DEF n, b
  <1>4. /\ x \in WorkerRecord /\ x.pc = "fetch" /\ x.closed = worker[w].closed
        /\ x.stream = worker[w].stream
        /\ x.reserved_slots = worker[w].reserved_slots
    BY <1>1, <1>3 DEF WorkerRecord
  <1> HIDE DEF x
  <1>5. Placed(x)
    BY <1>4 DEF Placed
  <1>6. Becomes(w, x) /\ Reserves(w, x)
    BY <1>2, <1>4, <1>5, SameReserves DEF Becomes, WorkerOK
  <1> QED
    BY <1>6

LEMMA WorkerReportsFacts ==
    ASSUME TypeInv, NEW w \in Workers, WorkerReports(w)
    PROVE  \E x : Becomes(w, x) /\ Reserves(w, x)
  <1> DEFINE fatal == /\ worker[w].status # "ok" /\ ~Transient(worker[w].status)
                      /\ sampler.worker_status = "ok"
             p == IF fatal THEN "stopped" ELSE "idle"
             z == 0
             x == [worker[w] EXCEPT !.pc = p, !.to_stream = z, !.got = z,
                                    !.status = "ok"]
  <1>1. worker \in [Workers -> WorkerRecord] /\ worker[w] \in WorkerRecord
    BY DEF TypeInv
  <1>2. worker' = [worker EXCEPT ![w] = x]
        /\ (queue' = queue \/ queue' = CloseQueue(queue))
    BY <1>1 DEF WorkerReports
  <1>3. z \in Nat /\ p \in {"stopped", "idle"}
    OBVIOUS
  <1> HIDE DEF z, p
  <1>4. /\ x \in WorkerRecord /\ x.pc = p /\ x.closed = worker[w].closed
        /\ x.stream = worker[w].stream
        /\ x.reserved_slots = worker[w].reserved_slots
    BY <1>1, <1>3 DEF WorkerRecord, Statuses
  <1> HIDE DEF x
  <1>5. Placed(x)
    BY <1>3, <1>4 DEF Placed
  <1>6. Becomes(w, x)
    BY <1>2, <1>4, <1>5 DEF Becomes, WorkerOK
  <1>7. ASSUME queue' = CloseQueue(queue) PROVE Reserves(w, x)
    BY <1>7, CloseFacts, OptionsFacts DEF Reserves, TypeInv
  <1>8. Reserves(w, x)
    BY <1>2, <1>4, <1>7, SameReserves
  <1> QED
    BY <1>6, <1>8

\* A worker that only changes its place, or returns from FetchSamples.
LEMMA ReturnBecomes ==
    ASSUME TypeInv, NEW w \in Workers, NEW got \in Nat, NEW status \in Statuses,
           worker' = [worker EXCEPT ![w] = Return(worker[w], got, status)],
           queue' = queue
    PROVE  \E x : Becomes(w, x) /\ Reserves(w, x)
  <1> DEFINE x == Return(worker[w], got, status)
  <1>1. worker[w] \in WorkerRecord
    BY DEF TypeInv
  <1>2. /\ WorkerOK(x) /\ x.closed = worker[w].closed
        /\ x.reserved_slots = worker[w].reserved_slots
        /\ x.stream = worker[w].stream
    BY <1>1, ReturnFacts
  <1>3. worker' = [worker EXCEPT ![w] = x]
    OBVIOUS
  <1> HIDE DEF x
  <1>4. Becomes(w, x) /\ Reserves(w, x)
    BY <1>2, <1>3, SameReserves DEF Becomes
  <1> QED
    BY <1>4

LEMMA PlaceBecomes ==
    ASSUME TypeInv, NEW w \in Workers, NEW p \in {"fetch", "reserve", "read"},
           worker' = [worker EXCEPT ![w] = [worker[w] EXCEPT !.pc = p]],
           queue' = queue,
           p = "reserve" => options.kind = "local",
           p = "read" => worker[w].pc = "write"
    PROVE  \E x : Becomes(w, x) /\ Reserves(w, x)
  <1> DEFINE x == [worker[w] EXCEPT !.pc = p]
  <1>1. worker[w] \in WorkerRecord /\ Placed(worker[w])
    BY DEF TypeInv
  <1>2. /\ x \in WorkerRecord /\ x.pc = p /\ x.closed = worker[w].closed
        /\ x.reserved_slots = worker[w].reserved_slots
        /\ x.stream = worker[w].stream
    BY <1>1 DEF WorkerRecord
  <1>3. worker' = [worker EXCEPT ![w] = x]
    OBVIOUS
  <1> HIDE DEF x
  <1>4. Placed(x)
    BY <1>1, <1>2 DEF Placed
  <1>5. Becomes(w, x) /\ Reserves(w, x)
    BY <1>2, <1>3, <1>4, SameReserves DEF Becomes, WorkerOK
  <1> QED
    BY <1>5

LEMMA GrpcOpensFacts ==
    ASSUME TypeInv, NEW w \in Workers, GrpcOpens(w)
    PROVE  \E x : Becomes(w, x) /\ Reserves(w, x)
  <1>0. worker \in [Workers -> WorkerRecord] /\ worker[w] \in WorkerRecord
    BY DEF TypeInv
  <1>1. CASE Cancelled(w) /\ worker' = [worker EXCEPT ![w] = Return(@, 0, "cancelled")]
    <2>1. worker' = [worker EXCEPT ![w] = Return(worker[w], 0, "cancelled")]
          /\ queue' = queue /\ 0 \in Nat /\ "cancelled" \in Statuses
      BY <1>0, <1>1 DEF GrpcOpens, Statuses
    <2> QED
      BY <2>1, ReturnBecomes
  <1>2. CASE ~Cancelled(w) /\ \E s \in Streams :
                 worker' = [worker EXCEPT ![w].pc = "reserve", ![w].stream = s]
    <2>1. PICK s \in Streams :
                 worker' = [worker EXCEPT ![w].pc = "reserve", ![w].stream = s]
      BY <1>2
    <2> DEFINE x == [worker[w] EXCEPT !.pc = "reserve", !.stream = s]
    <2>2. worker' = [worker EXCEPT ![w] = x] /\ queue' = queue
      BY <1>0, <2>1 DEF GrpcOpens
    <2>3. /\ x \in WorkerRecord /\ x.pc = "reserve" /\ x.closed = worker[w].closed
          /\ x.reserved_slots = worker[w].reserved_slots /\ x.stream = s
      BY <1>0 DEF WorkerRecord
    <2> HIDE DEF x
    <2>4. Placed(x)
      BY <2>3 DEF Placed
    <2>5. Becomes(w, x) /\ Reserves(w, x)
      BY <1>2, <2>2, <2>3, <2>4, SameReserves DEF Becomes, WorkerOK, Cancelled
    <2> QED
      BY <2>5
  <1> QED
    BY <1>1, <1>2 DEF GrpcOpens, Unused

\* A reservation of n slots, of which the worker already has some.
LEMMA ReserveBecomes ==
    ASSUME TypeInv, NEW w \in Workers, NEW n \in Nat, NEW x \in WorkerRecord,
           queue' = Reserve(queue, SlotsToReserve(w, n)),
           CanReserve(queue, SlotsToReserve(w, n)),
           ~queue.closed => x.reserved_slots = n
    PROVE  Reserves(w, x)
  <1> DEFINE k == SlotsToReserve(w, n)
             c == Capacity
  <1>1. /\ queue \in QueueRecord(c) /\ c \in Nat \ {0}
        /\ worker[w] \in WorkerRecord
    BY OptionsFacts DEF TypeInv
  <1>2. k = n - worker[w].reserved_slots /\ worker[w].reserved_slots \in Nat
    BY <1>1 DEF SlotsToReserve, WorkerRecord
  <1>3. k \in Int
    BY <1>2
  <1> HIDE DEF k, c
  <1>4. /\ queue' \in QueueRecord(c) /\ queue'.closed = queue.closed
        /\ queue'.reserved = queue.reserved + k
        /\ queue'.pushes = queue.pushes /\ queue'.pops = queue.pops
    BY <1>1, <1>3, ReserveFacts DEF k
  <1>5. queue.reserved \in Int /\ queue.pushes \in Nat /\ queue.pops \in Nat
        /\ queue.capacity = c
    BY <1>1 DEF QueueRecord
  <1>6. ASSUME ~queue.closed
        PROVE  /\ queue'.reserved = queue.reserved + x.reserved_slots
                                       - worker[w].reserved_slots
               /\ QueueSize(queue') + queue'.reserved <= c
    <2>1. x.reserved_slots = n /\ QueueSize(queue) + queue.reserved + k <= c
      BY <1>5, <1>6 DEF CanReserve, k
    <2> QED
      BY <1>1, <1>2, <1>3, <1>4, <1>5, <2>1 DEF QueueSize
  <1> QED
    BY <1>4, <1>6 DEF Reserves, c

LEMMA GrpcReservesFacts ==
    ASSUME TypeInv, NEW w \in Workers, GrpcReserves(w)
    PROVE  \E x : Becomes(w, x) /\ Reserves(w, x)
  <1> DEFINE n == GrpcRequestSize(w)
             z == 0
             r == worker[w]
             x == IF queue.closed THEN Return(r, r.got, "cancelled")
                  ELSE [r EXCEPT !.pc = "write", !.reserved_slots = n,
                                 !.request = n, !.sampled = z]
  <1>1. worker \in [Workers -> WorkerRecord] /\ r \in WorkerRecord /\ Placed(r)
    BY DEF TypeInv
  <1>2. /\ worker' = [worker EXCEPT ![w] = x]
        /\ queue' = Reserve(queue, SlotsToReserve(w, n))
        /\ CanReserve(queue, SlotsToReserve(w, n))
    BY DEF GrpcReserves
  <1>3. n \in Nat /\ z \in Nat
    BY <1>1, OptionsFacts DEF GrpcRequestSize, Lesser, WorkerRecord, TypeInv,
                              GrpcReserves
  <1>4. r.pc = "reserve" /\ options.kind = "grpc" /\ r.got \in Nat
    BY <1>1 DEF GrpcReserves, WorkerRecord
  <1> HIDE DEF n, z, r
  <1>5. ASSUME queue.closed
        PROVE  WorkerOK(x) /\ x.closed = r.closed /\ x.stream = r.stream
    BY <1>1, <1>4, <1>5, ReturnFacts DEF Statuses
  <1>6. ASSUME ~queue.closed
        PROVE  /\ WorkerOK(x) /\ x.closed = r.closed /\ x.stream = r.stream
               /\ x.reserved_slots = n
    <2> DEFINE y == [r EXCEPT !.pc = "write", !.reserved_slots = n,
                              !.request = n, !.sampled = z]
    <2>1. /\ y \in WorkerRecord /\ y.closed = r.closed /\ y.stream = r.stream
          /\ y.reserved_slots = n /\ y.pc = "write"
      BY <1>1, <1>3 DEF WorkerRecord
    <2>2. x = y
      BY <1>6
    <2> HIDE DEF x, y
    <2>3. Placed(y)
      BY <1>1, <1>4, <2>1 DEF Placed
    <2> QED
      BY <2>1, <2>2, <2>3 DEF WorkerOK
  <1> HIDE DEF x
  <1>7. WorkerOK(x) /\ x.closed = r.closed /\ x.stream = r.stream
    BY <1>5, <1>6
  <1>8. Reserves(w, x)
    BY <1>2, <1>3, <1>6, <1>7, ReserveBecomes DEF WorkerOK
  <1>9. Becomes(w, x)
    BY <1>2, <1>7 DEF Becomes, r
  <1> QED
    BY <1>8, <1>9

LEMMA GrpcCompletesFacts ==
    ASSUME TypeInv, NEW w \in Workers, GrpcCompletes(w)
    PROVE  \E x : Becomes(w, x) /\ Reserves(w, x)
  <1> DEFINE r == worker[w]
             status == IF r.got = r.to_stream THEN "ok" ELSE "internal"
  <1>1. worker' = [worker EXCEPT ![w] = Return(r, r.got, status)] /\ queue' = queue
    BY DEF GrpcCompletes
  <1>2. r.got \in Nat /\ status \in Statuses
    BY DEF TypeInv, WorkerRecord, Statuses
  <1> HIDE DEF status
  <1> QED
    BY <1>1, <1>2, ReturnBecomes

\* The status that Finish returns.
LEMMA FinalStatusType ==
    ASSUME TypeInv, NEW s \in Streams, HasEnded(stream[s])
    PROVE  FinalStatus(stream[s]) \in Statuses
  <1>1. stream[s] \in StreamRecord /\ Exclusive(stream[s].reactor)
    BY DEF TypeInv
  <1> QED
    BY <1>1 DEF StreamRecord, Exclusive, HasEnded, FinalStatus, Statuses

LEMMA GrpcWritesFacts ==
    ASSUME TypeInv, NEW w \in Workers, GrpcWrites(w)
    PROVE  \E x : Becomes(w, x) /\ Reserves(w, x)
  <1> DEFINE r == worker[w]
             s == r.stream
  <1>1. worker \in [Workers -> WorkerRecord] /\ r \in WorkerRecord /\ Placed(r)
    BY DEF TypeInv
  <1>2. s \in Streams /\ r.got \in Nat /\ queue' = queue /\ r.pc = "write"
    BY <1>1 DEF Placed, WorkerRecord, GrpcWrites
  <1>3. CASE HasEnded(stream[s])
    <2>1. worker' = [worker EXCEPT ![w] = Return(r, r.got, FinalStatus(stream[s]))]
      BY <1>3 DEF GrpcWrites
    <2>2. FinalStatus(stream[s]) \in Statuses
      BY <1>2, <1>3, FinalStatusType
    <2> QED
      BY <1>2, <2>1, <2>2, ReturnBecomes
  <1>4. CASE ~HasEnded(stream[s])
    <2>1. worker' = [worker EXCEPT ![w] = [worker[w] EXCEPT !.pc = "read"]]
      BY <1>1, <1>4 DEF GrpcWrites
    <2> QED
      BY <1>2, <2>1, PlaceBecomes
  <1> QED
    BY <1>3, <1>4

LEMMA GrpcReadFailsFacts ==
    ASSUME TypeInv, NEW w \in Workers, GrpcReadFails(w)
    PROVE  \E x : Becomes(w, x) /\ Reserves(w, x)
  <1> DEFINE r == worker[w]
             s == r.stream
             hidden == FinalStatus(stream[s]) = "timeout"
                           /\ queue.num_waiting_to_pop < 1
             status == IF hidden THEN "ok" ELSE FinalStatus(stream[s])
  <1>1. r \in WorkerRecord /\ Placed(r)
    BY DEF TypeInv
  <1>2. s \in Streams /\ r.got \in Nat /\ queue' = queue /\ HasEnded(stream[s])
        /\ worker' = [worker EXCEPT ![w] = Return(r, r.got, status)]
    BY <1>1 DEF Placed, WorkerRecord, GrpcReadFails
  <1>3. status \in Statuses
    BY <1>2, FinalStatusType DEF Statuses
  <1> HIDE DEF status
  <1> QED
    BY <1>2, <1>3, ReturnBecomes

\* What the client unpacks.
Unpacking == [parts : Seq(Entry), samples : Seq(Nat), failed : BOOLEAN]

UnpackTurn(p, acc, e) == Unpack(acc, e)
UnpackLoop == INSTANCE FoldFacts WITH Op <- UnpackTurn

LEMMA UnpackType ==
    ASSUME NEW acc \in Unpacking, NEW e \in Entry
    PROVE  Unpack(acc, e) \in Unpacking
  <1> DEFINE ps == Append(acc.parts, e)
             x == ps[1].sample
             xs == Append(acc.samples, x)
             n == << >>
             whole == Whole(ps)
  <1>1. Unpack(acc, e) =
          IF acc.failed THEN acc
          ELSE IF ~e.end_of_sequence THEN [acc EXCEPT !.parts = ps]
          ELSE IF ~whole THEN [acc EXCEPT !.failed = TRUE, !.parts = n]
          ELSE [acc EXCEPT !.parts = n, !.samples = xs]
    BY DEF Unpack
  <1>2. acc.parts \in Seq(Entry) /\ acc.samples \in Seq(Nat)
    BY DEF Unpacking
  <1>3. /\ ps \in Seq(Entry) /\ Len(ps) = Len(acc.parts) + 1
        /\ Len(acc.parts) \in Nat
    BY <1>2, AppendFacts
  <1>4. ps[1] \in Entry
    BY <1>3
  <1>5. x \in Nat
    BY <1>4 DEF Entry
  <1> HIDE DEF x, ps
  <1>6. xs \in Seq(Nat) /\ n \in Seq(Entry)
    BY <1>2, <1>5, AppendFacts, EmptySeq
  <1> HIDE DEF xs, n, whole
  <1>7. /\ [acc EXCEPT !.parts = ps] \in Unpacking
        /\ [acc EXCEPT !.failed = TRUE, !.parts = n] \in Unpacking
        /\ [acc EXCEPT !.parts = n, !.samples = xs] \in Unpacking
    BY <1>3, <1>6 DEF Unpacking
  <1> QED
    BY <1>1, <1>7

LEMMA UnpackLoopType ==
    ASSUME NEW acc \in Unpacking, NEW resp \in Response
    PROVE  FoldLeft(Unpack, acc, resp) \in Unpacking
  <1> DEFINE n == Len(resp)
             I == [i \in 0 .. n |-> Unpacking]
             q == UnpackLoop!Fold(0, acc, resp)
  <1>1. FoldLeft(Unpack, acc, resp) = q
    BY DEF UnpackLoop!Fold, UnpackTurn, FoldLeft, MapThenFoldSet,
           UnpackLoop!FoldLeft, UnpackLoop!MapThenFoldSet, Max, UnpackLoop!Max
  <1>2. n \in Nat /\ DOMAIN resp = 1 .. n /\ \A i \in 1 .. n : resp[i] \in Entry
    BY DEF Response
  <1> HIDE DEF q, n
  <1>3. acc \in I[0]
    BY <1>2
  <1>4. ASSUME NEW i \in 1 .. n, NEW a \in I[i - 1]
        PROVE  UnpackTurn(0, a, resp[i]) \in I[i]
    <2>1. i - 1 \in 0 .. n /\ i \in 0 .. n
      BY <1>2
    <2>2. a \in Unpacking
      BY <2>1
    <2>3. Unpack(a, resp[i]) \in Unpacking
      BY <1>2, <2>2, UnpackType
    <2> QED
      BY <2>1, <2>3 DEF UnpackTurn
  <1> HIDE DEF I
  <1>5. q \in I[n]
    BY <1>2, <1>3, <1>4, UnpackLoop!FoldInvariant DEF q
  <1>6. n \in 0 .. n
    BY <1>2
  <1>7. q \in Unpacking
    BY <1>5, <1>6 DEF I
  <1> QED
    BY <1>1, <1>7

\* What GrpcReads makes of a response: the samples, and the rest of the parts.
Unpacked(w) ==
    FoldLeft(Unpack, [parts |-> worker[w].parts, samples |-> << >>, failed |-> FALSE],
             Head(stream[worker[w].stream].reactor.wire))

LEMMA UnpackedType ==
    ASSUME TypeInv, NEW w \in Workers, worker[w].stream \in Streams,
           stream[worker[w].stream].reactor.wire # << >>
    PROVE  Unpacked(w) \in Unpacking
  <1> DEFINE e == << >>
             ps == worker[w].parts
             acc == [parts |-> ps, samples |-> e, failed |-> FALSE]
             resp == Head(stream[worker[w].stream].reactor.wire)
  <1>1. ps \in Seq(Entry)
    BY DEF TypeInv, WorkerRecord
  <1>2. stream[worker[w].stream] \in StreamRecord
    BY DEF TypeInv
  <1>3. stream[worker[w].stream].reactor.wire \in Seq(Response)
    BY <1>2 DEF StreamRecord, ReactorRecord
  <1>4. resp \in Response
    BY <1>3, TailFacts
  <1>5. e \in Seq(Nat)
    BY EmptySeq
  <1>6. Unpacked(w) = FoldLeft(Unpack, acc, resp)
    BY DEF Unpacked
  <1> HIDE DEF e, ps, resp
  <1>7. acc \in Unpacking
    BY <1>1, <1>5 DEF Unpacking
  <1> HIDE DEF acc
  <1> QED
    BY <1>4, <1>6, <1>7, UnpackLoopType

\* The record of a worker that has pushed n samples.
Pushed(r, n, parts) ==
    [[r EXCEPT !.got = @ + n, !.sampled = @ + n, !.parts = parts]
        EXCEPT !.reserved_slots = @ - n]

LEMMA PushedFacts ==
    ASSUME NEW r \in WorkerRecord, NEW n \in Nat, n <= r.reserved_slots,
           NEW parts \in Seq(Entry)
    PROVE  LET y == Pushed(r, n, parts)
           IN  /\ y \in WorkerRecord /\ y.closed = r.closed /\ y.stream = r.stream
               /\ y.pc = r.pc /\ y.reserved_slots = r.reserved_slots - n
               /\ y.got = r.got + n /\ y.parts = parts
  <1> DEFINE a == r.got + n
             b == r.sampled + n
             c == r.reserved_slots - n
             s == [r EXCEPT !.got = a, !.sampled = b, !.parts = parts]
             y == [s EXCEPT !.reserved_slots = c]
  <1>1. a \in Nat /\ b \in Nat /\ c \in Nat
    BY DEF WorkerRecord
  <1>2. s.reserved_slots = r.reserved_slots
    BY DEF WorkerRecord
  <1>3. Pushed(r, n, parts) = y
    BY <1>2 DEF Pushed
  <1> HIDE DEF a, b, c
  <1>4. /\ s \in WorkerRecord /\ s.closed = r.closed /\ s.stream = r.stream
        /\ s.pc = r.pc /\ s.got = a /\ s.parts = parts
    BY <1>1 DEF WorkerRecord
  <1> HIDE DEF s
  <1>5. /\ y \in WorkerRecord /\ y.closed = s.closed /\ y.stream = s.stream
        /\ y.pc = s.pc /\ y.reserved_slots = c
        /\ y.got = s.got /\ y.parts = s.parts
    BY <1>1, <1>4 DEF WorkerRecord
  <1> QED
    BY <1>3, <1>4, <1>5 DEF a, c

\* Samples go into slots that the worker has reserved.
LEMMA PushBecomes ==
    ASSUME TypeInv, NEW w \in Workers, NEW xs \in Seq(Nat), NEW x \in WorkerRecord,
           queue' = PushBatch(queue, xs),
           x.reserved_slots = worker[w].reserved_slots - Len(xs)
    PROVE  Reserves(w, x)
  <1> DEFINE c == Capacity
             n == Len(xs)
  <1>1. /\ queue \in QueueRecord(c) /\ c \in Nat \ {0}
        /\ worker[w] \in WorkerRecord
    BY OptionsFacts DEF TypeInv
  <1> HIDE DEF c
  <1>2. worker[w].reserved_slots \in Nat /\ n \in Nat
    BY <1>1, WorkerNumbers, LenProperties
  <1>3. /\ queue' \in QueueRecord(c) /\ queue'.closed = queue.closed
        /\ queue'.reserved = queue.reserved - n
        /\ queue'.pushes = queue.pushes + n /\ queue'.pops = queue.pops
    BY <1>1, PushFacts
  <1>4. queue.reserved \in Int /\ queue.pushes \in Nat /\ queue.pops \in Nat
    BY <1>1 DEF QueueRecord
  <1> HIDE DEF n
  <1>5. queue'.reserved = queue.reserved + x.reserved_slots - worker[w].reserved_slots
    BY <1>2, <1>3, <1>4 DEF n
  <1>6. QueueSize(queue') + queue'.reserved = QueueSize(queue) + queue.reserved
    BY <1>2, <1>3, <1>4 DEF QueueSize
  <1> QED
    BY <1>3, <1>5, <1>6 DEF Reserves, c

LEMMA GrpcReadsFacts ==
    ASSUME TypeInv, NEW w \in Workers, GrpcReads(w)
    PROVE  \E x : Becomes(w, x) /\ Reserves(w, x)
  <1> DEFINE r == worker[w]
             s == r.stream
             acc == Unpacked(w)
             xs == acc.samples
             n == Len(xs)
             ps == acc.parts
             excess == n > r.reserved_slots
             a == r.got + n
             b == r.sampled + n
             rec == [r EXCEPT !.got = a, !.sampled = b, !.parts = ps]
             done == Pushed(r, n, ps)
             x == IF rec.sampled < rec.request THEN done
                  ELSE IF rec.parts # << >> THEN Return(done, rec.got, "internal")
                  ELSE [done EXCEPT !.pc = "reserve"]
  <1>1. worker \in [Workers -> WorkerRecord] /\ r \in WorkerRecord /\ Placed(r)
    BY DEF TypeInv
  <1>2. r.pc = "read" /\ options.kind = "grpc" /\ stream[s].reactor.wire # << >>
    BY DEF GrpcReads
  <1>3. s \in Streams
    BY <1>1, <1>2 DEF Placed
  <1>4. \/ /\ worker' = [worker EXCEPT ![w] = Return(rec, rec.got, "internal")]
           /\ queue' = queue
        \/ /\ ~(acc.failed \/ excess)
           /\ queue' = PushBatch(queue, xs)
           /\ worker' = [worker EXCEPT ![w] = x]
    BY DEF GrpcReads, Unpacked, Pushed
  <1>5. acc \in Unpacking
    BY <1>2, <1>3, UnpackedType
  <1> HIDE DEF acc
  <1>6. xs \in Seq(Nat) /\ ps \in Seq(Entry) /\ n \in Nat
    BY <1>5 DEF Unpacking
  <1>7. a \in Nat /\ b \in Nat /\ r.reserved_slots \in Nat
    <2>1. r.got \in Nat /\ r.sampled \in Nat /\ r.reserved_slots \in Nat
      BY <1>1, WorkerNumbers
    <2> HIDE DEF r, n
    <2> QED
      BY <1>6, <2>1
  <1> HIDE DEF n, ps, a, b, xs
  <1>8. /\ rec \in WorkerRecord /\ rec.closed = r.closed /\ rec.stream = r.stream
        /\ rec.reserved_slots = r.reserved_slots /\ rec.got = a
    BY <1>1, <1>6, <1>7 DEF WorkerRecord
  <1> HIDE DEF rec
  <1>9. CASE /\ worker' = [worker EXCEPT ![w] = Return(rec, rec.got, "internal")]
             /\ queue' = queue
    <2> DEFINE y == Return(rec, rec.got, "internal")
    <2>1. "internal" \in Statuses /\ rec.got \in Nat
      BY <1>7, <1>8 DEF Statuses
    <2>2. /\ WorkerOK(y) /\ y.closed = rec.closed /\ y.stream = rec.stream
          /\ y.reserved_slots = rec.reserved_slots
      BY <1>8, <2>1, ReturnFacts
    <2> HIDE DEF y
    <2>3. Becomes(w, y)
      BY <1>8, <1>9, <2>2 DEF Becomes, y
    <2>4. Reserves(w, y)
      BY <1>8, <1>9, <2>2, SameReserves
    <2> QED
      BY <2>3, <2>4
  <1>10. CASE /\ ~(acc.failed \/ excess)
              /\ queue' = PushBatch(queue, xs)
              /\ worker' = [worker EXCEPT ![w] = x]
    <2>1. n <= r.reserved_slots
      BY <1>6, <1>7, <1>10
    <2>2. /\ done \in WorkerRecord /\ done.closed = r.closed
          /\ done.stream = r.stream /\ done.pc = r.pc
          /\ done.reserved_slots = r.reserved_slots - n
      BY <1>1, <1>6, <2>1, PushedFacts
    <2> HIDE DEF done
    <2> DEFINE y == Return(done, rec.got, "internal")
               z == [done EXCEPT !.pc = "reserve"]
    <2>3. "internal" \in Statuses /\ rec.got \in Nat
      BY <1>7, <1>8 DEF Statuses
    <2>4. /\ WorkerOK(y) /\ y.closed = done.closed /\ y.stream = done.stream
          /\ y.reserved_slots = done.reserved_slots
      BY <2>2, <2>3, ReturnFacts
    <2> HIDE DEF y
    <2>5. /\ z \in WorkerRecord /\ z.closed = done.closed /\ z.stream = done.stream
          /\ z.reserved_slots = done.reserved_slots /\ z.pc = "reserve"
      BY <2>2 DEF WorkerRecord
    <2> HIDE DEF z
    <2>6. Placed(z) /\ Placed(done)
      BY <1>2, <1>3, <2>2, <2>5 DEF Placed
    <2>7. x = done \/ x = y \/ x = z
      BY DEF y, z
    <2> HIDE DEF x
    <2>8. /\ WorkerOK(x) /\ x.closed = r.closed /\ x.stream = r.stream
          /\ x.reserved_slots = r.reserved_slots - n
      BY <2>2, <2>4, <2>5, <2>6, <2>7 DEF WorkerOK
    <2>9. Becomes(w, x)
      BY <1>10, <2>8 DEF Becomes
    <2>10. Reserves(w, x)
      BY <1>6, <1>10, <2>8, PushBecomes DEF WorkerOK, n
    <2> QED
      BY <2>9, <2>10
  <1> QED
    BY <1>4, <1>9, <1>10

LEMMA LocalStartsFacts ==
    ASSUME TypeInv, NEW w \in Workers, LocalStarts(w)
    PROVE  \E x : Becomes(w, x) /\ Reserves(w, x)
  <1>1. /\ queue' = queue /\ options.kind = "local" /\ 0 \in Nat
        /\ "cancelled" \in Statuses
    BY DEF LocalStarts, Statuses
  <1>2. \/ worker' = [worker EXCEPT ![w] = Return(worker[w], 0, "cancelled")]
        \/ worker' = [worker EXCEPT ![w] = [worker[w] EXCEPT !.pc = "reserve"]]
    BY DEF LocalStarts
  <1> QED
    BY <1>1, <1>2, ReturnBecomes, PlaceBecomes

LEMMA LocalReservesFacts ==
    ASSUME TypeInv, NEW w \in Workers, LocalReserves(w)
    PROVE  \E x : Becomes(w, x) /\ Reserves(w, x)
  <1> DEFINE n == LocalBatchSize(w)
             r == worker[w]
             x == IF queue.closed THEN Return(r, r.got, "cancelled")
                  ELSE [r EXCEPT !.pc = "sample", !.reserved_slots = n,
                                 !.request = n]
  <1>1. worker \in [Workers -> WorkerRecord] /\ r \in WorkerRecord /\ Placed(r)
    BY DEF TypeInv
  <1>2. /\ worker' = [worker EXCEPT ![w] = x]
        /\ queue' = Reserve(queue, SlotsToReserve(w, n))
        /\ CanReserve(queue, SlotsToReserve(w, n))
    BY DEF LocalReserves
  <1>3. n \in Nat
    <2>1. /\ r.to_stream \in Nat /\ r.got \in Nat /\ r.prev_batch_size \in Nat
          /\ options.max_in_flight \in Nat
      BY <1>1, OptionsFacts, WorkerNumbers DEF TypeInv
    <2>2. r.got < r.to_stream
      BY DEF LocalReserves
    <2> QED
      BY <2>1, <2>2 DEF LocalBatchSize, Lesser
  <1>4. options.kind = "local" /\ r.got \in Nat
    BY <1>1 DEF LocalReserves, WorkerRecord
  <1> HIDE DEF n, r
  <1>5. ASSUME queue.closed
        PROVE  WorkerOK(x) /\ x.closed = r.closed /\ x.stream = r.stream
    BY <1>1, <1>4, <1>5, ReturnFacts DEF Statuses
  <1>6. ASSUME ~queue.closed
        PROVE  /\ WorkerOK(x) /\ x.closed = r.closed /\ x.stream = r.stream
               /\ x.reserved_slots = n
    <2> DEFINE y == [r EXCEPT !.pc = "sample", !.reserved_slots = n,
                              !.request = n]
    <2>1. /\ y \in WorkerRecord /\ y.closed = r.closed /\ y.stream = r.stream
          /\ y.reserved_slots = n /\ y.request = n /\ y.pc = "sample"
      BY <1>1, <1>3 DEF WorkerRecord
    <2>2. x = y
      BY <1>6
    <2> HIDE DEF x, y
    <2>3. Placed(y)
      BY <1>4, <2>1 DEF Placed
    <2> QED
      BY <2>1, <2>2, <2>3 DEF WorkerOK
  <1> HIDE DEF x
  <1>7. WorkerOK(x) /\ x.closed = r.closed /\ x.stream = r.stream
    BY <1>5, <1>6
  <1>8. Reserves(w, x)
    BY <1>2, <1>3, <1>6, <1>7, ReserveBecomes DEF WorkerOK
  <1>9. Becomes(w, x)
    BY <1>2, <1>7 DEF Becomes, r
  <1> QED
    BY <1>8, <1>9

LEMMA LocalSamplesFacts ==
    ASSUME TypeInv, NEW w \in Workers, LocalSamples(w)
    PROVE  \E x : Becomes(w, x) /\ Reserves(w, x)
  <1> DEFINE r == worker[w]
  <1>1. worker \in [Workers -> WorkerRecord] /\ r \in WorkerRecord /\ Placed(r)
    BY DEF TypeInv
  <1>2. r.reserved_slots = r.request /\ r.request \in Nat /\ r.got \in Nat
    BY <1>1 DEF Placed, WorkerRecord, LocalSamples
  <1>3. PICK n \in 1 .. r.request :
          /\ queue' = PushBatch(queue, NextSamples(n))
          /\ worker' = [worker EXCEPT ![w].pc = "fetch", ![w].got = @ + n,
                                      ![w].reserved_slots = @ - n,
                                      ![w].prev_batch_size = n]
    BY DEF LocalSamples
  <1> DEFINE a == r.got + n
             b == r.reserved_slots - n
             x == [r EXCEPT !.pc = "fetch", !.got = a, !.reserved_slots = b,
                            !.prev_batch_size = n]
             xs == NextSamples(n)
  <1>4. worker' = [worker EXCEPT ![w] = x]
    BY <1>1, <1>3
  <1>5. a \in Nat /\ b \in Nat /\ n \in Nat
    BY <1>2
  <1>6. Len(drawn) \in Nat
    BY DEF TypeInv
  <1>7. xs \in Seq(Nat) /\ Len(xs) = n
    BY <1>5, <1>6 DEF NextSamples
  <1> HIDE DEF a, b, xs
  <1>8. /\ x \in WorkerRecord /\ x.closed = r.closed /\ x.stream = r.stream
        /\ x.reserved_slots = b /\ x.pc = "fetch"
    BY <1>1, <1>5 DEF WorkerRecord
  <1> HIDE DEF x
  <1>9. Placed(x)
    BY <1>8 DEF Placed
  <1>10. Becomes(w, x)
    BY <1>4, <1>8, <1>9 DEF Becomes, WorkerOK
  <1>11. Reserves(w, x)
    <2>1. x.reserved_slots = worker[w].reserved_slots - Len(xs)
      BY <1>7, <1>8 DEF b
    <2>2. queue' = PushBatch(queue, xs)
      BY <1>3 DEF xs
    <2> QED
      BY <1>7, <1>8, <2>1, <2>2, PushBecomes
  <1> QED
    BY <1>10, <1>11

LEMMA LocalEndsFacts ==
    ASSUME TypeInv, NEW w \in Workers, LocalTimesOut(w) \/ LocalFails(w)
    PROVE  \E x : Becomes(w, x) /\ Reserves(w, x)
  <1>1. worker \in [Workers -> WorkerRecord] /\ worker[w] \in WorkerRecord
    BY DEF TypeInv
  <1>2. /\ queue' = queue /\ worker[w].got \in Nat
        /\ "cancelled" \in Statuses /\ "timeout" \in Statuses
    BY <1>1 DEF LocalTimesOut, LocalFails, Statuses, WorkerRecord
  <1>3. \/ worker' = [worker EXCEPT ![w] = [worker[w] EXCEPT !.pc = "fetch"]]
        \/ \E status \in {"timeout", "cancelled"} :
              worker' = [worker EXCEPT ![w] =
                            Return(worker[w], worker[w].got, status)]
    BY <1>1 DEF LocalTimesOut, LocalFails
  <1> QED
    BY <1>2, <1>3, ReturnBecomes, PlaceBecomes

LEMMA WorkerStepFacts ==
    ASSUME TypeInv, NEW w \in Workers, WorkerStep(w)
    PROVE  \E x : Becomes(w, x) /\ Reserves(w, x)
  BY WorkerStopsFacts, WorkerStartsFacts, WorkerReportsFacts, GrpcOpensFacts,
     GrpcReservesFacts, GrpcCompletesFacts, GrpcWritesFacts, GrpcReadsFacts,
     GrpcReadFailsFacts, LocalStartsFacts, LocalReservesFacts, LocalSamplesFacts,
     LocalEndsFacts
     DEF WorkerStep, FetchGrpc, FetchLocal

-----------------------------------------------------------------------------
(* What a step does to the streams. *)

\* Every stream is as it should be, and one that has ended stays so.
StreamsGoOn ==
    /\ stream' \in [Streams -> StreamRecord]
    /\ \A s \in Streams : /\ Exclusive(stream'[s].reactor)
                          /\ stream[s].ended # "no" =>
                                 stream'[s].ended = stream[s].ended

LEMMA StreamPut ==
    ASSUME TypeInv, NEW s \in Streams, NEW y \in StreamRecord, ReactorInv(y.reactor),
           stream[s].ended # "no" => y.ended = stream[s].ended,
           stream' = [stream EXCEPT ![s] = y]
    PROVE  StreamsGoOn
  <1>1. stream \in [Streams -> StreamRecord]
        /\ \A t \in Streams : Exclusive(stream[t].reactor)
    BY DEF TypeInv
  <1>2. Exclusive(y.reactor)
    BY DEF ReactorInv
  <1> QED
    BY <1>1, <1>2 DEF StreamsGoOn

LEMMA StreamsSame ==
    ASSUME TypeInv, stream' = stream
    PROVE  StreamsGoOn
  BY DEF TypeInv, StreamsGoOn

\* The client takes from the wire, or the wire is cut.
LEMMA WireInv ==
    ASSUME NEW r, ReactorInv(r), NEW wire \in Seq(Response)
    PROVE  ReactorInv([r EXCEPT !.wire = wire])
  <1> DEFINE q == [r EXCEPT !.wire = wire]
  <1>1. r \in ReactorRecord
    BY DEF ReactorInv
  <1>2. /\ q \in ReactorRecord
        /\ q.check_failed = r.check_failed /\ q.writes = r.writes
        /\ q.is_finished = r.is_finished /\ q.status = r.status
        /\ q.responses = r.responses /\ q.sending = r.sending
    BY <1>1 DEF ReactorRecord
  <1> HIDE DEF q
  <1>3. Exclusive(q)
    BY <1>2, ExclusiveSame DEF ReactorInv
  <1> QED
    BY <1>2, <1>3 DEF ReactorInv, q

LEMMA ReactGoesOn ==
    ASSUME TypeInv, NEW s \in Streams, NEW r, ReactorInv(r),
           stream' = [stream EXCEPT ![s].reactor = Delivered(stream[s], r)]
    PROVE  StreamsGoOn
  <1> DEFINE q == Delivered(stream[s], r)
             y == [stream[s] EXCEPT !.reactor = q]
  <1>1. ReactorInv(q)
    BY WireInv, EmptySeq DEF Delivered
  <1>2. stream \in [Streams -> StreamRecord] /\ stream[s] \in StreamRecord
    BY DEF TypeInv
  <1>3. stream' = [stream EXCEPT ![s] = y]
    BY <1>2
  <1>4. q \in ReactorRecord
    BY <1>1 DEF ReactorInv
  <1> HIDE DEF q
  <1>5. y \in StreamRecord /\ y.reactor = q /\ y.ended = stream[s].ended
    BY <1>2, <1>4 DEF StreamRecord
  <1> HIDE DEF y
  <1> QED
    BY <1>1, <1>3, <1>5, StreamPut

LEMMA EndStreamFacts ==
    ASSUME NEW st \in StreamRecord, Exclusive(st.reactor),
           NEW how \in {"cancelled", "unavailable"}
    PROVE  LET y == EndStream(st, how)
           IN  /\ y \in StreamRecord /\ ReactorInv(y.reactor) /\ y.ended # "no"
               /\ st.ended # "no" => y.ended = st.ended
               /\ y.worker = st.worker
               /\ y.reactor = [st.reactor EXCEPT !.wire = << >>]
  <1> DEFINE h == IF st.ended = "no" THEN how ELSE st.ended
             e == << >>
             q == [st.reactor EXCEPT !.wire = e]
             y == [st EXCEPT !.ended = h, !.reactor = q]
  <1>1. st.reactor \in ReactorRecord
    BY DEF StreamRecord
  <1>2. EndStream(st, how) = y
    BY <1>1 DEF EndStream, StreamRecord
  <1>3. e \in Seq(Response)
    BY EmptySeq
  <1>4. ReactorInv(q)
    BY <1>1, <1>3, WireInv DEF ReactorInv
  <1>5. q \in ReactorRecord
    BY <1>4 DEF ReactorInv
  <1>6. /\ h \in {"no", "cancelled", "unavailable"} /\ h # "no"
        /\ (st.ended # "no" => h = st.ended)
    BY DEF StreamRecord
  <1> HIDE DEF h, q
  <1>7. y \in StreamRecord /\ y.ended = h /\ y.reactor = q /\ y.worker = st.worker
    BY <1>5, <1>6 DEF StreamRecord
  <1> QED
    BY <1>2, <1>4, <1>6, <1>7 DEF q

LEMMA GrpcOpensStreams ==
    ASSUME TypeInv, NEW w \in Workers, GrpcOpens(w)
    PROVE  StreamsGoOn
  <1>1. CASE stream' = stream
    BY <1>1, StreamsSame
  <1>2. CASE \E s \in Streams :
               stream' = [t \in Streams |->
                        IF t = s THEN [stream[s] EXCEPT !.worker = w]
                        ELSE IF t = worker[w].stream THEN CancelStream(stream[t])
                        ELSE stream[t]]
    <2>1. PICK s \in Streams :
               stream' = [t \in Streams |->
                        IF t = s THEN [stream[s] EXCEPT !.worker = w]
                        ELSE IF t = worker[w].stream THEN CancelStream(stream[t])
                        ELSE stream[t]]
      BY <1>2
    <2>2. \A t \in Streams : stream[t] \in StreamRecord /\ Exclusive(stream[t].reactor)
      BY DEF TypeInv
    <2>3. w \in Nat
      BY OptionsFacts DEF TypeInv
    <2> DEFINE y == [stream[s] EXCEPT !.worker = w]
    <2>4. /\ y \in StreamRecord /\ y.ended = stream[s].ended
          /\ y.reactor = stream[s].reactor
      BY <2>2, <2>3 DEF StreamRecord
    <2>5. ASSUME NEW t \in Streams
          PROVE  LET z == CancelStream(stream[t])
                 IN  /\ z \in StreamRecord /\ Exclusive(z.reactor)
                     /\ stream[t].ended # "no" => z.ended = stream[t].ended
      BY <2>2, EndStreamFacts DEF CancelStream, ReactorInv
    <2>6. stream'[s] = y
      BY <2>1
    <2> HIDE DEF y
    <2>7. ASSUME NEW t \in Streams
          PROVE  /\ stream'[t] \in StreamRecord /\ Exclusive(stream'[t].reactor)
                 /\ stream[t].ended # "no" => stream'[t].ended = stream[t].ended
      <3>1. CASE t = s
        BY <2>2, <2>4, <2>6, <3>1
      <3>2. CASE t # s
        <4>1. stream'[t] = CancelStream(stream[t]) \/ stream'[t] = stream[t]
          BY <2>1, <3>2
        <4> QED
          BY <2>2, <2>5, <4>1
      <3> QED
        BY <3>1, <3>2
    <2> QED
      BY <2>1, <2>7 DEF StreamsGoOn
  <1> QED
    BY <1>1, <1>2 DEF GrpcOpens, Unused

LEMMA GrpcWritesStreams ==
    ASSUME TypeInv, NEW w \in Workers, GrpcWrites(w)
    PROVE  StreamsGoOn
  <1> DEFINE s == worker[w].stream
             n == worker[w].request
             y == [stream[s] EXCEPT !.request = n]
  <1>1. worker[w] \in WorkerRecord /\ Placed(worker[w])
    BY DEF TypeInv
  <1>2. s \in Streams /\ n \in Nat
    BY <1>1 DEF Placed, WorkerRecord, GrpcWrites
  <1>3. /\ stream \in [Streams -> StreamRecord] /\ stream[s] \in StreamRecord
        /\ Exclusive(stream[s].reactor)
    BY <1>2 DEF TypeInv
  <1>4. stream' = stream \/ stream' = [stream EXCEPT ![s] = y]
    BY <1>2, <1>3 DEF GrpcWrites
  <1> HIDE DEF s, n
  <1>5. /\ y \in StreamRecord /\ y.ended = stream[s].ended
        /\ y.reactor = stream[s].reactor
    BY <1>2, <1>3 DEF StreamRecord
  <1> HIDE DEF y
  <1>6. ReactorInv(y.reactor)
    BY <1>3, <1>5 DEF ReactorInv, StreamRecord
  <1> QED
    BY <1>2, <1>4, <1>5, <1>6, StreamsSame, StreamPut

LEMMA GrpcReadsStreams ==
    ASSUME TypeInv, NEW w \in Workers, GrpcReads(w)
    PROVE  StreamsGoOn
  <1> DEFINE s == worker[w].stream
             r == stream[s].reactor
             t == Tail(r.wire)
             q == [r EXCEPT !.wire = t]
             y == [stream[s] EXCEPT !.reactor = q]
  <1>1. worker[w] \in WorkerRecord /\ Placed(worker[w])
    BY DEF TypeInv
  <1>2. s \in Streams /\ r.wire # << >>
    BY <1>1 DEF Placed, GrpcReads
  <1>3. /\ stream \in [Streams -> StreamRecord] /\ stream[s] \in StreamRecord
        /\ Exclusive(stream[s].reactor)
    BY <1>2 DEF TypeInv
  <1>4. r \in ReactorRecord /\ r.wire \in Seq(Response)
    BY <1>3 DEF StreamRecord, ReactorRecord
  <1>5. t \in Seq(Response)
    BY <1>2, <1>4, TailFacts
  <1>6. stream' = [stream EXCEPT ![s] = y]
    BY <1>2, <1>3, <1>4 DEF GrpcReads, StreamRecord, ReactorRecord
  <1> HIDE DEF t
  <1>7. ReactorInv(q)
    BY <1>3, <1>4, <1>5, WireInv DEF ReactorInv
  <1>8. q \in ReactorRecord
    BY <1>7 DEF ReactorInv
  <1> HIDE DEF q, s
  <1>9. y \in StreamRecord /\ y.ended = stream[s].ended /\ y.reactor = q
    BY <1>3, <1>8 DEF StreamRecord
  <1> HIDE DEF y
  <1> QED
    BY <1>2, <1>6, <1>7, <1>9, StreamPut

LEMMA ServerReadsStreams ==
    ASSUME TypeInv, NEW s \in Streams, ServerReads(s)
    PROVE  StreamsGoOn
  <1> DEFINE r == stream[s].reactor
             n == stream[s].request
             q == OnReadDone(r, ProcessSampleRequest(HasRead(r), n))
             z == 0
             y == [stream[s] EXCEPT !.request = z, !.reactor = q]
  <1>1. /\ stream \in [Streams -> StreamRecord] /\ stream[s] \in StreamRecord
        /\ Exclusive(stream[s].reactor)
    BY DEF TypeInv
  <1>2. ReactorInv(r) /\ n \in Nat /\ z \in Nat
    BY <1>1 DEF ReactorInv, StreamRecord
  <1>3. ReactorInv(q)
    BY <1>2, ReadDoneInv
  <1>4. q \in ReactorRecord
    BY <1>3 DEF ReactorInv
  <1>5. stream' = [stream EXCEPT ![s] = y]
    BY <1>1 DEF ServerReads
  <1> HIDE DEF q, z
  <1>6. y \in StreamRecord /\ y.reactor = q /\ y.ended = stream[s].ended
    BY <1>1, <1>2, <1>4 DEF StreamRecord
  <1> HIDE DEF y
  <1> QED
    BY <1>3, <1>5, <1>6, StreamPut

LEMMA ServerDoneStreams ==
    ASSUME TypeInv, NEW s \in Streams, ServerDone(s)
    PROVE  StreamsGoOn
  <1> DEFINE r == stream[s].reactor
             a == NewSampleReactor
             q == [a EXCEPT !.read_in_flight = FALSE, !.still_reading = FALSE,
                            !.is_finished = TRUE, !.status = r.status,
                            !.wire = r.wire]
             y == [stream[s] EXCEPT !.gone = TRUE, !.reactor = q]
  <1>1. /\ stream \in [Streams -> StreamRecord] /\ stream[s] \in StreamRecord
        /\ Exclusive(r)
    BY DEF TypeInv
  <1>2. r \in ReactorRecord /\ r.is_finished
    BY <1>1 DEF StreamRecord, ServerDone, MayCallOnDone
  <1>3. ReactorInv(a)
    BY NewReactorInv
  <1>4. stream' = [stream EXCEPT ![s] = y]
    BY <1>1 DEF ServerDone, FinishedReactor
  <1>5. a \in ReactorRecord /\ Exclusive(a) /\ r.status \in Statuses
    BY <1>1, <1>2, <1>3 DEF ReactorInv, Exclusive
  <1> HIDE DEF a
  <1>6. /\ q \in ReactorRecord /\ q.check_failed = a.check_failed
        /\ q.writes = a.writes /\ q.is_finished /\ q.status = r.status
    BY <1>2, <1>5 DEF ReactorRecord
  <1> HIDE DEF q
  <1>7. Exclusive(q)
    BY <1>5, <1>6 DEF Exclusive
  <1>8. y \in StreamRecord /\ y.reactor = q /\ y.ended = stream[s].ended
    BY <1>1, <1>6 DEF StreamRecord
  <1> HIDE DEF y
  <1> QED
    BY <1>4, <1>6, <1>7, <1>8, StreamPut DEF ReactorInv

\* The other methods of a reactor.
LEMMA ReactStreams ==
    ASSUME TypeInv, NEW s \in Streams,
           ServerReadEnds(s) \/ ServerWriteDone(s) \/ ServerCancelled(s)
               \/ TableFails(s)
    PROVE  StreamsGoOn
  <1> DEFINE r == stream[s].reactor
  <1>1. ReactorInv(r)
    BY DEF TypeInv, ReactorInv, StreamRecord
  <1>2. CASE ServerReadEnds(s)
    <2>1. stream' = [stream EXCEPT ![s].reactor = Delivered(stream[s], OnReadEnd(r))]
      BY <1>2 DEF ServerReadEnds, React
    <2>2. ReactorInv(OnReadEnd(r))
      BY <1>1, ReadEndInv
    <2> QED
      BY <2>1, <2>2, ReactGoesOn
  <1>3. CASE ServerWriteDone(s)
    <2>1. PICK ok \in BOOLEAN :
             stream' = [stream EXCEPT ![s].reactor =
                            Delivered(stream[s], OnSampleWriteDone(r, ok))]
      BY <1>3 DEF ServerWriteDone, React
    <2>2. ReactorInv(OnSampleWriteDone(r, ok))
      BY <1>1, <1>3, WriteDoneInv DEF ServerWriteDone
    <2> QED
      BY <2>1, <2>2, ReactGoesOn
  <1>4. CASE ServerCancelled(s)
    <2>1. stream' = [stream EXCEPT ![s].reactor = Delivered(stream[s], OnCancel(r))]
      BY <1>4 DEF ServerCancelled, React
    <2>2. ReactorInv(OnCancel(r))
      BY <1>1, CancelInv
    <2> QED
      BY <2>1, <2>2, ReactGoesOn
  <1>5. CASE TableFails(s)
    <2>1. PICK status \in TableErrors :
             stream' = [stream EXCEPT ![s].reactor =
                            Delivered(stream[s], SamplingFailed(r, status))]
      BY <1>5 DEF TableFails, React
    <2>2. ReactorInv(SamplingFailed(r, status))
      BY <1>1, SamplingFailedInv
    <2> QED
      BY <2>1, <2>2, ReactGoesOn
  <1> QED
    BY <1>2, <1>3, <1>4, <1>5

\* Samples are numbered in the order of drawing.
LEMMA DrawFacts ==
    ASSUME TypeInv, NEW n \in Nat, NEW w \in Nat \cup {None}, Draw(n, w)
    PROVE  /\ Len(drawn) \in Nat
           /\ \A i \in 1 .. n : Len(drawn) + i \in Samples
           /\ drawn' \in Seq(Nat \cup {None})
           /\ Len(drawn') = Len(drawn) + n
           /\ \A i \in 1 .. Len(drawn) : drawn'[i] = drawn[i]
           /\ \A i \in 1 .. n : drawn'[Len(drawn) + i] = w
  <1> DEFINE d == Len(drawn)
             ws == [i \in 1 .. n |-> w]
             S == Nat \cup {None}
  <1>1. drawn \in Seq(S) /\ d \in Nat
    BY DEF TypeInv
  <1>2. ws \in Seq(S) /\ Len(ws) = n
    OBVIOUS
  <1>3. drawn' = drawn \o ws /\ d + n \in Samples
    BY DEF Draw
  <1> HIDE DEF ws
  <1>4. /\ drawn \o ws \in Seq(S) /\ Len(drawn \o ws) = d + n
        /\ \A i \in 1 .. d + n :
              (drawn \o ws)[i] = IF i <= d THEN drawn[i] ELSE ws[i - d]
    BY <1>1, <1>2, ConcatProperties
  <1>5. \A i \in 1 .. n : d + i \in Samples
    BY <1>1, <1>3, SamplerAssumption
  <1>6. \A i \in 1 .. d : (drawn \o ws)[i] = drawn[i]
    BY <1>1, <1>4
  <1>7. ASSUME NEW i \in 1 .. n PROVE (drawn \o ws)[d + i] = w
    <2>1. d + i \in 1 .. d + n /\ ~(d + i <= d) /\ d + i - d = i
      BY <1>1
    <2>2. ws[i] = w
      BY DEF ws
    <2> QED
      BY <1>4, <2>1, <2>2
  <1> QED
    BY <1>1, <1>3, <1>4, <1>5, <1>6, <1>7

LEMMA TableSamplesStreams ==
    ASSUME TypeInv, NEW s \in Streams, TableSamples(s)
    PROVE  StreamsGoOn /\ drawn' \in Seq(Nat \cup {None})
  <1> DEFINE r == stream[s].reactor
  <1>1. ReactorInv(r) /\ r.enqueued \in Int /\ stream[s].worker \in Nat \cup {None}
    BY DEF TypeInv, ReactorInv, StreamRecord, ReactorRecord
  <1>2. PICK n \in 1 .. r.enqueued :
          /\ Draw(n, stream[s].worker)
          /\ stream' = [stream EXCEPT ![s].reactor =
                            Delivered(stream[s], SamplingDone(r, NextSamples(n)))]
    BY DEF TableSamples, React
  <1>3. n \in Nat
    BY <1>1
  <1>4. /\ Len(drawn) \in Nat /\ \A i \in 1 .. n : Len(drawn) + i \in Samples
        /\ drawn' \in Seq(Nat \cup {None})
    BY <1>1, <1>2, <1>3, DrawFacts
  <1>5. ReactorInv(SamplingDone(r, [i \in 1 .. n |-> Len(drawn) + i]))
    BY <1>1, <1>3, <1>4, SamplingDoneInv
  <1>6. ReactorInv(SamplingDone(r, NextSamples(n)))
    BY <1>5 DEF NextSamples
  <1>7. StreamsGoOn
    BY <1>2, <1>6, ReactGoesOn
  <1> QED
    BY <1>4, <1>7

LEMMA BreakStreams ==
    ASSUME TypeInv, NEW s \in Streams, Break(s)
    PROVE  StreamsGoOn
  <1> DEFINE y == EndStream(stream[s], "unavailable")
  <1>1. stream[s] \in StreamRecord /\ Exclusive(stream[s].reactor)
    BY DEF TypeInv
  <1>2. /\ y \in StreamRecord /\ ReactorInv(y.reactor)
        /\ stream[s].ended # "no" => y.ended = stream[s].ended
    BY <1>1, EndStreamFacts
  <1>3. stream' = [stream EXCEPT ![s] = y]
    BY DEF Break
  <1> HIDE DEF y
  <1> QED
    BY <1>2, <1>3, StreamPut

LEMMA CloseCancelsStreams ==
    ASSUME TypeInv, NEW w \in Workers, CloseCancels(w)
    PROVE  /\ StreamsGoOn
           /\ worker[w].stream \in Streams => stream'[worker[w].stream].ended # "no"
  <1> DEFINE s == worker[w].stream
  <1>1. CASE s \in Streams
    <2> DEFINE y == EndStream(stream[s], "cancelled")
    <2>1. stream[s] \in StreamRecord /\ Exclusive(stream[s].reactor)
          /\ stream \in [Streams -> StreamRecord]
      BY <1>1 DEF TypeInv
    <2>2. /\ y \in StreamRecord /\ ReactorInv(y.reactor) /\ y.ended # "no"
          /\ stream[s].ended # "no" => y.ended = stream[s].ended
      BY <2>1, EndStreamFacts
    <2>3. stream' = [stream EXCEPT ![s] = y]
      BY <1>1 DEF CloseCancels, CancelStream
    <2> HIDE DEF y
    <2>4. stream'[s] = y
      BY <1>1, <2>1, <2>3
    <2> QED
      BY <1>1, <2>2, <2>3, <2>4, StreamPut
  <1>2. CASE s \notin Streams
    <2>1. stream' = stream
      BY <1>2 DEF CloseCancels
    <2> QED
      BY <1>2, <2>1, StreamsSame
  <1> QED
    BY <1>1, <1>2

-----------------------------------------------------------------------------
(* The type invariant. *)

LEMMA StreamsStep ==
    ASSUME TypeInv, [Next]_vars
    PROVE  StreamsGoOn
  <1>1. ASSUME NEW w \in Workers, WorkerStep(w) PROVE StreamsGoOn
    <2>1. CASE GrpcOpens(w) \/ GrpcWrites(w) \/ GrpcReads(w)
      BY <2>1, GrpcOpensStreams, GrpcWritesStreams, GrpcReadsStreams
    <2>2. CASE stream' = stream
      BY <2>2, StreamsSame
    <2> QED
      BY <1>1, <2>1, <2>2
         DEF WorkerStep, FetchGrpc, FetchLocal, WorkerStops, WorkerStarts,
             WorkerReports, GrpcReserves, GrpcCompletes, GrpcReadFails,
             LocalStarts, LocalReserves, LocalSamples, LocalTimesOut, LocalFails
  <1>2. ASSUME NEW s \in Streams,
               ServerStep(s) \/ Break(s) \/ TableSamples(s) \/ TableFails(s)
        PROVE  StreamsGoOn
    BY <1>2, ServerReadsStreams, ServerDoneStreams, ReactStreams,
       TableSamplesStreams, BreakStreams DEF ServerStep
  <1>3. ASSUME CloserStep PROVE StreamsGoOn
    <2>1. CASE stream' = stream
      BY <2>1, StreamsSame
    <2> QED
      BY <1>3, <2>1, CloseCancelsStreams DEF CloserStep, CloseEnds, CloseJoins
  <1>4. ASSUME \/ ConsumerStep \/ ContinueSample \/ StartPop \/ CloseSets
               \/ UNCHANGED vars
        PROVE  StreamsGoOn
    <2>1. stream' = stream
      BY <1>4 DEF ConsumerStep, NextTimestep, PopSample, CountTrajectory, PopFails,
                  PopNextSampleFails, ContinueSample, StartPop, CloseSets, vars
    <2> QED
      BY <2>1, StreamsSame
  <1> QED
    BY <1>1, <1>2, <1>3, <1>4, Zenon DEF Next

\* The steps of the streams, the consumer and Close leave the reservations
\* alone, and the workers but for closed.
LEMMA OtherSteps ==
    ASSUME TypeInv, NEW w \in Workers, CloseCancels(w)
    PROVE  /\ worker' \in [Workers -> WorkerRecord]
           /\ worker' = [worker EXCEPT ![w] = [worker[w] EXCEPT !.closed = TRUE]]
           /\ worker'[w].closed
           /\ \A v \in Workers : /\ Placed(worker'[v])
                                 /\ worker'[v].pc = worker[v].pc
                                 /\ worker'[v].stream = worker[v].stream
                                 /\ worker'[v].parts = worker[v].parts
                                 /\ worker'[v].reserved_slots = worker[v].reserved_slots
                                 /\ v # w => worker'[v] = worker[v]
  <1> DEFINE x == [worker[w] EXCEPT !.closed = TRUE]
  <1>1. /\ worker \in [Workers -> WorkerRecord]
        /\ \A v \in Workers : worker[v] \in WorkerRecord /\ Placed(worker[v])
    BY DEF TypeInv
  <1>2. worker' = [worker EXCEPT ![w] = x]
    BY <1>1 DEF CloseCancels
  <1>3. /\ x \in WorkerRecord /\ x.closed /\ x.pc = worker[w].pc
        /\ x.stream = worker[w].stream /\ x.parts = worker[w].parts
        /\ x.reserved_slots = worker[w].reserved_slots
        /\ x.request = worker[w].request
    BY <1>1 DEF WorkerRecord
  <1>4. worker' = [worker EXCEPT ![w] = [worker[w] EXCEPT !.closed = TRUE]]
    BY <1>2
  <1> HIDE DEF x
  <1>5. Placed(x)
    BY <1>1, <1>3 DEF Placed
  <1> QED
    BY <1>1, <1>2, <1>3, <1>4, <1>5

\* What the steps that are not a worker's do to the queue.
QueueGoesOn ==
    /\ queue' \in QueueRecord(Capacity) /\ (queue.closed => queue'.closed)
    /\ queue'.reserved = queue.reserved
    /\ QueueSize(queue') <= QueueSize(queue)

LEMMA QueueSteps ==
    ASSUME TypeInv,
           \/ queue' = queue \/ queue' = CloseQueue(queue) \/ queue' = EnterPop(queue)
           \/ queue' = FailPop(queue) \/ queue' = Pop(queue)
    PROVE  QueueGoesOn
  <1> DEFINE c == Capacity
  <1>1. c \in Nat \ {0} /\ queue \in QueueRecord(c)
    BY OptionsFacts DEF TypeInv
  <1> HIDE DEF c
  <1>2. queue.pushes \in Nat /\ queue.pops \in Nat
    BY <1>1 DEF QueueRecord
  <1> DEFINE Fine == /\ queue' \in QueueRecord(c) /\ (queue.closed => queue'.closed)
                     /\ queue'.reserved = queue.reserved
                     /\ queue'.pushes = queue.pushes
                     /\ \/ queue'.pops = queue.pops
                        \/ queue'.pops = queue.pops + 1
  <1>a. CASE queue' = queue
    BY <1>1, <1>2, <1>a DEF QueueGoesOn, QueueSize, c
  <1>b. CASE queue' = CloseQueue(queue)
    <2>1. Fine
      BY <1>1, <1>b, CloseFacts
    <2> QED
      BY <1>2, <2>1 DEF QueueGoesOn, QueueSize, c
  <1>c. CASE queue' = EnterPop(queue) \/ queue' = FailPop(queue)
    <2>1. Fine
      BY <1>1, <1>c, TicketFacts
    <2> QED
      BY <1>2, <2>1 DEF QueueGoesOn, QueueSize, c
  <1>d. CASE queue' = Pop(queue)
    <2>1. Fine
      BY <1>1, <1>d, PopFacts
    <2> QED
      BY <1>2, <2>1 DEF QueueGoesOn, QueueSize, c
  <1> QED
    BY <1>a, <1>b, <1>c, <1>d

LEMMA NotWorkerSteps ==
    ASSUME TypeInv, [Next]_vars, \A w \in Workers : ~WorkerStep(w)
    PROVE  QueueGoesOn /\ (worker' = worker \/ \E w \in Workers : CloseCancels(w))
  <1>1. \/ queue' = queue \/ queue' = CloseQueue(queue) \/ queue' = EnterPop(queue)
        \/ queue' = FailPop(queue) \/ queue' = Pop(queue)
    BY DEF Next, ServerStep, ServerReads, ServerReadEnds, ServerWriteDone,
           ServerCancelled, ServerDone, Break, TableSamples, TableFails, React,
           ConsumerStep, NextTimestep, PopSample, CountTrajectory, PopFails,
           PopNextSampleFails, ContinueSample, StartPop, Count,
           CloserStep, CloseCancels, CloseEnds, CloseJoins, CloseSets, vars
  <1>2. worker' = worker \/ \E w \in Workers : CloseCancels(w)
    BY DEF Next, ServerStep, ServerReads, ServerReadEnds, ServerWriteDone,
           ServerCancelled, ServerDone, Break, TableSamples, TableFails, React,
           ConsumerStep, NextTimestep, PopSample, CountTrajectory, PopFails,
           PopNextSampleFails, ContinueSample, StartPop,
           CloserStep, CloseEnds, CloseJoins, CloseSets, vars
  <1> QED
    BY <1>1, <1>2, QueueSteps

LEMMA OptionsStep ==
    ASSUME [Next]_vars
    PROVE  options' = options
  <1>1. ASSUME NEW w \in Workers, WorkerStep(w) PROVE options' = options
    BY <1>1 DEF WorkerStep, FetchGrpc, FetchLocal, WorkerStops, WorkerStarts,
         WorkerReports, GrpcOpens, GrpcReserves, GrpcCompletes, GrpcWrites,
         GrpcReads, GrpcReadFails, LocalStarts, LocalReserves, LocalSamples,
         LocalTimesOut, LocalFails
  <1>2. ASSUME NEW s \in Streams,
               ServerStep(s) \/ Break(s) \/ TableSamples(s) \/ TableFails(s)
        PROVE  options' = options
    BY <1>2 DEF ServerStep, ServerReads, ServerReadEnds, ServerWriteDone,
         ServerCancelled, ServerDone, Break, TableSamples, TableFails, React
  <1>3. ASSUME \/ ConsumerStep \/ ContinueSample \/ StartPop \/ CloserStep
               \/ CloseSets \/ UNCHANGED vars
        PROVE  options' = options
    BY <1>3 DEF ConsumerStep, NextTimestep, PopSample, CountTrajectory, PopFails,
         PopNextSampleFails, ContinueSample, StartPop, CloserStep, CloseCancels,
         CloseEnds, CloseJoins, CloseSets, vars
  <1> QED
    BY <1>1, <1>2, <1>3 DEF Next

LEMMA SamplerStep ==
    ASSUME TypeInv, [Next]_vars
    PROVE  sampler' \in SamplerRecord /\ (sampler.closed => sampler'.closed)
  <1>0. sampler \in SamplerRecord
    BY DEF TypeInv
  <1>1. ASSUME NEW w \in Workers, WorkerStarts(w)
        PROVE  sampler' \in SamplerRecord /\ (sampler.closed => sampler'.closed)
    <2> DEFINE n == sampler.requested
                      + Lesser(MaxSamplesPerStream, MaxSamples - sampler.requested)
    <2>1. n \in Int
      BY <1>0, SamplerAssumption DEF SamplerRecord, Lesser
    <2>2. sampler' = [sampler EXCEPT !.requested = n]
      BY <1>1 DEF WorkerStarts
    <2> HIDE DEF n
    <2> QED
      BY <1>0, <2>1, <2>2 DEF SamplerRecord
  <1>2. ASSUME NEW w \in Workers, WorkerReports(w)
        PROVE  sampler' \in SamplerRecord /\ (sampler.closed => sampler'.closed)
    <2> DEFINE fatal == /\ worker[w].status # "ok" /\ ~Transient(worker[w].status)
                        /\ sampler.worker_status = "ok"
               n == sampler.requested - NotFetched(worker[w])
               e == IF fatal THEN worker[w].status ELSE sampler.worker_status
    <2>1. worker[w] \in WorkerRecord
      BY DEF TypeInv
    <2>2. n \in Int
      BY <1>0, <2>1 DEF SamplerRecord, WorkerRecord, NotFetched
    <2>3. e \in {"ok", "timeout", "internal"}
      BY <1>0, <2>1 DEF SamplerRecord, WorkerRecord, Transient, Statuses
    <2>4. sampler' = [sampler EXCEPT !.requested = n, !.worker_status = e]
      BY <1>2 DEF WorkerReports
    <2> HIDE DEF n, e
    <2> QED
      BY <1>0, <2>2, <2>3, <2>4 DEF SamplerRecord
  <1>3. ASSUME sampler' = [sampler EXCEPT !.returned = @ + 1]
        PROVE  sampler' \in SamplerRecord /\ (sampler.closed => sampler'.closed)
    <2> DEFINE n == sampler.returned + 1
    <2>1. n \in Nat /\ sampler' = [sampler EXCEPT !.returned = n]
      BY <1>0, <1>3 DEF SamplerRecord
    <2> HIDE DEF n
    <2> QED
      BY <1>0, <2>1 DEF SamplerRecord
  <1>4. ASSUME CloseSets
        PROVE  sampler' \in SamplerRecord /\ (sampler.closed => sampler'.closed)
    BY <1>0, <1>4 DEF CloseSets, SamplerRecord
  <1>5. ASSUME NEW w \in Workers, WorkerStep(w)
        PROVE  WorkerStarts(w) \/ WorkerReports(w) \/ sampler' = sampler
    BY <1>5 DEF WorkerStep, FetchGrpc, FetchLocal, WorkerStops,
         GrpcOpens, GrpcReserves, GrpcCompletes, GrpcWrites,
         GrpcReads, GrpcReadFails, LocalStarts, LocalReserves, LocalSamples,
         LocalTimesOut, LocalFails
  <1>6. ASSUME NEW s \in Streams,
               ServerStep(s) \/ Break(s) \/ TableSamples(s) \/ TableFails(s)
        PROVE  sampler' = sampler
    BY <1>6 DEF ServerStep, ServerReads, ServerReadEnds, ServerWriteDone,
         ServerCancelled, ServerDone, Break, TableSamples, TableFails, React
  <1>7. ASSUME \/ ConsumerStep \/ ContinueSample \/ StartPop \/ CloserStep
               \/ UNCHANGED vars
        PROVE  sampler' = sampler \/ sampler' = [sampler EXCEPT !.returned = @ + 1]
    BY <1>7 DEF ConsumerStep, NextTimestep, PopSample, CountTrajectory, PopFails,
         PopNextSampleFails, ContinueSample, StartPop, Count, CloserStep,
         CloseCancels, CloseEnds, CloseJoins, vars
  <1> QED
    BY <1>0, <1>1, <1>2, <1>3, <1>4, <1>5, <1>6, <1>7 DEF Next

LEMMA NextTimestepType ==
    ASSUME consumer \in ConsumerRecord, NextTimestep
    PROVE  consumer' \in ConsumerRecord
  <1> DEFINE ok == ValidateAgainstOutputSpec(consumer.active)
             l == consumer.left - 1
             next == [consumer EXCEPT !.left = l]
             end == next.left = 0
             r == IF ok THEN "ok" ELSE "invalid"
             d == IF ~ok /\ end THEN next.dropped + 1 ELSE next.dropped
             o == IF ok /\ end THEN Append(next.delivered, consumer.active)
                  ELSE next.delivered
             y == [next EXCEPT !.pc = "idle", !.result = r, !.dropped = d,
                               !.delivered = o]
  <1>1. consumer' = y
    BY DEF NextTimestep, GetNextTimestep, IsEndOfSample
  <1>2. l \in Int /\ consumer.active \in Nat \cup {NoSample}
    BY DEF ConsumerRecord
  <1> HIDE DEF l, ok
  <1>3. next \in ConsumerRecord
    BY <1>2 DEF ConsumerRecord
  <1> HIDE DEF next, end
  <1>4. r \in {"ok", "invalid"} /\ d \in Nat
    BY <1>3 DEF ConsumerRecord
  <1>5. o \in Seq(Nat \cup {NoSample})
    BY <1>2, <1>3, AppendFacts DEF ConsumerRecord
  <1> HIDE DEF r, d, o
  <1>6. y \in ConsumerRecord
    BY <1>3, <1>4, <1>5 DEF ConsumerRecord
  <1> QED
    BY <1>1, <1>6

LEMMA PopSampleType ==
    ASSUME TypeInv, PopSample
    PROVE  consumer' \in ConsumerRecord
  <1> DEFINE s == Oldest(queue)
             o == Append(consumer.delivered, s)
             d == consumer.dropped + 1
             t == Timesteps
  <1>1. consumer \in ConsumerRecord /\ Capacity \in Nat \ {0}
        /\ queue \in QueueRecord(Capacity)
    BY OptionsFacts DEF TypeInv
  <1>2. s \in Nat \cup {NoSample}
    BY <1>1, PopFacts
  <1>3. \/ consumer' = [consumer EXCEPT !.pc = "emit", !.active = s, !.left = t]
        \/ consumer' = [consumer EXCEPT !.pc = "count", !.delivered = o]
        \/ consumer' = [consumer EXCEPT !.pc = "idle", !.result = "invalid",
                                        !.dropped = d]
    BY DEF PopSample, ActiveSample
  <1> HIDE DEF s
  <1>4. o \in Seq(Nat \cup {NoSample}) /\ d \in Nat
    BY <1>1, <1>2, AppendFacts DEF ConsumerRecord
  <1>5. t \in Int
    BY SamplerAssumption
  <1> HIDE DEF o, d, t
  <1> QED
    BY <1>1, <1>2, <1>3, <1>4, <1>5 DEF ConsumerRecord

LEMMA ConsumerType ==
    ASSUME TypeInv, [Next]_vars
    PROVE  consumer' \in ConsumerRecord
  <1>0. consumer \in ConsumerRecord /\ sampler \in SamplerRecord
    BY DEF TypeInv
  <1>1. CASE NextTimestep
    BY <1>0, <1>1, NextTimestepType
  <1>2. CASE PopSample
    BY <1>2, PopSampleType
  <1>3. CASE ContinueSample \/ StartPop \/ CountTrajectory \/ PopFails
    BY <1>0, <1>3 DEF ContinueSample, StartPop, CountTrajectory, PopFails,
                      ConsumerRecord
  <1>4. CASE PopNextSampleFails
    <2> DEFINE y == WhyClosed
    <2>1. y \in {"out_of_range", "cancelled", "timeout", "internal", "ok"}
      BY <1>0 DEF WhyClosed, SamplerRecord
    <2>2. consumer' = [consumer EXCEPT !.pc = "idle", !.result = y]
      BY <1>4 DEF PopNextSampleFails
    <2> HIDE DEF y
    <2> QED
      BY <1>0, <2>1, <2>2 DEF ConsumerRecord
  <1>5. CASE consumer' = consumer
    BY <1>0, <1>5
  <1>6. ASSUME NEW w \in Workers, WorkerStep(w) PROVE consumer' = consumer
    BY <1>6 DEF WorkerStep, FetchGrpc, FetchLocal, WorkerStops, WorkerStarts,
         WorkerReports, GrpcOpens, GrpcReserves, GrpcCompletes, GrpcWrites,
         GrpcReads, GrpcReadFails, LocalStarts, LocalReserves, LocalSamples,
         LocalTimesOut, LocalFails
  <1>7. ASSUME NEW s \in Streams,
               ServerStep(s) \/ Break(s) \/ TableSamples(s) \/ TableFails(s)
        PROVE  consumer' = consumer
    BY <1>7 DEF ServerStep, ServerReads, ServerReadEnds, ServerWriteDone,
         ServerCancelled, ServerDone, Break, TableSamples, TableFails, React
  <1>8. ASSUME CloserStep \/ CloseSets \/ UNCHANGED vars
        PROVE  consumer' = consumer
    BY <1>8 DEF CloserStep, CloseCancels, CloseEnds, CloseJoins, CloseSets, vars
  <1> QED
    BY <1>1, <1>2, <1>3, <1>4, <1>5, <1>6, <1>7, <1>8 DEF Next, ConsumerStep

CloserRecord == [pc : {"idle", "cancel", "join", "done"}, remaining : SUBSET Workers]

LEMMA CloserAlone ==
    ASSUME [Next]_vars, ~CloserStep, ~CloseSets
    PROVE  closer' = closer
  <1>1. ASSUME NEW w \in Workers, WorkerStep(w) PROVE closer' = closer
    BY <1>1 DEF WorkerStep, FetchGrpc, FetchLocal, WorkerStops, WorkerStarts,
         WorkerReports, GrpcOpens, GrpcReserves, GrpcCompletes, GrpcWrites,
         GrpcReads, GrpcReadFails, LocalStarts, LocalReserves, LocalSamples,
         LocalTimesOut, LocalFails
  <1>2. ASSUME NEW s \in Streams,
               ServerStep(s) \/ Break(s) \/ TableSamples(s) \/ TableFails(s)
        PROVE  closer' = closer
    BY <1>2 DEF ServerStep, ServerReads, ServerReadEnds, ServerWriteDone,
         ServerCancelled, ServerDone, Break, TableSamples, TableFails, React
  <1>3. ASSUME ConsumerStep \/ ContinueSample \/ StartPop \/ UNCHANGED vars
        PROVE  closer' = closer
    BY <1>3 DEF ConsumerStep, NextTimestep, PopSample, CountTrajectory, PopFails,
         PopNextSampleFails, ContinueSample, StartPop, vars
  <1> QED
    BY <1>1, <1>2, <1>3 DEF Next

LEMMA CloserType ==
    ASSUME TypeInv, [Next]_vars
    PROVE  closer' \in CloserRecord
  <1>0. closer \in CloserRecord
    BY DEF TypeInv, CloserRecord
  <1>1. CASE CloserStep \/ CloseSets
    <2>1. ASSUME NEW w \in Workers, CloseCancels(w) PROVE closer' \in CloserRecord
      <3> DEFINE R == closer.remaining \ {w}
      <3>1. R \in SUBSET Workers /\ closer' = [closer EXCEPT !.remaining = R]
        BY <1>0, <2>1 DEF CloseCancels, CloserRecord
      <3> HIDE DEF R
      <3> QED
        BY <1>0, <3>1 DEF CloserRecord
    <2>2. ASSUME CloseEnds \/ CloseJoins \/ CloseSets PROVE closer' \in CloserRecord
      BY <1>0, <2>2 DEF CloseEnds, CloseJoins, CloseSets, CloserRecord
    <2> QED
      BY <1>1, <2>1, <2>2 DEF CloserStep
  <1> QED
    BY <1>0, <1>1, CloserAlone

\* What is drawn stays drawn, and the new samples are all for one worker.
LEMMA DrawnStep ==
    ASSUME TypeInv, [Next]_vars
    PROVE  drawn' \in Seq(Nat \cup {None})
  <1>0. drawn \in Seq(Nat \cup {None})
    BY DEF TypeInv
  <1>1. ASSUME NEW w \in Workers, WorkerStep(w) PROVE drawn' \in Seq(Nat \cup {None})
    <2>1. CASE LocalSamples(w)
      <3>1. PICK n \in 1 .. worker[w].request : Draw(n, w)
        BY <2>1 DEF LocalSamples
      <3>2. n \in Nat /\ w \in Nat
        BY OptionsFacts DEF TypeInv, WorkerRecord
      <3> QED
        BY <3>1, <3>2, DrawFacts
    <2>2. CASE ~LocalSamples(w)
      <3>1. drawn' = drawn
        BY <1>1, <2>2 DEF WorkerStep, FetchGrpc, FetchLocal, WorkerStops,
             WorkerStarts, WorkerReports, GrpcOpens, GrpcReserves, GrpcCompletes,
             GrpcWrites, GrpcReads, GrpcReadFails, LocalStarts, LocalReserves,
             LocalTimesOut, LocalFails
      <3> QED
        BY <1>0, <3>1
    <2> QED
      BY <2>1, <2>2
  <1>2. ASSUME NEW s \in Streams, ServerStep(s) \/ Break(s) \/ TableFails(s)
        PROVE  drawn' = drawn
    BY <1>2 DEF ServerStep, ServerReads, ServerReadEnds, ServerWriteDone,
         ServerCancelled, ServerDone, Break, TableFails, React
  <1>3. ASSUME \/ ConsumerStep \/ ContinueSample \/ StartPop \/ CloserStep
               \/ CloseSets \/ UNCHANGED vars
        PROVE  drawn' = drawn
    BY <1>3 DEF ConsumerStep, NextTimestep, PopSample, CountTrajectory, PopFails,
         PopNextSampleFails, ContinueSample, StartPop, CloserStep, CloseCancels,
         CloseEnds, CloseJoins, CloseSets, vars
  <1> QED
    BY <1>0, <1>1, <1>2, <1>3, TableSamplesStreams DEF Next

LEMMA TypeInvStep == TypeInv /\ [Next]_vars => TypeInv'
  <1> SUFFICES ASSUME TypeInv, [Next]_vars PROVE TypeInv'
    OBVIOUS
  <1>1. options' = options /\ options \in Options
    BY OptionsStep DEF TypeInv
  <1>2. Workers' = Workers /\ Capacity' = Capacity
    BY <1>1 DEF Workers, Capacity
  <1>3. StreamsGoOn
    BY StreamsStep
  <1>4. /\ worker' \in [Workers -> WorkerRecord]
        /\ \A w \in Workers : Placed(worker'[w])
        /\ queue' \in QueueRecord(Capacity)
    <2>0. /\ worker \in [Workers -> WorkerRecord]
          /\ \A w \in Workers : Placed(worker[w])
      BY DEF TypeInv
    <2>1. ASSUME NEW w \in Workers, WorkerStep(w)
          PROVE  /\ worker' \in [Workers -> WorkerRecord]
                 /\ \A v \in Workers : Placed(worker'[v])
                 /\ queue' \in QueueRecord(Capacity)
      <3>1. PICK x : Becomes(w, x) /\ Reserves(w, x)
        BY <2>1, WorkerStepFacts
      <3> QED
        BY <2>0, <3>1 DEF Becomes, Reserves, WorkerOK
    <2>2. ASSUME \A w \in Workers : ~WorkerStep(w)
          PROVE  /\ worker' \in [Workers -> WorkerRecord]
                 /\ \A v \in Workers : Placed(worker'[v])
                 /\ queue' \in QueueRecord(Capacity)
      BY <2>0, <2>2, NotWorkerSteps, OtherSteps DEF QueueGoesOn
    <2> QED
      BY <2>1, <2>2
  <1>5. \A w \in Workers : Placed(worker[w])'
    BY <1>1, <1>4 DEF Placed
  <1>6. sampler' \in SamplerRecord /\ consumer' \in ConsumerRecord
        /\ drawn' \in Seq(Nat \cup {None})
    BY SamplerStep, ConsumerType, DrawnStep
  <1>7. closer' \in CloserRecord
    BY CloserType
  <1> QED
    BY <1>1, <1>2, <1>3, <1>4, <1>5, <1>6, <1>7
       DEF TypeInv, StreamsGoOn, CloserRecord

\* Every variable keeps its type, every worker is at a place that agrees with
\* what it holds (RunWorker and the two FetchSamples), and every reactor has a
\* write in flight exactly while it has something to send.
THEOREM SamplerTypeCorrect == Spec => []TypeInv
  <1>1. Init => TypeInv
    BY InitTypeInv
  <1>2. TypeInv /\ [Next]_vars => TypeInv'
    BY TypeInvStep
  <1> QED
    BY <1>1, <1>2, PTL DEF Spec

\* No CHECK of a reactor fails, a reactor has at most one write in flight, and
\* the response being written is left alone while further samples are packed
\* behind it, whatever the table answers and wherever the stream breaks
\* (ReverbServerReactor, ProcessSample, SamplingDone).
THEOREM WritesSafety == Spec => []WritesAreExclusive
  <1>1. TypeInv => WritesAreExclusive
    <2> SUFFICES ASSUME TypeInv, NEW s \in Streams
                 PROVE  LET r == stream[s].reactor
                        IN  /\ ~r.check_failed /\ r.writes <= 1
                            /\ (r.writes = 1 /\ ~r.is_finished) =>
                                 r.responses # << >> /\ Head(r.responses) = r.sending
      BY DEF WritesAreExclusive
    <2> DEFINE r == stream[s].reactor
    <2>1. Exclusive(r) /\ r \in ReactorRecord
      BY DEF TypeInv, StreamRecord
    <2> HIDE DEF r
    <2>2. r.responses # << >> => Head(r.responses) = r.responses[1]
      BY <2>1, TailFacts DEF ReactorRecord
    <2> QED
      BY <2>1, <2>2 DEF Exclusive, r
  <1> QED
    BY <1>1, SamplerTypeCorrect, PTL

-----------------------------------------------------------------------------
(* The slots of the queue and the slots of the workers. *)

\* f[w] tokens for each w.
TokensOf(f) == UNION {{w} \X (1 .. f[w]) : w \in DOMAIN f}

LEMMA TokensOfOne ==
    ASSUME NEW w, NEW n \in Nat
    PROVE  IsFiniteSet({w} \X (1 .. n)) /\ Cardinality({w} \X (1 .. n)) = n
  <1>1. IsFiniteSet(1 .. n) /\ Cardinality(1 .. n) = n
    <2>1. 1 \in Int /\ n \in Int
      OBVIOUS
    <2>2. /\ IsFiniteSet(1 .. n)
          /\ Cardinality(1 .. n) = IF 1 > n THEN 0 ELSE n - 1 + 1
      BY <2>1, FS_Interval
    <2> QED
      BY <2>2
  <1> DEFINE f == [i \in 1 .. n |-> <<w, i>>]
  <1>2. f \in Bijection(1 .. n, {w} \X (1 .. n))
    <2>1. f \in [1 .. n -> {w} \X (1 .. n)]
      OBVIOUS
    <2>2. \A i, j \in 1 .. n : f[i] = f[j] => i = j
      OBVIOUS
    <2>3. \A x \in {w} \X (1 .. n) : \E i \in 1 .. n : f[i] = x
      OBVIOUS
    <2> QED
      BY <2>1, <2>2, <2>3 DEF Bijection, Injection, Surjection, IsInjective
  <1>3. ExistsBijection(1 .. n, {w} \X (1 .. n))
    BY <1>2 DEF ExistsBijection
  <1> QED
    BY <1>1, <1>3, FS_Bijection

LEMMA TokensFinite ==
    ASSUME NEW W, IsFiniteSet(W), NEW f \in [W -> Nat]
    PROVE  IsFiniteSet(TokensOf(f)) /\ Cardinality(TokensOf(f)) \in Nat
  <1> DEFINE S == {{w} \X (1 .. f[w]) : w \in W}
             g == [w \in W |-> {w} \X (1 .. f[w])]
  <1>1. g \in Surjection(W, S)
    BY DEF Surjection
  <1>2. \A T \in S : IsFiniteSet(T)
    <2> SUFFICES ASSUME NEW T \in S PROVE IsFiniteSet(T)
      OBVIOUS
    <2>1. PICK w \in W : T = {w} \X (1 .. f[w])
      OBVIOUS
    <2>2. f[w] \in Nat
      OBVIOUS
    <2>3. IsFiniteSet({w} \X (1 .. f[w]))
      BY <2>2, TokensOfOne
    <2> QED
      BY <2>1, <2>3
  <1>3. TokensOf(f) = UNION S
    BY DEF TokensOf
  <1> HIDE DEF g, S
  <1>4. IsFiniteSet(S)
    BY <1>1, FS_Surjection
  <1> QED
    BY <1>2, <1>3, <1>4, FS_UNION, FS_CardinalityType

\* The tokens of all but w, and of w.
LEMMA TokensSplit ==
    ASSUME NEW W, IsFiniteSet(W), NEW f \in [W -> Nat], NEW w \in W
    PROVE  LET R == {x \in TokensOf(f) : x[1] # w}
           IN  /\ IsFiniteSet(R) /\ Cardinality(R) \in Nat
               /\ Cardinality(TokensOf(f)) = Cardinality(R) + f[w]
  <1> DEFINE R == {x \in TokensOf(f) : x[1] # w}
             M == {w} \X (1 .. f[w])
  <1>1. TokensOf(f) = R \cup M
    BY DEF TokensOf
  <1>2. R \cap M = {}
    OBVIOUS
  <1>3. IsFiniteSet(TokensOf(f)) /\ R \subseteq TokensOf(f)
    BY TokensFinite
  <1>4. IsFiniteSet(M) /\ Cardinality(M) = f[w] /\ f[w] \in Nat
    BY TokensOfOne
  <1> HIDE DEF R, M
  <1>5. IsFiniteSet(R)
    BY <1>3, FS_Subset
  <1>6. Cardinality(R) \in Nat
    BY <1>5, FS_CardinalityType
  <1>7. Cardinality(R \cup M) = Cardinality(R) + Cardinality(M)
                                    - Cardinality(R \cap M)
    BY <1>4, <1>5, FS_Union
  <1>8. Cardinality(R \cap M) = 0
    BY <1>2, FS_EmptySet
  <1>9. Cardinality(TokensOf(f)) = Cardinality(R) + f[w]
    BY <1>1, <1>4, <1>6, <1>7, <1>8
  <1> QED
    BY <1>5, <1>6, <1>9 DEF R

\* The sum follows the change of one summand.
LEMMA TokensChange ==
    ASSUME NEW W, IsFiniteSet(W), NEW f \in [W -> Nat], NEW w \in W, NEW n \in Nat
    PROVE  Cardinality(TokensOf([f EXCEPT ![w] = n])) =
               Cardinality(TokensOf(f)) + n - f[w]
  <1> DEFINE h == [f EXCEPT ![w] = n]
             R == {x \in TokensOf(f) : x[1] # w}
             Q == {x \in TokensOf(h) : x[1] # w}
  <1>1. h \in [W -> Nat] /\ h[w] = n /\ f[w] \in Nat
    OBVIOUS
  <1>2. \A v \in W : v # w => h[v] = f[v]
    OBVIOUS
  <1>3. R = Q
    <2>1. R = {x \in UNION {{v} \X (1 .. f[v]) : v \in W} : x[1] # w}
      BY DEF TokensOf
    <2>2. Q = {x \in UNION {{v} \X (1 .. h[v]) : v \in W} : x[1] # w}
      BY DEF TokensOf
    <2> HIDE DEF R, Q, h
    <2>3. R \subseteq Q
      BY <1>2, <2>1, <2>2
    <2>4. Q \subseteq R
      BY <1>2, <2>1, <2>2
    <2> QED
      BY <2>3, <2>4
  <1> HIDE DEF h
  <1>4. /\ Cardinality(R) \in Nat
        /\ Cardinality(TokensOf(f)) = Cardinality(R) + f[w]
    BY TokensSplit
  <1>5. Cardinality(TokensOf(h)) = Cardinality(Q) + n
    BY <1>1, TokensSplit
  <1> HIDE DEF R, Q
  <1> QED
    BY <1>1, <1>3, <1>4, <1>5 DEF h

Slots == [w \in Workers |-> worker[w].reserved_slots]

LEMMA SlotsTotal == Total(LAMBDA w : worker[w].reserved_slots)
                        = Cardinality(TokensOf(Slots))
  BY DEF Total, Tokens, TokensOf, Slots

LEMMA ReservationsStep ==
    TypeInv /\ ReservationsMatch /\ [Next]_vars => ReservationsMatch'
  <1> SUFFICES ASSUME TypeInv, ReservationsMatch, [Next]_vars, ~queue'.closed
               PROVE  /\ queue'.reserved =
                             Total(LAMBDA w : worker[w].reserved_slots)'
                      /\ QueueSize(queue') + queue'.reserved <= queue'.capacity
    BY DEF ReservationsMatch
  <1> DEFINE W == Workers
             c == Capacity
             C == Cardinality(TokensOf(Slots))
             D == Cardinality(TokensOf(Slots'))
  <1>1. options' = options /\ Workers' = W
    BY OptionsStep DEF Workers
  <1>2. Total(LAMBDA w : worker[w].reserved_slots)' = D
    BY DEF Total, Tokens, TokensOf, Slots
  <1>3. /\ IsFiniteSet(W) /\ queue \in QueueRecord(c) /\ c \in Nat
        /\ worker \in [W -> WorkerRecord]
    BY OptionsFacts DEF TypeInv
  <1>4. Slots \in [W -> Nat]
    BY <1>3 DEF Slots, WorkerRecord
  <1>5. C \in Nat
    BY <1>3, <1>4, TokensFinite
  <1>6. /\ queue.capacity = c /\ queue.reserved \in Int
        /\ queue.pushes \in Nat /\ queue.pops \in Nat
    BY <1>3 DEF QueueRecord
  <1>7. ~queue.closed => /\ queue.reserved = C
                         /\ QueueSize(queue) + queue.reserved <= c
    BY <1>6, SlotsTotal DEF ReservationsMatch
  <1>8. queue' \in QueueRecord(c) => queue'.capacity = c /\ queue'.pushes \in Nat
                                     /\ queue'.pops \in Nat /\ queue'.reserved \in Int
    BY DEF QueueRecord
  <1> HIDE DEF W, c, C, D
  <1>9. CASE \E w \in Workers : WorkerStep(w)
    <2>1. PICK w \in Workers : WorkerStep(w)
      BY <1>9
    <2>2. PICK x : Becomes(w, x) /\ Reserves(w, x)
      BY <2>1, WorkerStepFacts
    <2>3. x \in WorkerRecord /\ worker[w] \in WorkerRecord /\ w \in W
      BY <1>3, <2>2 DEF Becomes, WorkerOK, W
    <2>4. x.reserved_slots \in Nat /\ worker[w].reserved_slots \in Nat
      BY <2>3 DEF WorkerRecord
    <2>5. Slots' = [Slots EXCEPT ![w] = x.reserved_slots]
      BY <1>1, <1>3, <2>2, <2>3 DEF Becomes, Slots, W
    <2>6. Slots[w] = worker[w].reserved_slots
      BY <2>3 DEF Slots, W
    <2>7. D = C + x.reserved_slots - worker[w].reserved_slots
      <3> DEFINE n == x.reserved_slots
                 f == Slots
      <3>1. Cardinality(TokensOf([f EXCEPT ![w] = n])) =
                Cardinality(TokensOf(f)) + n - f[w]
        <4> HIDE DEF n, f
        <4> QED
          BY <1>3, <1>4, <2>3, <2>4, TokensChange DEF n, f
      <3> QED
        BY <2>5, <2>6, <3>1 DEF C, D
    <2>8. /\ ~queue.closed /\ queue' \in QueueRecord(c)
          /\ queue'.reserved = queue.reserved + x.reserved_slots
                                   - worker[w].reserved_slots
          /\ \/ QueueSize(queue') + queue'.reserved = QueueSize(queue) + queue.reserved
             \/ QueueSize(queue') + queue'.reserved <= c
      BY <2>2 DEF Reserves, c
    <2>9. queue'.reserved = D
      BY <1>7, <2>7, <2>8
    <2>10. QueueSize(queue') + queue'.reserved <= c
      BY <1>7, <2>8
    <2> QED
      BY <1>2, <1>8, <2>8, <2>9, <2>10
  <1>10. CASE \A w \in Workers : ~WorkerStep(w)
    <2>1. QueueGoesOn /\ (worker' = worker \/ \E w \in Workers : CloseCancels(w))
      BY <1>10, NotWorkerSteps
    <2>2. Slots' = Slots
      BY <1>1, <2>1, OtherSteps DEF Slots, W
    <2>3. D = C
      BY <2>2 DEF C, D
    <2>4. /\ queue' \in QueueRecord(c) /\ ~queue.closed
          /\ queue'.reserved = queue.reserved
          /\ QueueSize(queue') <= QueueSize(queue)
      BY <2>1 DEF QueueGoesOn, c
    <2>5. QueueSize(queue') + queue'.reserved <= c
      BY <1>3, <1>6, <1>7, <1>8, <2>4 DEF QueueSize
    <2> QED
      BY <1>2, <1>7, <1>8, <2>3, <2>4, <2>5
  <1> QED
    BY <1>9, <1>10

LEMMA ReservationsInit == Init => ReservationsMatch
  <1> SUFFICES ASSUME Init
               PROVE  /\ queue.reserved = Total(LAMBDA w : worker[w].reserved_slots)
                      /\ QueueSize(queue) + queue.reserved <= queue.capacity
    BY DEF ReservationsMatch
  <1>1. TokensOf(Slots) = {}
    BY DEF TokensOf, Slots, Init, NewWorker
  <1>2. Cardinality(TokensOf(Slots)) = 0
    BY <1>1, FS_EmptySet
  <1>3. Capacity \in Nat
    BY OptionsFacts DEF Init
  <1>4. /\ queue.reserved = 0 /\ queue.pushes = 0 /\ queue.pops = 0
        /\ queue.capacity = Capacity
    BY DEF Init, EmptyQueue, Capacity
  <1> QED
    BY <1>2, <1>3, <1>4, SlotsTotal DEF QueueSize

\* While the queue is open its reserved slots are exactly the ones that the
\* workers carry over from one request to the next, and with the samples in the
\* queue they never exceed its capacity: whatever streams break, time out or
\* answer with less than was asked for, no push overwrites a sample that has not
\* been popped (Queue::Reserve and PushBatch, called by FetchSamples).
THEOREM ReservationsSafety == Spec => []ReservationsMatch
  <1>1. Init => ReservationsMatch
    BY ReservationsInit
  <1>2. TypeInv /\ ReservationsMatch /\ [Next]_vars => ReservationsMatch'
    BY ReservationsStep
  <1> QED
    BY <1>1, <1>2, SamplerTypeCorrect, PTL DEF Spec

-----------------------------------------------------------------------------
(* Close. *)

\* What Close has reached so far.
CloseInv ==
    /\ closer.pc # "idle" => sampler.closed
    /\ closer.pc \in {"join", "done"} => queue.closed /\ closer.remaining = {}
    /\ \A w \in Workers : w \notin closer.remaining => worker[w].closed
    /\ \A w \in Workers : worker[w].closed /\ worker[w].stream \in Streams =>
                              stream[worker[w].stream].ended # "no"

LEMMA CloseStep == TypeInv /\ CloseInv /\ [Next]_vars => CloseInv'
  <1> SUFFICES ASSUME TypeInv, CloseInv, [Next]_vars PROVE CloseInv'
    OBVIOUS
  <1>1. Workers' = Workers
    BY OptionsStep DEF Workers
  <1>2. /\ \A s \in Streams : stream[s].ended # "no" => stream'[s].ended # "no"
        /\ sampler.closed => sampler'.closed
    BY StreamsStep, SamplerStep DEF StreamsGoOn
  <1>3. worker \in [Workers -> WorkerRecord] /\ closer \in CloserRecord
    BY DEF TypeInv, CloserRecord
  <1>4. CASE \E w \in Workers : WorkerStep(w)
    <2>1. PICK w \in Workers : WorkerStep(w)
      BY <1>4
    <2>2. PICK x : Becomes(w, x) /\ Reserves(w, x)
      BY <2>1, WorkerStepFacts
    <2>3. closer' = closer
      BY <2>1 DEF WorkerStep, FetchGrpc, FetchLocal, WorkerStops, WorkerStarts,
         WorkerReports, GrpcOpens, GrpcReserves, GrpcCompletes, GrpcWrites,
         GrpcReads, GrpcReadFails, LocalStarts, LocalReserves, LocalSamples,
         LocalTimesOut, LocalFails
    <2>4. /\ worker' = [worker EXCEPT ![w] = x] /\ x.closed = worker[w].closed
          /\ x.stream = worker[w].stream \/ ~x.closed
          /\ queue.closed => queue'.closed
      BY <2>2 DEF Becomes, Reserves
    <2>5. /\ worker'[w] = x
          /\ \A v \in Workers : v # w => worker'[v] = worker[v]
      BY <1>3, <2>4
    <2>6. \A v \in Workers :
             /\ worker'[v].closed = worker[v].closed
             /\ worker'[v].stream = worker[v].stream \/ ~worker'[v].closed
      BY <2>4, <2>5
    <2>7. /\ closer'.pc # "idle" => sampler'.closed
          /\ closer'.pc \in {"join", "done"} => queue'.closed /\ closer'.remaining = {}
      BY <1>2, <2>3, <2>4 DEF CloseInv
    <2>8. \A v \in Workers : v \notin closer'.remaining => worker'[v].closed
      BY <2>3, <2>6 DEF CloseInv
    <2>9. \A v \in Workers : worker'[v].closed /\ worker'[v].stream \in Streams =>
                                 stream'[worker'[v].stream].ended # "no"
      BY <1>2, <2>6 DEF CloseInv
    <2> QED
      BY <1>1, <2>7, <2>8, <2>9 DEF CloseInv
  <1>5. CASE \A w \in Workers : ~WorkerStep(w)
    <2>1. /\ queue.closed => queue'.closed
          /\ worker' = worker \/ \E w \in Workers : CloseCancels(w)
      BY <1>5, NotWorkerSteps DEF QueueGoesOn
    <2>2. ASSUME NEW w \in Workers, CloseCancels(w) PROVE CloseInv'
      <3>1. /\ worker'[w].closed
            /\ \A v \in Workers : /\ worker'[v].stream = worker[v].stream
                                  /\ v # w => worker'[v] = worker[v]
        BY <2>2, OtherSteps
      <3>2. worker[w].stream \in Streams => stream'[worker[w].stream].ended # "no"
        BY <2>2, CloseCancelsStreams
      <3>3. /\ closer.pc = "cancel" /\ closer'.pc = "cancel"
            /\ closer'.remaining = closer.remaining \ {w}
        BY <1>3, <2>2 DEF CloseCancels, CloserRecord
      <3>4. sampler'.closed
        BY <1>2, <3>3 DEF CloseInv
      <3>5. \A v \in Workers : v \notin closer'.remaining => worker'[v].closed
        BY <3>1, <3>3 DEF CloseInv
      <3>6. ASSUME NEW v \in Workers, worker'[v].closed, worker'[v].stream \in Streams
            PROVE  stream'[worker'[v].stream].ended # "no"
        <4>1. CASE v = w
          BY <3>1, <3>2, <3>6, <4>1
        <4>2. CASE v # w
          <5>1. worker'[v] = worker[v]
            BY <3>1, <4>2
          <5> QED
            BY <1>2, <3>6, <5>1 DEF CloseInv
        <4> QED
          BY <4>1, <4>2
      <3> QED
        BY <1>1, <3>3, <3>4, <3>5, <3>6 DEF CloseInv
    <2>3. ASSUME worker' = worker, CloseEnds \/ CloseJoins \/ CloseSets
          PROVE  CloseInv'
      <3>1. /\ closer'.remaining = closer.remaining
            /\ closer'.pc # "idle" => sampler'.closed
        BY <1>2, <1>3, <2>3 DEF CloseEnds, CloseJoins, CloseSets, CloserRecord,
                                CloseInv, TypeInv, SamplerRecord
      <3>2. closer'.pc \in {"join", "done"} => queue'.closed /\ closer'.remaining = {}
        <4>1. CASE CloseEnds
          <5>1. queue' = CloseQueue(queue) /\ closer.remaining = {}
            BY <4>1 DEF CloseEnds
          <5>2. queue'.closed
            BY <5>1, CloseFacts, OptionsFacts DEF TypeInv
          <5> QED
            BY <3>1, <5>1, <5>2
        <4>2. CASE CloseJoins
          BY <2>1, <3>1, <4>2 DEF CloseJoins, CloseInv
        <4>3. CASE CloseSets
          BY <1>3, <4>3 DEF CloseSets, CloserRecord
        <4> QED
          BY <2>3, <4>1, <4>2, <4>3
      <3>3. \A v \in Workers : v \notin closer'.remaining => worker'[v].closed
        BY <2>3, <3>1 DEF CloseInv
      <3>4. \A v \in Workers : worker'[v].closed /\ worker'[v].stream \in Streams =>
                                   stream'[worker'[v].stream].ended # "no"
        BY <1>2, <2>3 DEF CloseInv
      <3> QED
        BY <1>1, <3>1, <3>2, <3>3, <3>4 DEF CloseInv
    <2>4. ASSUME worker' = worker, closer' = closer PROVE CloseInv'
      <3>1. /\ closer'.pc # "idle" => sampler'.closed
            /\ closer'.pc \in {"join", "done"} =>
                   queue'.closed /\ closer'.remaining = {}
        BY <1>2, <2>1, <2>4 DEF CloseInv
      <3>2. \A v \in Workers : v \notin closer'.remaining => worker'[v].closed
        BY <2>4 DEF CloseInv
      <3>3. \A v \in Workers : worker'[v].closed /\ worker'[v].stream \in Streams =>
                                   stream'[worker'[v].stream].ended # "no"
        BY <1>2, <2>4 DEF CloseInv
      <3> QED
        BY <1>1, <3>1, <3>2, <3>3 DEF CloseInv
    <2> QED
      BY <2>1, <2>2, <2>3, <2>4, CloserAlone DEF CloserStep
  <1> QED
    BY <1>4, <1>5

LEMMA CloseInit == Init => CloseInv
  <1> SUFFICES ASSUME Init PROVE CloseInv
    OBVIOUS
  <1>1. closer.pc = "idle" /\ closer.remaining = Workers
    BY DEF Init
  <1>2. \A w \in Workers : worker[w].closed = FALSE
    BY DEF Init, NewWorker
  <1> QED
    BY <1>1, <1>2 DEF CloseInv

\* When Close joins the workers it has cancelled each of them, and with it the
\* stream that the worker reads from; the queue is closed and closed_ is set, so
\* none of them is left waiting (Sampler::Close, Cancel, RunWorker,
\* FetchSamples).
THEOREM CloseSafety == Spec => []CloseReachesEveryWorker
  <1>1. Init => CloseInv
    BY CloseInit
  <1>2. TypeInv /\ CloseInv /\ [Next]_vars => CloseInv'
    BY CloseStep
  <1>3. TypeInv /\ CloseInv => CloseReachesEveryWorker
    <2> SUFFICES ASSUME TypeInv, CloseInv, closer.pc = "join", NEW w \in Workers
                 PROVE  /\ worker[w].pc = "read" => HasEnded(stream[worker[w].stream])
                        /\ worker[w].pc = "fetch" => Cancelled(w) \/ worker[w].got > 0
                        /\ worker[w].pc = "reserve" => queue.closed
                        /\ worker[w].pc = "idle" => ShouldStopWorkers
      BY DEF CloseReachesEveryWorker
    <2>1. /\ sampler.closed /\ queue.closed /\ worker[w].closed
          /\ worker[w].stream \in Streams => stream[worker[w].stream].ended # "no"
      BY DEF CloseInv
    <2>2. worker[w].pc = "read" => worker[w].stream \in Streams
      BY DEF TypeInv, Placed
    <2> QED
      BY <2>1, <2>2 DEF HasEnded, Cancelled, ShouldStopWorkers
  <1> QED
    BY <1>1, <1>2, <1>3, SamplerTypeCorrect, PTL DEF Spec

-----------------------------------------------------------------------------
(* Part 2. Order, and the refinement of SampleSource. *)

-----------------------------------------------------------------------------
(* The order invariant. *)

\* The entries of a sequence of responses, and of all but the first of them.
Flat(rs) == UNION {{rs[m][j] : j \in 1 .. Len(rs[m])} : m \in 1 .. Len(rs)}
Later(rs) == UNION {{rs[m][j] : j \in 1 .. Len(rs[m])} : m \in 2 .. Len(rs)}
Elements(seq) == {seq[i] : i \in 1 .. Len(seq)}

\* The entries that a client can still read.  The first response to send is on
\* the wire or has been read, since a write is in flight.
Ahead(r) == Flat(r.wire) \cup Later(r.responses)
Entries(r) == Flat(r.wire) \cup Flat(r.responses)

Ordered(r) ==
    /\ Sorted(r.wire) /\ Sorted(r.responses)
    /\ \A e \in Flat(r.wire), f \in Later(r.responses) : Before(e, f)

\* What worker w can still read from its stream.
Line(w) ==
    IF worker[w].stream \in Streams /\ stream[worker[w].stream].ended = "no"
    THEN Ahead(stream[worker[w].stream].reactor) ELSE {}

\* A sample that was drawn for w.
Owned(x, w) == x \in 1 .. Len(drawn) /\ drawn[x] = w

\* Worker and stream belong to each other, and a stream without a worker has
\* not been touched.
Linked ==
    /\ \A w \in Workers : worker[w].stream \in Streams =>
                              /\ stream[worker[w].stream].worker = w
                              /\ options.kind = "grpc"
    /\ \A s \in Streams : stream[s].worker = None => stream[s] = UnusedStream

StreamsOrdered ==
    \A s \in Streams :
        LET st == stream[s]
        IN  /\ Ordered(st.reactor)
            /\ \A e \in Entries(st.reactor) : Owned(e.sample, st.worker)
            /\ st.ended # "no" => st.reactor.wire = << >>

PartsOrdered ==
    \A w \in Workers :
        /\ worker[w].parts # << >> => worker[w].pc = "read"
        /\ \A e \in Elements(worker[w].parts) :
              /\ Owned(e.sample, w)
              /\ \A f \in Line(w) : Before(e, f)

\* The samples in the queue, by their numbers in the order of pushing.
Slot(q, i) == q.buffer[i % q.capacity]
Queued(q) == q.pops .. q.pushes - 1

\* The samples that have been taken out of the queue: delivered ones, and the
\* active one.
Issued == Elements(consumer.delivered)
              \cup (IF consumer.left > 0 THEN {consumer.active} ELSE {})

\* Sample x is of another worker than y, or before it.
Precedes(x, y) == drawn[x] = drawn[y] => x < y

\* Nothing that the owner of x will push comes before x.
Passed(x) ==
    /\ x \in 1 .. Len(drawn)
    /\ \A w \in Workers : drawn[x] = w =>
          \A f \in Elements(worker[w].parts) \cup Line(w) : x < f.sample

QueueOrdered ==
    ~queue.closed =>
        /\ queue.pops <= queue.pushes
        /\ \A i \in Queued(queue) : Passed(Slot(queue, i))
        /\ \A i, j \in Queued(queue) :
              i < j => Precedes(Slot(queue, i), Slot(queue, j))
        /\ \A x \in Issued : \A i \in Queued(queue) : Precedes(x, Slot(queue, i))

OutOrdered ==
    /\ \A x \in Issued : Passed(x)
    /\ \A i, j \in 1 .. Len(consumer.delivered) :
          i < j => Precedes(consumer.delivered[i], consumer.delivered[j])
    /\ consumer.left > 0 =>
          \A i \in 1 .. Len(consumer.delivered) :
              Precedes(consumer.delivered[i], consumer.active)

\* What the consumer holds at each of its places.
ConsumerPlaced ==
    /\ consumer.left \in Nat
    /\ consumer.pc = "emit" => consumer.left > 0
    /\ consumer.pc \in {"pop", "count", "failed"} => consumer.left = 0
    /\ options.call = "trajectory" => consumer.left = 0

OrderInv ==
    /\ \A i \in 1 .. Len(drawn) : i \in Samples
    /\ Linked /\ StreamsOrdered /\ PartsOrdered
    /\ QueueOrdered /\ OutOrdered /\ ConsumerPlaced

\* The budget of the consumer, and why the queue is closed.
CountInv ==
    /\ Len(consumer.delivered) =
           sampler.returned + (IF consumer.pc = "count" THEN 1 ELSE 0)
    /\ sampler.returned <= MaxSamples
    /\ sampler.returned = MaxSamples =>
           queue.closed /\ consumer.left = 0 /\ consumer.pc # "count"
    /\ consumer.pc = "failed" => queue.closed
    /\ queue.closed => \/ sampler.returned = MaxSamples \/ sampler.closed
                       \/ sampler.worker_status # "ok"

-----------------------------------------------------------------------------
(* What the methods of a reactor do to the entries that it will send. *)

New(lo, hi) == {e \in Entry : lo < e.sample /\ e.sample <= hi}

\* q is in order, and holds nothing but what r holds and new samples.
Advances(r, q, lo, hi) ==
    /\ Ordered(q)
    /\ Ahead(q) \subseteq Ahead(r) \cup New(lo, hi)
    /\ Entries(q) \subseteq Entries(r) \cup New(lo, hi)

LEMMA EmptyFacts ==
    /\ Flat(<< >>) = {} /\ Later(<< >>) = {} /\ Sorted(<< >>)
    /\ Elements(<< >>) = {}
  BY DEF Flat, Later, Sorted, Elements

LEMMA LaterFlat ==
    ASSUME NEW rs
    PROVE  Later(rs) \subseteq Flat(rs)
  <1> SUFFICES ASSUME NEW e \in Later(rs) PROVE e \in Flat(rs)
    OBVIOUS
  <1>1. PICK m \in 2 .. Len(rs) : e \in {rs[m][j] : j \in 1 .. Len(rs[m])}
    BY DEF Later
  <1>2. m \in 1 .. Len(rs)
    OBVIOUS
  <1> QED
    BY <1>1, <1>2 DEF Flat

\* An element of a response of a chain is an entry of the chain.
LEMMA FlatMember ==
    ASSUME NEW rs, NEW m \in 1 .. Len(rs), NEW j \in 1 .. Len(rs[m])
    PROVE  /\ rs[m][j] \in Flat(rs)
           /\ m # 1 => rs[m][j] \in Later(rs)
  <1> DEFINE row == {rs[m][i] : i \in 1 .. Len(rs[m])}
  <1>1. rs[m][j] \in row
    OBVIOUS
  <1>2. row \in {{rs[k][i] : i \in 1 .. Len(rs[k])} : k \in 1 .. Len(rs)}
    OBVIOUS
  <1>3. ASSUME m # 1
        PROVE  row \in {{rs[k][i] : i \in 1 .. Len(rs[k])} : k \in 2 .. Len(rs)}
    <2>1. m \in 2 .. Len(rs)
      BY <1>3
    <2> QED
      BY <2>1
  <1> HIDE DEF row
  <1> QED
    BY <1>1, <1>2, <1>3 DEF Flat, Later

LEMMA HeadFlat ==
    ASSUME NEW rs, Len(rs) \in Nat \ {0}
    PROVE  Elements(rs[1]) \subseteq Flat(rs)
  <1>1. 1 \in 1 .. Len(rs)
    OBVIOUS
  <1> SUFFICES ASSUME NEW j \in 1 .. Len(rs[1]) PROVE rs[1][j] \in Flat(rs)
    BY DEF Elements
  <1> QED
    BY <1>1, FlatMember

LEMMA SortedHead ==
    ASSUME NEW rs, Sorted(rs), 1 \in 1 .. Len(rs)
    PROVE  \A i, j \in 1 .. Len(rs[1]) : i < j => Before(rs[1][i], rs[1][j])
  BY DEF Sorted

LEMMA AppendFlat ==
    ASSUME NEW rs \in Seq(Response), NEW x \in Response
    PROVE  Flat(Append(rs, x)) = Flat(rs) \cup Elements(x)
  <1> DEFINE n == Len(rs)
             a == Append(rs, x)
  <1>1. /\ Len(a) = n + 1 /\ n \in Nat /\ a[n + 1] = x
        /\ \A i \in 1 .. n : a[i] = rs[i]
    BY AppendFacts
  <1> HIDE DEF a, n
  <1>2. Flat(a) \subseteq Flat(rs) \cup Elements(x)
    <2> SUFFICES ASSUME NEW e \in Flat(a) PROVE e \in Flat(rs) \cup Elements(x)
      OBVIOUS
    <2>1. PICK m \in 1 .. Len(a) : \E j \in 1 .. Len(a[m]) : e = a[m][j]
      BY DEF Flat
    <2>2. CASE m = n + 1
      BY <1>1, <2>1, <2>2 DEF Elements
    <2>3. CASE m # n + 1
      <3>1. m \in 1 .. n /\ a[m] = rs[m]
        BY <1>1, <2>3
      <3> QED
        BY <2>1, <3>1 DEF Flat, n
    <2> QED
      BY <2>2, <2>3
  <1>3. Flat(rs) \subseteq Flat(a)
    <2> SUFFICES ASSUME NEW e \in Flat(rs) PROVE e \in Flat(a)
      OBVIOUS
    <2>1. PICK m \in 1 .. n : \E j \in 1 .. Len(rs[m]) : e = rs[m][j]
      BY DEF Flat, n
    <2>2. m \in 1 .. Len(a) /\ a[m] = rs[m]
      BY <1>1
    <2> QED
      BY <2>1, <2>2 DEF Flat
  <1>4. Elements(x) \subseteq Flat(a)
    <2> SUFFICES ASSUME NEW e \in Elements(x) PROVE e \in Flat(a)
      OBVIOUS
    <2>1. n + 1 \in 1 .. Len(a)
      BY <1>1
    <2> QED
      BY <1>1, <2>1 DEF Flat, Elements
  <1> QED
    BY <1>2, <1>3, <1>4 DEF a

\* A response that comes after everything before it.
LEMMA AppendSorted ==
    ASSUME NEW rs \in Seq(Response), NEW x \in Response, Sorted(rs),
           \A e \in Flat(rs), f \in Elements(x) : Before(e, f),
           \A i, j \in 1 .. Len(x) : i < j => Before(x[i], x[j])
    PROVE  Sorted(Append(rs, x))
  <1> DEFINE n == Len(rs)
             a == Append(rs, x)
  <1>1. /\ Len(a) = n + 1 /\ n \in Nat /\ a[n + 1] = x
        /\ \A i \in 1 .. n : a[i] = rs[i]
    BY AppendFacts
  <1> HIDE DEF a, n
  <1> SUFFICES ASSUME NEW m \in 1 .. Len(a), NEW k \in 1 .. Len(a),
                      NEW i \in 1 .. Len(a[m]), NEW j \in 1 .. Len(a[k]),
                      m < k \/ (m = k /\ i < j)
               PROVE  Before(a[m][i], a[k][j])
    BY DEF Sorted, a
  <1>2. CASE k \in 1 .. n
    <2>1. m \in 1 .. n /\ a[m] = rs[m] /\ a[k] = rs[k]
      BY <1>1, <1>2
    <2> QED
      BY <1>2, <2>1 DEF Sorted, n
  <1>3. CASE k = n + 1 /\ m = n + 1
    BY <1>1, <1>3
  <1>4. CASE k = n + 1 /\ m \in 1 .. n
    <2>1. a[m] = rs[m] /\ a[k] = x
      BY <1>1, <1>4
    <2>2. a[m][i] \in Flat(rs) /\ a[k][j] \in Elements(x)
      BY <1>4, <2>1 DEF Flat, Elements, n
    <2> QED
      BY <2>2
  <1> QED
    BY <1>1, <1>2, <1>3, <1>4

\* Without the first response.
LEMMA TailFlat ==
    ASSUME NEW rs \in Seq(Response), rs # << >>
    PROVE  /\ Flat(Tail(rs)) \subseteq Later(rs)
           /\ Later(Tail(rs)) \subseteq Later(rs)
           /\ Sorted(rs) => Sorted(Tail(rs))
           /\ Flat(Tail(rs)) \subseteq Flat(rs)
  <1> DEFINE t == Tail(rs)
             n == Len(rs)
  <1>1. /\ t \in Seq(Response) /\ Len(t) = n - 1 /\ n \in Nat \ {0}
        /\ \A i \in 1 .. Len(t) : t[i] = rs[i + 1]
    BY TailFacts
  <1> HIDE DEF t, n
  <1>2. Flat(t) \subseteq Later(rs)
    <2> SUFFICES ASSUME NEW e \in Flat(t) PROVE e \in Later(rs)
      OBVIOUS
    <2>1. PICK m \in 1 .. Len(t) : \E j \in 1 .. Len(t[m]) : e = t[m][j]
      BY DEF Flat
    <2>2. m + 1 \in 2 .. n /\ t[m] = rs[m + 1]
      BY <1>1
    <2> QED
      BY <2>1, <2>2 DEF Later, n
  <1>3. Later(t) \subseteq Flat(t) /\ Later(rs) \subseteq Flat(rs)
    BY LaterFlat
  <1>4. ASSUME Sorted(rs) PROVE Sorted(t)
    <2> SUFFICES ASSUME NEW m \in 1 .. Len(t), NEW k \in 1 .. Len(t),
                        NEW i \in 1 .. Len(t[m]), NEW j \in 1 .. Len(t[k]),
                        m < k \/ (m = k /\ i < j)
                 PROVE  Before(t[m][i], t[k][j])
      BY DEF Sorted
    <2>1. /\ m + 1 \in 1 .. n /\ k + 1 \in 1 .. n
          /\ t[m] = rs[m + 1] /\ t[k] = rs[k + 1]
          /\ m + 1 < k + 1 \/ (m + 1 = k + 1 /\ i < j)
      BY <1>1
    <2> QED
      BY <1>4, <2>1 DEF Sorted, n
  <1> QED
    BY <1>2, <1>3, <1>4 DEF t

\* Methods that neither pack nor send.
LEMMA QuietAdvances ==
    ASSUME NEW r, NEW q, Ordered(r), NEW lo, NEW hi,
           q.wire = r.wire \/ q.wire = << >>,
           q.responses = r.responses \/ q.responses = << >>
    PROVE  Advances(r, q, lo, hi)
  <1>1. /\ Flat(q.wire) \subseteq Flat(r.wire)
        /\ Flat(q.responses) \subseteq Flat(r.responses)
        /\ Later(q.responses) \subseteq Later(r.responses)
        /\ Sorted(q.wire) /\ Sorted(q.responses)
    BY EmptyFacts DEF Ordered
  <1>2. Ordered(q)
    BY <1>1 DEF Ordered
  <1> QED
    BY <1>1, <1>2 DEF Advances, Ahead, Entries

LEMMA AdvancesThenQuiet ==
    ASSUME NEW r, NEW q, NEW u, NEW lo, NEW hi, Advances(r, q, lo, hi),
           u.wire = q.wire \/ u.wire = << >>,
           u.responses = q.responses \/ u.responses = << >>
    PROVE  Advances(r, u, lo, hi)
  <1>1. Ordered(q)
    BY DEF Advances
  <1>2. Advances(q, u, lo, hi)
    BY <1>1, QuietAdvances
  <1> QED
    BY <1>2 DEF Advances

\* q sends what r sends, or nothing more.
Quiet(r, q) ==
    /\ q.wire = r.wire \/ q.wire = << >>
    /\ q.responses = r.responses \/ q.responses = << >>

LEMMA QuietMethods ==
    ASSUME NEW r \in ReactorRecord, NEW status
    PROVE  /\ MaybeStartRead(r).wire = r.wire
           /\ MaybeStartRead(r).responses = r.responses
           /\ MaybeStartSampling(r).wire = r.wire
           /\ MaybeStartSampling(r).responses = r.responses
           /\ SetReactorAsFinished(r, status).wire = r.wire
           /\ SetReactorAsFinished(r, status).responses = << >>
  <1>1. /\ MaybeStartRead(r).wire = r.wire
        /\ MaybeStartRead(r).responses = r.responses
    BY DEF MaybeStartRead, ReactorRecord
  <1>2. /\ MaybeStartSampling(r).wire = r.wire
        /\ MaybeStartSampling(r).responses = r.responses
    BY DEF MaybeStartSampling, ReactorRecord
  <1>3. /\ SetReactorAsFinished(r, status).wire = r.wire
        /\ SetReactorAsFinished(r, status).responses = << >>
    BY DEF SetReactorAsFinished, ReactorRecord
  <1> QED
    BY <1>1, <1>2, <1>3

LEMMA ReadEndQuiet ==
    ASSUME NEW r \in ReactorRecord
    PROVE  Quiet(r, OnReadEnd(r))
  <1> DEFINE s == [r EXCEPT !.read_in_flight = FALSE, !.still_reading = FALSE]
  <1>1. s \in ReactorRecord /\ s.wire = r.wire /\ s.responses = r.responses
    BY DEF ReactorRecord
  <1>2. OnReadEnd(r) = s \/ OnReadEnd(r) = SetReactorAsFinished(s, "ok")
    BY DEF OnReadEnd
  <1> HIDE DEF s
  <1> QED
    BY <1>1, <1>2, QuietMethods DEF Quiet

LEMMA ReadDoneQuiet ==
    ASSUME NEW r \in ReactorRecord, NEW n \in Nat
    PROVE  Quiet(r, OnReadDone(r, ProcessSampleRequest(HasRead(r), n)))
  <1> DEFINE z == 0
             a == [r EXCEPT !.read_in_flight = FALSE]
             s == [a EXCEPT !.fetched = z, !.requested = n]
  <1>1. ProcessSampleRequest(HasRead(r), n) = MaybeStartSampling(s)
    BY DEF ProcessSampleRequest, HasRead
  <1>2. z \in Int /\ n \in Int
    OBVIOUS
  <1>3. a \in ReactorRecord /\ a.wire = r.wire /\ a.responses = r.responses
    BY DEF ReactorRecord
  <1> HIDE DEF a, z
  <1>4. s \in ReactorRecord /\ s.wire = a.wire /\ s.responses = a.responses
    BY <1>2, <1>3 DEF ReactorRecord
  <1> HIDE DEF s
  <1>5. Quiet(r, MaybeStartSampling(s))
    BY <1>3, <1>4, QuietMethods DEF Quiet
  <1> QED
    BY <1>1, <1>5, ReadEndQuiet DEF OnReadDone

LEMMA CancelQuiet ==
    ASSUME NEW r \in ReactorRecord
    PROVE  Quiet(r, OnCancel(r))
  <1> DEFINE s == [r EXCEPT !.still_reading = FALSE]
  <1>1. s \in ReactorRecord /\ s.wire = r.wire /\ s.responses = r.responses
    BY DEF ReactorRecord
  <1>2. OnCancel(r) = s \/ OnCancel(r) = SetReactorAsFinished(s, "internal")
    BY DEF OnCancel
  <1> HIDE DEF s
  <1> QED
    BY <1>1, <1>2, QuietMethods DEF Quiet

LEMMA SamplingFailedQuiet ==
    ASSUME NEW r \in ReactorRecord, NEW status
    PROVE  Quiet(r, SamplingFailed(r, status))
  <1> DEFINE z == 0
             s == [r EXCEPT !.waiting = FALSE, !.enqueued = z]
  <1>1. SamplingFailed(r, status) \in {s, SetReactorAsFinished(s, status)}
    BY DEF SamplingFailed
  <1>2. z \in Int
    OBVIOUS
  <1> HIDE DEF z
  <1>3. s \in ReactorRecord /\ s.wire = r.wire /\ s.responses = r.responses
    BY <1>2 DEF ReactorRecord
  <1> HIDE DEF s
  <1> QED
    BY <1>1, <1>3, QuietMethods DEF Quiet

\* The next response goes out when the one before it is written.
LEMMA WriteDoneAdvances ==
    ASSUME NEW r, ReactorInv(r), Ordered(r), r.writes > 0, NEW ok \in BOOLEAN,
           NEW lo, NEW hi
    PROVE  Advances(r, OnSampleWriteDone(r, ok), lo, hi)
  <1> DEFINE k == r.writes - 1
             e == << >>
             s == [r EXCEPT !.writes = k, !.sending = e]
             rest == Tail(s.responses)
             t == [s EXCEPT !.responses = rest]
             v == OnWriteDone(r, ok)
  <1>0. r \in ReactorRecord
    BY DEF ReactorInv
  <1>1. v = IF s.is_finished THEN s
            ELSE IF ~ok THEN SetReactorAsFinished(s, "internal")
            ELSE IF ~t.still_reading /\ t.responses = << >>
            THEN SetReactorAsFinished(t, "ok")
            ELSE MaybeSendNextResponse(t)
    BY DEF OnWriteDone
  <1>2. k \in Int /\ e \in Response
    BY <1>0, EmptySeq DEF ReactorRecord, Response
  <1> HIDE DEF k, e
  <1>3. /\ s \in ReactorRecord /\ s.wire = r.wire /\ s.responses = r.responses
        /\ s.is_finished = r.is_finished
    BY <1>0, <1>2 DEF ReactorRecord
  <1> HIDE DEF s
  <1>4. v \in ReactorRecord /\ Advances(r, v, lo, hi)
    <2>1. CASE s.is_finished \/ ~ok
      <3>1. v = s \/ v = SetReactorAsFinished(s, "internal")
        BY <1>1, <2>1
      <3>2. Quiet(r, v)
        BY <1>3, <3>1, QuietMethods DEF Quiet
      <3>3. SetReactorAsFinished(s, "internal") \in ReactorRecord
        BY <1>3, EmptySeq DEF SetReactorAsFinished, ReactorRecord, Statuses
      <3> QED
        BY <1>3, <3>1, <3>2, <3>3, QuietAdvances DEF Quiet
    <2>2. CASE ~s.is_finished /\ ok
      <3>1. r.responses # << >>
        BY <1>3, <2>2 DEF ReactorInv, Exclusive
      <3>2. /\ rest \in Seq(Response)
            /\ Flat(rest) \subseteq Later(r.responses)
            /\ Later(rest) \subseteq Later(r.responses)
            /\ Flat(rest) \subseteq Flat(r.responses)
            /\ Sorted(rest)
        <4>1. r.responses \in Seq(Response) /\ rest = Tail(r.responses)
          BY <1>0, <1>3 DEF ReactorRecord
        <4> QED
          BY <3>1, <4>1, TailFlat, TailFacts DEF Ordered
      <3> HIDE DEF rest
      <3>3. t \in ReactorRecord /\ t.wire = r.wire /\ t.responses = rest
            /\ t.is_finished = s.is_finished
        BY <1>3, <3>2 DEF ReactorRecord
      <3> HIDE DEF t
      <3>4. Advances(r, t, lo, hi)
        BY <3>2, <3>3 DEF Advances, Ordered, Ahead, Entries
      <3>5. CASE rest = << >>
        <4>1. v = t \/ v = SetReactorAsFinished(t, "ok")
          BY <1>1, <2>2, <3>3, <3>5 DEF MaybeSendNextResponse
        <4>2. Quiet(t, v)
          BY <3>3, <4>1, QuietMethods DEF Quiet
        <4>3. SetReactorAsFinished(t, "ok") \in ReactorRecord
          BY <3>3, EmptySeq DEF SetReactorAsFinished, ReactorRecord, Statuses
        <4>4. Advances(r, v, lo, hi)
          BY <3>4, <4>2, AdvancesThenQuiet DEF Quiet
        <4> QED
          BY <3>3, <4>1, <4>3, <4>4
      <3>6. CASE rest # << >>
        <4> DEFINE h == Head(t.responses)
                   a == Append(t.wire, h)
                   m == t.writes + 1
        <4>1. v = [t EXCEPT !.writes = m, !.sending = h, !.wire = a]
          BY <1>1, <2>2, <3>3, <3>6 DEF MaybeSendNextResponse
        <4>2. h \in Response /\ h = rest[1] /\ Len(rest) \in Nat \ {0}
          BY <3>2, <3>3, <3>6, TailFacts
        <4>3. t.wire \in Seq(Response) /\ m \in Int
          BY <3>3 DEF ReactorRecord
        <4>4. a \in Seq(Response)
          BY <4>2, <4>3, AppendFacts
        <4>5. Flat(a) = Flat(t.wire) \cup Elements(h)
          BY <4>2, <4>3, AppendFlat
        <4>6. Elements(h) \subseteq Flat(rest)
          BY <4>2 DEF Elements, Flat
        <4>7. Sorted(a)
          <5>1. Sorted(t.wire) /\ \A x \in Flat(t.wire), y \in Elements(h) : Before(x, y)
            BY <3>2, <3>3, <4>6 DEF Ordered
          <5>2. \A i, j \in 1 .. Len(h) : i < j => Before(h[i], h[j])
            BY <3>2, <4>2 DEF Sorted
          <5> QED
            BY <4>2, <4>3, <5>1, <5>2, AppendSorted
        <4>8. \A x \in Elements(h), y \in Later(rest) : Before(x, y)
          <5> SUFFICES ASSUME NEW x \in Elements(h), NEW y \in Later(rest)
                       PROVE  Before(x, y)
            OBVIOUS
          <5>1. PICK i \in 1 .. Len(rest[1]) : x = rest[1][i]
            BY <4>2 DEF Elements
          <5>2. PICK n \in 2 .. Len(rest) : \E j \in 1 .. Len(rest[n]) : y = rest[n][j]
            BY DEF Later
          <5>3. PICK j \in 1 .. Len(rest[n]) : y = rest[n][j]
            BY <5>2
          <5>4. 1 \in 1 .. Len(rest) /\ n \in 1 .. Len(rest) /\ 1 < n
            BY <4>2
          <5> QED
            BY <3>2, <5>1, <5>3, <5>4 DEF Sorted
        <4> HIDE DEF h, a, m
        <4>9. v \in ReactorRecord /\ v.wire = a /\ v.responses = rest
          BY <3>3, <4>1, <4>2, <4>3, <4>4 DEF ReactorRecord
        <4>10. Ordered(v)
          <5>1. \A x \in Flat(t.wire), y \in Later(rest) : Before(x, y)
            BY <3>2, <3>3 DEF Ordered
          <5> QED
            BY <3>2, <4>5, <4>7, <4>8, <4>9, <5>1 DEF Ordered
        <4>11. Ahead(v) \subseteq Ahead(r) /\ Entries(v) \subseteq Entries(r)
          BY <3>2, <3>3, <4>5, <4>6, <4>9 DEF Ahead, Entries
        <4> QED
          BY <4>9, <4>10, <4>11 DEF Advances
      <3> QED
        BY <3>5, <3>6
    <2> QED
      BY <2>1, <2>2
  <1> HIDE DEF v
  <1>5. OnSampleWriteDone(r, ok) = MaybeStartSampling(v)
    BY DEF OnSampleWriteDone, v
  <1> QED
    BY <1>4, <1>5, QuietMethods, AdvancesThenQuiet

\* New samples come after everything drawn before.
LEMMA NewIsAfter ==
    ASSUME NEW d \in Int, NEW e \in Entry, e.sample <= d, NEW f, NEW hi,
           f \in New(d, hi)
    PROVE  Before(e, f)
  <1>1. e.sample \in Int /\ f.sample \in Int /\ d < f.sample
    BY DEF Entry, New
  <1> QED
    BY <1>1 DEF Before

LEMMA FlatType ==
    ASSUME NEW rs \in Seq(Response)
    PROVE  Flat(rs) \subseteq Entry
  BY DEF Flat, Response

LEMMA GrownEntries ==
    ASSUME NEW rs, NEW qs, NEW lo, NEW hi, NEW writing, Grown(rs, qs, lo, hi, writing)
    PROVE  /\ Flat(qs) \subseteq Flat(rs) \cup New(lo, hi)
           /\ Later(qs) \subseteq Later(rs) \cup New(lo, hi)
  <1>1. /\ qs \in Seq(Response)
        /\ \A m \in 1 .. Len(qs) : \A j \in 1 .. Len(qs[m]) :
              \/ lo < qs[m][j].sample /\ qs[m][j].sample <= hi
              \/ /\ m \in 1 .. Len(rs) /\ j \in 1 .. Len(rs[m])
                 /\ qs[m][j] = rs[m][j]
    BY DEF Grown
  <1>2. ASSUME NEW m \in 1 .. Len(qs), NEW j \in 1 .. Len(qs[m])
        PROVE  \/ qs[m][j] \in New(lo, hi)
               \/ /\ m \in 1 .. Len(rs) /\ j \in 1 .. Len(rs[m])
                  /\ qs[m][j] = rs[m][j]
    <2>1. qs[m][j] \in Entry
      BY <1>1 DEF Response
    <2> QED
      BY <1>1, <2>1 DEF New
  <1>3. ASSUME NEW e \in Flat(qs) PROVE e \in Flat(rs) \cup New(lo, hi)
    <2>1. PICK m \in 1 .. Len(qs) : \E j \in 1 .. Len(qs[m]) : e = qs[m][j]
      BY <1>3 DEF Flat
    <2>2. PICK j \in 1 .. Len(qs[m]) : e = qs[m][j]
      BY <2>1
    <2> QED
      BY <1>2, <2>2, FlatMember
  <1>4. ASSUME NEW e \in Later(qs) PROVE e \in Later(rs) \cup New(lo, hi)
    <2>1. PICK m \in 2 .. Len(qs) : \E j \in 1 .. Len(qs[m]) : e = qs[m][j]
      BY <1>4 DEF Later
    <2>2. PICK j \in 1 .. Len(qs[m]) : e = qs[m][j]
      BY <2>1
    <2>3. m \in 1 .. Len(qs) /\ m # 1
      OBVIOUS
    <2> QED
      BY <1>2, <2>2, <2>3, FlatMember
  <1> QED
    BY <1>3, <1>4

LEMMA SamplingDoneAdvances ==
    ASSUME NEW r, ReactorInv(r), Ordered(r), NEW d \in Nat, NEW n \in Nat,
           \A i \in 1 .. n : d + i \in Samples,
           \A e \in Entries(r) : e.sample <= d
    PROVE  Advances(r, SamplingDone(r, [i \in 1 .. n |-> d + i]), d, d + n)
  <1> DEFINE seq == [i \in 1 .. n |-> d + i]
             hi == d + n
             w == r.responses # << >>
             t == SamplesPacked(r, seq)
             u == IF w THEN t ELSE MaybeSendNextResponse(t)
             k == Len(seq)
             v == [u EXCEPT !.last_batch_size = k]
             rs == r.responses
             qs == t.responses
  <1>0. r \in ReactorRecord /\ rs \in Seq(Response) /\ r.wire \in Seq(Response)
    BY DEF ReactorInv, ReactorRecord
  <1>1. /\ t \in ReactorRecord /\ t.wire = r.wire
        /\ Grown(rs, qs, d, hi, w)
    BY <1>0, SamplesPackedFacts
  <1>2. SamplingDone(r, seq) = IF u.requested = u.fetched THEN MaybeStartRead(u)
                               ELSE MaybeStartSampling(v)
    BY DEF SamplingDone, SamplesPacked
  <1>3. k \in Int
    BY DEF seq
  <1> HIDE DEF t, k, seq
  <1>4. /\ Flat(qs) \subseteq Flat(rs) \cup New(d, hi)
        /\ Later(qs) \subseteq Later(rs) \cup New(d, hi)
        /\ qs \in Seq(Response)
    BY <1>1, GrownEntries DEF Grown
  <1>5. Sorted(qs)
    <2>1. Below(rs, d)
      BY DEF Below, Entries, Flat
    <2> QED
      BY <1>1, <2>1 DEF Grown, Ordered
  <1>6. \A e \in Flat(r.wire) : e \in Entry /\ e.sample <= d
    BY <1>0, FlatType DEF Entries
  <1>7. \A e \in Flat(r.wire), f \in New(d, hi) : Before(e, f)
    BY <1>6, NewIsAfter
  <1>8. \A e \in Flat(r.wire), f \in Later(qs) : Before(e, f)
    BY <1>4, <1>7 DEF Ordered
  <1> HIDE DEF hi
  <1>9. Advances(r, t, d, hi)
    BY <1>1, <1>4, <1>5, <1>8 DEF Advances, Ordered, Ahead, Entries
  <1>10. u \in ReactorRecord /\ Advances(r, u, d, hi)
    <2>1. CASE w \/ qs = << >> \/ t.is_finished
      <3>1. u = t
        BY <2>1 DEF MaybeSendNextResponse
      <3> HIDE DEF u
      <3> QED
        BY <1>1, <1>9, <3>1
    <2>2. CASE ~(w \/ qs = << >> \/ t.is_finished)
      <3> DEFINE h == Head(qs)
                 a == Append(t.wire, h)
                 m == t.writes + 1
      <3>1. u = [t EXCEPT !.writes = m, !.sending = h, !.wire = a]
        BY <2>2 DEF MaybeSendNextResponse
      <3>2. h \in Response /\ h = qs[1] /\ Len(qs) \in Nat \ {0}
        BY <1>4, <2>2, TailFacts
      <3>3. t.wire \in Seq(Response) /\ m \in Int
        BY <1>1 DEF ReactorRecord
      <3>4. a \in Seq(Response)
        BY <3>2, <3>3, AppendFacts
      <3>5. Flat(a) = Flat(t.wire) \cup Elements(h)
        BY <3>2, <3>3, AppendFlat
      <3>6. Elements(h) \subseteq Flat(qs)
        BY <3>2 DEF Elements, Flat
      <3>7. Flat(rs) = {} /\ Later(rs) = {}
        BY <2>2, EmptyFacts
      <3>8. Elements(h) \subseteq New(d, hi)
        BY <1>4, <3>6, <3>7
      <3>9. Sorted(a)
        <4>1. Sorted(t.wire) /\ \A x \in Flat(t.wire), y \in Elements(h) : Before(x, y)
          BY <1>1, <1>7, <3>8 DEF Ordered
        <4>2. \A i, j \in 1 .. Len(h) : i < j => Before(h[i], h[j])
          BY <1>5, <3>2 DEF Sorted
        <4> QED
          BY <3>2, <3>3, <4>1, <4>2, AppendSorted
      <3>10. \A x \in Elements(h), y \in Later(qs) : Before(x, y)
        <4> SUFFICES ASSUME NEW x \in Elements(h), NEW y \in Later(qs)
                     PROVE  Before(x, y)
          OBVIOUS
        <4>1. PICK i \in 1 .. Len(qs[1]) : x = qs[1][i]
          BY <3>2 DEF Elements
        <4>2. PICK p \in 2 .. Len(qs) : \E j \in 1 .. Len(qs[p]) : y = qs[p][j]
          BY DEF Later
        <4>3. PICK j \in 1 .. Len(qs[p]) : y = qs[p][j]
          BY <4>2
        <4>4. 1 \in 1 .. Len(qs) /\ p \in 1 .. Len(qs) /\ 1 < p
          BY <3>2
        <4> QED
          BY <1>5, <4>1, <4>3, <4>4 DEF Sorted
      <3> HIDE DEF h, a, m, u
      <3>11. u \in ReactorRecord /\ u.wire = a /\ u.responses = qs
        BY <1>1, <3>1, <3>2, <3>3, <3>4 DEF ReactorRecord
      <3>12. Ordered(u)
        BY <1>1, <1>5, <1>8, <3>5, <3>9, <3>10, <3>11 DEF Ordered
      <3>13. /\ Ahead(u) \subseteq Ahead(r) \cup New(d, hi)
             /\ Entries(u) \subseteq Entries(r) \cup New(d, hi)
        BY <1>1, <1>4, <3>5, <3>8, <3>11 DEF Ahead, Entries
      <3> QED
        BY <3>11, <3>12, <3>13 DEF Advances
    <2> QED
      BY <2>1, <2>2
  <1> HIDE DEF u, w
  <1>11. v \in ReactorRecord /\ v.wire = u.wire /\ v.responses = u.responses
    BY <1>3, <1>10 DEF ReactorRecord
  <1> HIDE DEF v
  <1>12. Advances(r, MaybeStartRead(u), d, hi)
    BY <1>10, QuietMethods, AdvancesThenQuiet
  <1>13. Advances(r, MaybeStartSampling(v), d, hi)
    BY <1>10, <1>11, QuietMethods, AdvancesThenQuiet
  <1> QED
    BY <1>2, <1>12, <1>13 DEF seq, hi

-----------------------------------------------------------------------------
(* What the client makes of a response. *)

\* What is unpacked comes from src, in order, and before what rest holds.
UnpackedBefore(acc, src, rest) ==
    /\ acc \in Unpacking
    /\ \A p \in 1 .. Len(acc.parts) :
          /\ acc.parts[p] \in src
          /\ \A f \in rest : Before(acc.parts[p], f)
    /\ \A k \in 1 .. Len(acc.samples) :
          /\ \E e \in src : acc.samples[k] = e.sample
          /\ \A f \in rest : acc.samples[k] < f.sample
          /\ \A p \in 1 .. Len(acc.parts) : acc.samples[k] < acc.parts[p].sample
          /\ \A l \in 1 .. Len(acc.samples) : k < l => acc.samples[k] < acc.samples[l]

LEMMA UnpackStep ==
    ASSUME NEW src \in SUBSET Entry, NEW rest \in SUBSET Entry, NEW e \in src,
           NEW old, rest \cup {e} \subseteq old, NEW acc,
           UnpackedBefore(acc, src, old), \A f \in rest : Before(e, f)
    PROVE  UnpackedBefore(Unpack(acc, e), src, rest)
  <1> DEFINE n == Len(acc.parts)
             m == Len(acc.samples)
             ps == Append(acc.parts, e)
             x == ps[1].sample
             xs == Append(acc.samples, x)
             z == << >>
             whole == Whole(ps)
  <1>0. acc \in Unpacking /\ acc.parts \in Seq(Entry) /\ acc.samples \in Seq(Nat)
    BY DEF UnpackedBefore, Unpacking
  <1>1. /\ ps \in Seq(Entry) /\ Len(ps) = n + 1 /\ n \in Nat
        /\ \A i \in 1 .. n : ps[i] = acc.parts[i]
        /\ ps[n + 1] = e
    BY <1>0, AppendFacts
  <1>2. Unpack(acc, e) =
          IF acc.failed THEN acc
          ELSE IF ~e.end_of_sequence THEN [acc EXCEPT !.parts = ps]
          ELSE IF ~whole THEN [acc EXCEPT !.failed = TRUE, !.parts = z]
          ELSE [acc EXCEPT !.parts = z, !.samples = xs]
    BY DEF Unpack
  <1>3. Unpack(acc, e) \in Unpacking
    BY <1>0, UnpackType
  <1> HIDE DEF whole, ps
  <1>4. e \in Entry /\ e.sample \in Nat
    BY DEF Entry
  <1>5. UnpackedBefore(acc, src, rest)
    BY DEF UnpackedBefore
  <1>6. CASE acc.failed
    BY <1>2, <1>5, <1>6
  <1>7. CASE ~acc.failed /\ ~e.end_of_sequence
    <2> DEFINE q == [acc EXCEPT !.parts = ps]
    <2>1. Unpack(acc, e) = q
      BY <1>2, <1>7
    <2>2. q.parts = ps /\ q.samples = acc.samples
      BY <1>0 DEF Unpacking
    <2> HIDE DEF q
    <2>3. ASSUME NEW p \in 1 .. Len(ps)
          PROVE  ps[p] \in src /\ \A f \in rest : Before(ps[p], f)
      BY <1>1, <1>5 DEF UnpackedBefore
    <2>4. ASSUME NEW k \in 1 .. Len(acc.samples), NEW p \in 1 .. Len(ps)
          PROVE  acc.samples[k] < ps[p].sample
      BY <1>1, SMTT(30) DEF UnpackedBefore
    <2> QED
      BY <1>3, <1>5, <2>1, <2>2, <2>3, <2>4 DEF UnpackedBefore
  <1>8. CASE ~acc.failed /\ e.end_of_sequence /\ ~whole
    <2> DEFINE q == [acc EXCEPT !.failed = TRUE, !.parts = z]
    <2>1. Unpack(acc, e) = q
      BY <1>2, <1>8
    <2>2. q.parts = << >> /\ q.samples = acc.samples
      BY <1>0 DEF Unpacking
    <2> HIDE DEF q
    <2> QED
      BY <1>3, <1>5, <2>1, <2>2 DEF UnpackedBefore
  <1>9. CASE ~acc.failed /\ e.end_of_sequence /\ whole
    <2> DEFINE q == [acc EXCEPT !.parts = z, !.samples = xs]
    <2>1. Unpack(acc, e) = q
      BY <1>2, <1>9
    <2>2. q.parts = << >> /\ q.samples = xs
      BY <1>0 DEF Unpacking
    <2> HIDE DEF q
    <2>3. ps[1] \in src /\ ps[1] \in Entry /\ x <= e.sample
      <3>1. CASE n = 0
        BY <1>1, <1>4, <3>1
      <3>2. CASE n # 0
        <4>1. 1 \in 1 .. n
          BY <1>1, <3>2
        <4>2. ps[1] = acc.parts[1] /\ acc.parts[1] \in src /\ Before(acc.parts[1], e)
          BY <1>1, <4>1 DEF UnpackedBefore
        <4> QED
          BY <4>2 DEF Before
      <3> QED
        BY <3>1, <3>2
    <2>4. x \in Nat
      BY <2>3 DEF Entry
    <2>5. /\ Len(xs) = m + 1 /\ m \in Nat /\ xs[m + 1] = x
          /\ \A i \in 1 .. m : xs[i] = acc.samples[i]
      BY <1>0, <2>4, AppendFacts
    <2>6. \A f \in rest : x < f.sample
      <3> SUFFICES ASSUME NEW f \in rest PROVE x < f.sample
        OBVIOUS
      <3>1. e.sample < f.sample /\ f.sample \in Nat
        BY <1>9 DEF Before, Entry
      <3> QED
        BY <1>4, <2>3, <2>4, <3>1
    <2>7. \A k \in 1 .. m : acc.samples[k] < x
      <3> SUFFICES ASSUME NEW k \in 1 .. m PROVE acc.samples[k] < x
        OBVIOUS
      <3>1. CASE n = 0
        <4>1. x = e.sample
          BY <1>1, <3>1
        <4> QED
          BY <4>1 DEF UnpackedBefore
      <3>2. CASE n # 0
        <4>1. 1 \in 1 .. n /\ ps[1] = acc.parts[1]
          BY <1>1, <3>2
        <4> QED
          BY <4>1 DEF UnpackedBefore
      <3> QED
        BY <3>1, <3>2
    <2> HIDE DEF x, xs, m
    <2>8. ASSUME NEW k \in 1 .. Len(xs)
          PROVE  /\ \E g \in src : xs[k] = g.sample
                 /\ \A f \in rest : xs[k] < f.sample
                 /\ \A l \in 1 .. Len(xs) : k < l => xs[k] < xs[l]
      <3>1. CASE k = m + 1
        BY <2>3, <2>5, <2>6, <3>1 DEF x
      <3>2. CASE k # m + 1
        <4>1. k \in 1 .. m /\ xs[k] = acc.samples[k]
          BY <2>5, <3>2
        <4>2. /\ \E g \in src : acc.samples[k] = g.sample
              /\ \A f \in rest : acc.samples[k] < f.sample
              /\ \A l \in 1 .. m : k < l => acc.samples[k] < acc.samples[l]
          BY <1>5, <4>1 DEF UnpackedBefore, m
        <4>3. \A l \in 1 .. Len(xs) : k < l => xs[k] < xs[l]
          <5> SUFFICES ASSUME NEW l \in 1 .. Len(xs), k < l PROVE xs[k] < xs[l]
            OBVIOUS
          <5>1. CASE l = m + 1
            BY <2>5, <2>7, <4>1, <5>1
          <5>2. CASE l # m + 1
            <6>1. l \in 1 .. m /\ xs[l] = acc.samples[l]
              BY <2>5, <5>2
            <6> QED
              BY <4>1, <4>2, <6>1
          <5> QED
            BY <5>1, <5>2
        <4> QED
          BY <4>1, <4>2, <4>3
      <3> QED
        BY <3>1, <3>2
    <2> QED
      BY <1>3, <2>1, <2>2, <2>8 DEF UnpackedBefore
  <1> QED
    BY <1>6, <1>7, <1>8, <1>9

LEMMA UnpackLoopBefore ==
    ASSUME NEW src \in SUBSET Entry, NEW after \in SUBSET Entry, NEW acc,
           NEW resp \in Response, Elements(resp) \subseteq src,
           UnpackedBefore(acc, src, Elements(resp) \cup after),
           \A i, j \in 1 .. Len(resp) : i < j => Before(resp[i], resp[j]),
           \A e \in Elements(resp), f \in after : Before(e, f)
    PROVE  UnpackedBefore(FoldLeft(Unpack, acc, resp), src, after)
  <1> DEFINE n == Len(resp)
             R(i) == {resp[j] : j \in i + 1 .. n} \cup after
             I == [i \in 0 .. n |-> {a \in Unpacking : UnpackedBefore(a, src, R(i))}]
             q == UnpackLoop!Fold(0, acc, resp)
  <1>1. FoldLeft(Unpack, acc, resp) = q
    BY DEF UnpackLoop!Fold, UnpackTurn, FoldLeft, MapThenFoldSet,
           UnpackLoop!FoldLeft, UnpackLoop!MapThenFoldSet, Max, UnpackLoop!Max
  <1>2. n \in Nat /\ DOMAIN resp = 1 .. n /\ \A i \in 1 .. n : resp[i] \in Entry
    BY DEF Response
  <1> HIDE DEF q
  <1>3. acc \in I[0]
    <2>1. R(0) = Elements(resp) \cup after
      BY DEF Elements
    <2>2. acc \in Unpacking /\ UnpackedBefore(acc, src, R(0))
      BY <2>1 DEF UnpackedBefore
    <2>3. 0 \in 0 .. n
      BY <1>2
    <2> HIDE DEF R
    <2> QED
      BY <2>2, <2>3
  <1>4. ASSUME NEW i \in 1 .. n, NEW a \in I[i - 1]
        PROVE  UnpackTurn(0, a, resp[i]) \in I[i]
    <2>1. i - 1 \in 0 .. n /\ i \in 0 .. n /\ i - 1 + 1 = i
      BY <1>2
    <2>2. UnpackedBefore(a, src, R(i - 1))
      BY <2>1
    <2>3. resp[i] \in src /\ R(i) \subseteq Entry
      BY <1>2 DEF Elements
    <2>4. R(i) \cup {resp[i]} \subseteq R(i - 1)
      BY <1>2, <2>1
    <2>5. \A f \in R(i) : Before(resp[i], f)
      BY <1>2 DEF Elements
    <2> HIDE DEF R
    <2>6. UnpackedBefore(Unpack(a, resp[i]), src, R(i))
      BY <2>2, <2>3, <2>4, <2>5, UnpackStep
    <2>7. Unpack(a, resp[i]) \in Unpacking
      BY <2>6 DEF UnpackedBefore
    <2> QED
      BY <2>1, <2>6, <2>7 DEF UnpackTurn
  <1> HIDE DEF I
  <1>5. q \in I[n]
    BY <1>2, <1>3, <1>4, UnpackLoop!FoldInvariant DEF q
  <1>6. n \in 0 .. n
    BY <1>2
  <1>7. UnpackedBefore(q, src, R(n))
    BY <1>5, <1>6 DEF I
  <1>8. R(n) = after
    BY <1>2
  <1> QED
    BY <1>1, <1>7, <1>8

-----------------------------------------------------------------------------
(* The ring buffer. *)

\* Numbers that are less than c apart are in different slots.
LEMMA ModFacts ==
    ASSUME NEW a \in Nat, NEW b \in Nat, NEW c \in Nat \ {0}, a < b, b - a < c
    PROVE  a % c # b % c
  <1> SUFFICES ASSUME a % c = b % c PROVE FALSE
    OBVIOUS
  <1> DEFINE m == a \div c
             n == b \div c
             x == a % c
  <1>1. m \in Int /\ n \in Int /\ x \in Int
    OBVIOUS
  <1>2. a = c * m + x /\ b = c * n + x
    OBVIOUS
  <1> HIDE DEF m, n, x
  <1>3. c * (n - m) = b - a
    BY <1>1, <1>2
  <1>4. CASE n - m >= 1
    <2>1. c * (n - m) >= c
      BY <1>1, <1>4
    <2> QED
      BY <1>1, <1>3, <2>1
  <1>5. CASE n - m <= 0
    <2>1. c * (n - m) <= 0
      BY <1>1, <1>5
    <2> QED
      BY <1>1, <1>3, <2>1
  <1> QED
    BY <1>1, <1>4, <1>5

\* A slot that no element of the batch goes to, and one that one element goes to.
LEMMA SlotKept ==
    ASSUME NEW c \in Nat \ {0}, NEW q \in QueueRecord(c), NEW xs, NEW x,
           \A j \in 1 .. Len(xs) : (q.pushes + j - 1) % c # x
    PROVE  SlotAfter(q, xs, x) = q.buffer[x]
  <1>1. q.capacity = c
    BY DEF QueueRecord
  <1>2. {j \in 1 .. Len(xs) : (q.pushes + j - 1) % q.capacity = x} = {}
    BY <1>1
  <1> QED
    BY <1>2 DEF SlotAfter

LEMMA SlotTaken ==
    ASSUME NEW c \in Nat \ {0}, NEW q \in QueueRecord(c), NEW xs \in Seq(Nat), NEW x,
           NEW k \in 1 .. Len(xs), (q.pushes + k - 1) % c = x,
           \A j \in 1 .. Len(xs) : (q.pushes + j - 1) % c = x => j = k
    PROVE  SlotAfter(q, xs, x) = xs[k]
  <1> DEFINE h == {j \in 1 .. Len(xs) : (q.pushes + j - 1) % q.capacity = x}
  <1>1. q.capacity = c
    BY DEF QueueRecord
  <1>2. h = {k}
    BY <1>1
  <1>3. SlotAfter(q, xs, x) = IF h = {} THEN q.buffer[x]
                              ELSE xs[CHOOSE j \in h : \A l \in h : l <= j]
    BY DEF SlotAfter
  <1> HIDE DEF h
  <1>4. k <= k
    OBVIOUS
  <1>5. (CHOOSE j \in h : \A l \in h : l <= j) = k
    BY <1>2, <1>4
  <1> QED
    BY <1>2, <1>3, <1>5

\* A batch that fits leaves what is queued alone and goes behind it.
LEMMA PushSlots ==
    ASSUME NEW c \in Nat \ {0}, NEW q \in QueueRecord(c), NEW xs \in Seq(Nat),
           q.pops <= q.pushes, QueueSize(q) + Len(xs) <= c
    PROVE  LET p == PushBatch(q, xs)
           IN  /\ \A i \in Queued(q) : Slot(p, i) = Slot(q, i)
               /\ \A k \in 1 .. Len(xs) : Slot(p, q.pushes + k - 1) = xs[k]
  <1> DEFINE p == PushBatch(q, xs)
             a == q.pops
             b == q.pushes
             n == Len(xs)
  <1>1. /\ p \in QueueRecord(c)
        /\ p.buffer = [i \in 0 .. c - 1 |-> SlotAfter(q, xs, i)]
    BY PushFacts
  <1>2. /\ a \in Nat /\ b \in Nat /\ n \in Nat /\ a <= b /\ b - a + n <= c
        /\ p.capacity = c /\ q.capacity = c
    BY <1>1 DEF QueueRecord, QueueSize
  <1> HIDE DEF p, a, b, n
  <1>3. ASSUME NEW i \in Nat PROVE Slot(p, i) = SlotAfter(q, xs, i % c)
    <2>1. i % c \in 0 .. c - 1
      OBVIOUS
    <2> QED
      BY <1>1, <1>2, <2>1 DEF Slot
  <1>4. ASSUME NEW i \in a .. b - 1 PROVE Slot(p, i) = Slot(q, i)
    <2>1. i \in Nat
      BY <1>2
    <2>2. ASSUME NEW j \in 1 .. n PROVE (b + j - 1) % c # i % c
      <3> DEFINE m == b + j - 1
      <3>1. m \in Nat /\ i < m /\ m - i < c
        BY <1>2
      <3> HIDE DEF m
      <3>2. i % c # m % c
        BY <2>1, <3>1, ModFacts
      <3> QED
        BY <3>2 DEF m
    <2> DEFINE x == i % c
    <2>3. \A j \in 1 .. Len(xs) : (q.pushes + j - 1) % c # x
      BY <2>2 DEF b, n
    <2> HIDE DEF x
    <2>5. SlotAfter(q, xs, x) = q.buffer[x]
      BY <2>3, SlotKept
    <2> QED
      BY <1>2, <1>3, <2>1, <2>5 DEF Slot, x
  <1>5. ASSUME NEW k \in 1 .. n PROVE Slot(p, b + k - 1) = xs[k]
    <2> DEFINE i == b + k - 1
    <2>1. i \in Nat
      BY <1>2
    <2>2. ASSUME NEW j \in 1 .. n, (b + j - 1) % c = i % c PROVE j = k
      <3> DEFINE m == b + j - 1
      <3>1. m \in Nat /\ m % c = i % c
        BY <1>2, <2>2
      <3>2. CASE j < k
        <4>1. m < i /\ i - m < c
          BY <1>2, <3>2
        <4> HIDE DEF m, i
        <4> QED
          BY <2>1, <3>1, <4>1, ModFacts
      <3>3. CASE k < j
        <4>1. i < m /\ m - i < c
          BY <1>2, <3>3
        <4> HIDE DEF m, i
        <4> QED
          BY <2>1, <3>1, <4>1, ModFacts
      <3> QED
        BY <1>2, <3>2, <3>3
    <2> DEFINE x == i % c
    <2>3. /\ k \in 1 .. Len(xs) /\ (q.pushes + k - 1) % c = x
          /\ \A j \in 1 .. Len(xs) : (q.pushes + j - 1) % c = x => j = k
      BY <2>2 DEF b, n
    <2> HIDE DEF x, i
    <2>4. SlotAfter(q, xs, x) = xs[k]
      BY <2>3, SlotTaken
    <2> QED
      BY <1>3, <2>1, <2>4 DEF i, x
  <1> QED
    BY <1>4, <1>5 DEF Queued, p, a, b, n

\* Pop empties the oldest slot and leaves the others alone.
LEMMA PopSlots ==
    ASSUME NEW c \in Nat \ {0}, NEW q \in QueueRecord(c), QueueSize(q) <= c
    PROVE  LET p == Pop(q)
           IN  /\ Queued(p) \subseteq Queued(q)
               /\ q.pops \notin Queued(p)
               /\ \A i \in Queued(p) : Slot(p, i) = Slot(q, i)
  <1> DEFINE p == Pop(q)
             a == q.pops
             b == q.pushes
  <1>1. /\ p \in QueueRecord(c) /\ p.pushes = b /\ p.pops = a + 1
        /\ p.buffer = [q.buffer EXCEPT ![a % c] = NoSample]
    BY PopFacts
  <1>2. /\ a \in Nat /\ b \in Nat /\ b - a <= c
        /\ p.capacity = c /\ q.capacity = c
        /\ q.buffer \in [0 .. c - 1 -> Nat \cup {NoSample}]
    BY <1>1 DEF QueueRecord, QueueSize
  <1> HIDE DEF p, a, b
  <1>3. Queued(p) = a + 1 .. b - 1 /\ Queued(q) = a .. b - 1
    BY <1>1 DEF Queued, a, b
  <1>4. ASSUME NEW i \in a + 1 .. b - 1 PROVE Slot(p, i) = Slot(q, i)
    <2>1. i \in Nat /\ a < i /\ i - a < c
      BY <1>2
    <2>2. a % c # i % c
      BY <1>2, <2>1, ModFacts
    <2>3. p.buffer[i % c] = q.buffer[i % c]
      BY <1>1, <1>2, <2>2
    <2> QED
      BY <1>2, <2>3 DEF Slot
  <1> QED
    BY <1>2, <1>3, <1>4 DEF p, a

-----------------------------------------------------------------------------
(* What a step does to the entries on the streams. *)

\* Nothing that was drawn is forgotten.
DrawnGrows ==
    /\ Len(drawn) \in Nat /\ Len(drawn') \in Nat /\ Len(drawn) <= Len(drawn')
    /\ \A i \in 1 .. Len(drawn) : drawn'[i] = drawn[i]
    /\ \A i \in 1 .. Len(drawn') : i \in Samples

\* Stream st has become y: it carries what it carried, and new samples, all of
\* them drawn for its worker.
Flowing(st, y) ==
    /\ y.worker = st.worker /\ st.worker # None
    /\ Advances(st.reactor, y.reactor, Len(drawn), Len(drawn'))
    /\ \A i \in Len(drawn) + 1 .. Len(drawn') : drawn'[i] = st.worker
    /\ st.ended # "no" => y.ended # "no"
    /\ y.ended # "no" => y.reactor.wire = << >>

\* Stream s has been opened by w.
Opened(s, w) ==
    /\ stream[s].worker = None /\ options.kind = "grpc"
    /\ stream'[s] = [UnusedStream EXCEPT !.worker = w]

StreamsFlow ==
    \A s \in Streams : \/ stream'[s] = stream[s]
                       \/ Flowing(stream[s], stream'[s])
                       \/ \E w \in Workers : Opened(s, w) /\ worker'[w].stream = s

LEMMA NewReactorFields ==
    LET r == NewSampleReactor
    IN  /\ r.wire = << >> /\ r.responses = << >> /\ r.writes = 0
        /\ ~r.waiting /\ ~r.is_finished
  BY DEF NewSampleReactor, MaybeStartRead

LEMMA UnusedFields ==
    /\ UnusedStream.ended = "no" /\ UnusedStream.reactor = NewSampleReactor
    /\ \A w : LET y == [UnusedStream EXCEPT !.worker = w]
              IN  y.worker = w /\ y.ended = "no" /\ y.reactor = NewSampleReactor
  BY DEF UnusedStream

\* What is known of a stream.
LEMMA StreamFacts ==
    ASSUME TypeInv, OrderInv, NEW s \in Streams
    PROVE  LET st == stream[s]
           IN  /\ st \in StreamRecord /\ ReactorInv(st.reactor) /\ Ordered(st.reactor)
               /\ st.reactor \in ReactorRecord
               /\ st.ended # "no" => st.reactor.wire = << >>
               /\ st.worker = None =>
                     /\ st.ended = "no" /\ st.reactor.writes = 0
                     /\ ~st.reactor.waiting /\ ~st.reactor.is_finished
  <1>1. stream[s] \in StreamRecord /\ Exclusive(stream[s].reactor)
    BY DEF TypeInv
  <1>2. stream[s].reactor \in ReactorRecord
    BY <1>1 DEF StreamRecord
  <1>3. /\ Ordered(stream[s].reactor)
        /\ stream[s].ended # "no" => stream[s].reactor.wire = << >>
    BY DEF OrderInv, StreamsOrdered
  <1>4. stream[s].worker = None => stream[s] = UnusedStream
    BY DEF OrderInv, Linked
  <1> QED
    BY <1>1, <1>2, <1>3, <1>4, NewReactorFields, UnusedFields DEF ReactorInv

LEMMA FlowPut ==
    ASSUME TypeInv, NEW s \in Streams, NEW y, stream' = [stream EXCEPT ![s] = y],
           Flowing(stream[s], y)
    PROVE  StreamsFlow
  BY DEF TypeInv, StreamsFlow

LEMMA QuietFlow ==
    ASSUME TypeInv, OrderInv, NEW s \in Streams, NEW y, stream[s].worker # None,
           y.worker = stream[s].worker, drawn' = drawn,
           Quiet(stream[s].reactor, y.reactor),
           stream[s].ended # "no" => y.ended # "no",
           y.ended # "no" => y.reactor.wire = << >>
    PROVE  Flowing(stream[s], y)
  <1>1. Ordered(stream[s].reactor)
    BY StreamFacts
  <1>2. Advances(stream[s].reactor, y.reactor, Len(drawn), Len(drawn'))
    BY <1>1, QuietAdvances DEF Quiet
  <1>3. \A i \in Len(drawn) + 1 .. Len(drawn') : drawn'[i] = stream[s].worker
    BY DEF TypeInv
  <1> QED
    BY <1>2, <1>3 DEF Flowing

\* A reactor method has run.
LEMMA ReactFlow ==
    ASSUME TypeInv, OrderInv, NEW s \in Streams, NEW r \in ReactorRecord,
           stream[s].worker # None,
           Advances(stream[s].reactor, r, Len(drawn), Len(drawn')),
           \A i \in Len(drawn) + 1 .. Len(drawn') : drawn'[i] = stream[s].worker,
           stream' = [stream EXCEPT ![s].reactor = Delivered(stream[s], r)]
    PROVE  StreamsFlow
  <1> DEFINE q == Delivered(stream[s], r)
             y == [stream[s] EXCEPT !.reactor = q]
             e == << >>
  <1>1. stream \in [Streams -> StreamRecord] /\ stream[s] \in StreamRecord
    BY DEF TypeInv
  <1>2. stream' = [stream EXCEPT ![s] = y]
    BY <1>1
  <1>3. q = IF stream[s].ended = "no" THEN r ELSE [r EXCEPT !.wire = e]
    BY DEF Delivered
  <1> HIDE DEF e
  <1>4. /\ q.wire = r.wire \/ q.wire = e
        /\ q.responses = r.responses
        /\ stream[s].ended # "no" => q.wire = e
    BY <1>3 DEF ReactorRecord
  <1> HIDE DEF q
  <1>5. Advances(stream[s].reactor, q, Len(drawn), Len(drawn'))
    BY <1>4, AdvancesThenQuiet DEF e
  <1>6. y.reactor = q /\ y.ended = stream[s].ended /\ y.worker = stream[s].worker
    BY <1>1 DEF StreamRecord
  <1> HIDE DEF y
  <1>7. Flowing(stream[s], y)
    BY <1>4, <1>5, <1>6 DEF Flowing, e
  <1> QED
    BY <1>2, <1>7, FlowPut

LEMMA QuietReactFlow ==
    ASSUME TypeInv, OrderInv, NEW s \in Streams, NEW r \in ReactorRecord,
           stream[s].worker # None, drawn' = drawn, Quiet(stream[s].reactor, r),
           stream' = [stream EXCEPT ![s].reactor = Delivered(stream[s], r)]
    PROVE  StreamsFlow
  <1>1. Ordered(stream[s].reactor)
    BY StreamFacts
  <1>2. Advances(stream[s].reactor, r, Len(drawn), Len(drawn'))
    BY <1>1, QuietAdvances DEF Quiet
  <1>3. \A i \in Len(drawn) + 1 .. Len(drawn') : drawn'[i] = stream[s].worker
    BY DEF TypeInv
  <1> QED
    BY <1>2, <1>3, ReactFlow

LEMMA ReactMethodsFlow ==
    ASSUME TypeInv, OrderInv, NEW s \in Streams,
           ServerReadEnds(s) \/ ServerWriteDone(s) \/ ServerCancelled(s)
               \/ TableFails(s)
    PROVE  StreamsFlow /\ drawn' = drawn
  <1> DEFINE r == stream[s].reactor
  <1>1. /\ r \in ReactorRecord /\ ReactorInv(r) /\ Ordered(r)
        /\ stream[s].worker = None =>
              /\ stream[s].ended = "no" /\ r.writes = 0
              /\ ~r.waiting /\ ~r.is_finished
    BY StreamFacts
  <1>2. drawn' = drawn
    BY DEF ServerReadEnds, ServerWriteDone, ServerCancelled, TableFails
  <1>3. stream[s].worker # None
    <2>1. stream[s].ended # "no" \/ r.writes > 0 \/ r.waiting
      BY DEF ServerReadEnds, ServerWriteDone, ServerCancelled, TableFails
    <2>2. ~(0 > 0)
      OBVIOUS
    <2> QED
      BY <1>1, <2>1, <2>2
  <1>4. CASE ServerReadEnds(s)
    <2>1. stream' = [stream EXCEPT ![s].reactor = Delivered(stream[s], OnReadEnd(r))]
      BY <1>4 DEF ServerReadEnds, React
    <2>2. OnReadEnd(r) \in ReactorRecord /\ Quiet(r, OnReadEnd(r))
      BY <1>1, ReadEndInv, ReadEndQuiet DEF ReactorInv
    <2> QED
      BY <1>2, <1>3, <2>1, <2>2, QuietReactFlow
  <1>5. CASE ServerWriteDone(s)
    <2>1. PICK ok \in BOOLEAN :
             stream' = [stream EXCEPT ![s].reactor =
                            Delivered(stream[s], OnSampleWriteDone(r, ok))]
      BY <1>5 DEF ServerWriteDone, React
    <2>2. r.writes > 0
      BY <1>5 DEF ServerWriteDone
    <2>3. OnSampleWriteDone(r, ok) \in ReactorRecord
      BY <1>1, <2>2, WriteDoneInv DEF ReactorInv
    <2>4. Advances(r, OnSampleWriteDone(r, ok), Len(drawn), Len(drawn'))
      BY <1>1, <2>2, WriteDoneAdvances
    <2>5. \A i \in Len(drawn) + 1 .. Len(drawn') : drawn'[i] = stream[s].worker
      BY <1>2 DEF TypeInv
    <2> QED
      BY <1>2, <1>3, <2>1, <2>3, <2>4, <2>5, ReactFlow
  <1>6. CASE ServerCancelled(s)
    <2>1. stream' = [stream EXCEPT ![s].reactor = Delivered(stream[s], OnCancel(r))]
      BY <1>6 DEF ServerCancelled, React
    <2>2. OnCancel(r) \in ReactorRecord /\ Quiet(r, OnCancel(r))
      BY <1>1, CancelInv, CancelQuiet DEF ReactorInv
    <2> QED
      BY <1>2, <1>3, <2>1, <2>2, QuietReactFlow
  <1>7. CASE TableFails(s)
    <2>1. PICK status \in TableErrors :
             stream' = [stream EXCEPT ![s].reactor =
                            Delivered(stream[s], SamplingFailed(r, status))]
      BY <1>7 DEF TableFails, React
    <2>2. SamplingFailed(r, status) \in ReactorRecord
      BY <1>1, SamplingFailedInv DEF ReactorInv
    <2>3. Quiet(r, SamplingFailed(r, status))
      BY <1>1, SamplingFailedQuiet
    <2> QED
      BY <1>2, <1>3, <2>1, <2>2, <2>3, QuietReactFlow
  <1> QED
    BY <1>2, <1>4, <1>5, <1>6, <1>7

LEMMA ServerReadsFlow ==
    ASSUME TypeInv, OrderInv, NEW s \in Streams, ServerReads(s)
    PROVE  StreamsFlow
  <1> DEFINE r == stream[s].reactor
             n == stream[s].request
             q == OnReadDone(r, ProcessSampleRequest(HasRead(r), n))
             z == 0
             y == [stream[s] EXCEPT !.request = z, !.reactor = q]
  <1>1. stream \in [Streams -> StreamRecord] /\ stream[s] \in StreamRecord
    BY DEF TypeInv
  <1>2. r \in ReactorRecord /\ n \in Nat
    BY <1>1 DEF StreamRecord
  <1>3. Quiet(r, q)
    BY <1>2, ReadDoneQuiet
  <1>4. /\ stream' = [stream EXCEPT ![s] = y] /\ drawn' = drawn
        /\ stream[s].ended = "no" /\ stream[s].worker # None
    BY <1>1 DEF ServerReads
  <1> HIDE DEF q, z
  <1>5. y.reactor = q /\ y.ended = stream[s].ended /\ y.worker = stream[s].worker
    BY <1>1 DEF StreamRecord
  <1> HIDE DEF y
  <1>6. Flowing(stream[s], y)
    BY <1>3, <1>4, <1>5, QuietFlow
  <1> QED
    BY <1>4, <1>6, FlowPut

LEMMA ServerDoneFlow ==
    ASSUME TypeInv, OrderInv, NEW s \in Streams, ServerDone(s)
    PROVE  StreamsFlow
  <1> DEFINE r == stream[s].reactor
             a == NewSampleReactor
             q == [a EXCEPT !.read_in_flight = FALSE, !.still_reading = FALSE,
                            !.is_finished = TRUE, !.status = r.status,
                            !.wire = r.wire]
             y == [stream[s] EXCEPT !.gone = TRUE, !.reactor = q]
  <1>1. stream \in [Streams -> StreamRecord] /\ stream[s] \in StreamRecord
    BY DEF TypeInv
  <1>2. stream' = [stream EXCEPT ![s] = y] /\ drawn' = drawn /\ r.is_finished
    BY <1>1 DEF ServerDone, FinishedReactor, MayCallOnDone
  <1>3. /\ stream[s].worker # None
        /\ stream[s].ended # "no" => r.wire = << >>
    BY <1>2, StreamFacts
  <1>4. a \in ReactorRecord /\ a.responses = << >>
    BY NewReactorInv, NewReactorFields DEF ReactorInv
  <1> HIDE DEF a
  <1>5. q.wire = r.wire /\ q.responses = << >>
    BY <1>4 DEF ReactorRecord
  <1> HIDE DEF q
  <1>6. y.reactor = q /\ y.ended = stream[s].ended /\ y.worker = stream[s].worker
    BY <1>1 DEF StreamRecord
  <1> HIDE DEF y
  <1>7. Quiet(r, q)
    BY <1>5 DEF Quiet
  <1>8. Flowing(stream[s], y)
    BY <1>2, <1>3, <1>5, <1>6, <1>7, QuietFlow
  <1> QED
    BY <1>2, <1>8, FlowPut

LEMMA EndStreamFlow ==
    ASSUME TypeInv, OrderInv, NEW s \in Streams, stream[s].worker # None,
           NEW how \in {"cancelled", "unavailable"}, drawn' = drawn
    PROVE  Flowing(stream[s], EndStream(stream[s], how))
  <1> DEFINE y == EndStream(stream[s], how)
             e == << >>
  <1>1. stream[s] \in StreamRecord /\ stream[s].reactor \in ReactorRecord
        /\ Exclusive(stream[s].reactor)
    BY DEF TypeInv, StreamRecord
  <1>2. /\ y.ended # "no" /\ y.worker = stream[s].worker
        /\ y.reactor = [stream[s].reactor EXCEPT !.wire = e]
    BY <1>1, EndStreamFacts
  <1> HIDE DEF y, e
  <1>3. y.reactor.wire = e /\ y.reactor.responses = stream[s].reactor.responses
    BY <1>1, <1>2 DEF ReactorRecord
  <1>4. Quiet(stream[s].reactor, y.reactor) /\ y.reactor.wire = << >>
    BY <1>3 DEF Quiet, e
  <1>5. Flowing(stream[s], y)
    BY <1>2, <1>4, QuietFlow
  <1> QED
    BY <1>5 DEF y

\* The stream of a worker is in use.
LEMMA WorkerStream ==
    ASSUME TypeInv, OrderInv, NEW w \in Workers, worker[w].stream \in Streams
    PROVE  stream[worker[w].stream].worker = w /\ w # None
  <1>1. w \in Nat
    BY OptionsFacts DEF TypeInv
  <1> QED
    BY <1>1, SamplerAssumption DEF OrderInv, Linked

LEMMA BreakFlow ==
    ASSUME TypeInv, OrderInv, NEW s \in Streams, Break(s)
    PROVE  StreamsFlow
  <1>1. PICK w \in Workers : worker[w].stream = s
    BY DEF Break
  <1>2. stream[s].worker # None
    BY <1>1, WorkerStream
  <1>3. stream' = [stream EXCEPT ![s] = EndStream(stream[s], "unavailable")]
        /\ drawn' = drawn
    BY DEF Break
  <1> QED
    BY <1>2, <1>3, EndStreamFlow, FlowPut

LEMMA CloseCancelsFlow ==
    ASSUME TypeInv, OrderInv, NEW w \in Workers, CloseCancels(w)
    PROVE  StreamsFlow
  <1>1. CASE worker[w].stream \notin Streams
    BY <1>1 DEF CloseCancels, StreamsFlow
  <1>2. CASE worker[w].stream \in Streams
    <2> DEFINE s == worker[w].stream
    <2>1. stream[s].worker # None
      BY <1>2, WorkerStream
    <2>2. stream' = [stream EXCEPT ![s] = EndStream(stream[s], "cancelled")]
          /\ drawn' = drawn
      BY <1>2 DEF CloseCancels, CancelStream
    <2> HIDE DEF s
    <2>3. s \in Streams
      BY <1>2 DEF s
    <2> QED
      BY <2>1, <2>2, <2>3, EndStreamFlow, FlowPut
  <1> QED
    BY <1>1, <1>2

LEMMA GrpcWritesFlow ==
    ASSUME TypeInv, OrderInv, NEW w \in Workers, GrpcWrites(w)
    PROVE  StreamsFlow
  <1> DEFINE s == worker[w].stream
             n == worker[w].request
             y == [stream[s] EXCEPT !.request = n]
  <1>1. worker[w] \in WorkerRecord /\ Placed(worker[w])
    BY DEF TypeInv
  <1>2. s \in Streams /\ drawn' = drawn
    BY <1>1 DEF Placed, GrpcWrites
  <1>3. stream \in [Streams -> StreamRecord] /\ stream[s] \in StreamRecord
    BY <1>2 DEF TypeInv
  <1>4. /\ stream[s].worker # None
        /\ stream[s].ended # "no" => stream[s].reactor.wire = << >>
    BY <1>2, WorkerStream, StreamFacts
  <1>5. stream' = stream \/ stream' = [stream EXCEPT ![s] = y]
    BY <1>2, <1>3 DEF GrpcWrites
  <1> HIDE DEF s, n
  <1>6. /\ y.reactor = stream[s].reactor /\ y.ended = stream[s].ended
        /\ y.worker = stream[s].worker
    BY <1>3 DEF StreamRecord
  <1> HIDE DEF y
  <1>7. Flowing(stream[s], y)
    BY <1>2, <1>4, <1>6, QuietFlow DEF Quiet
  <1>8. CASE stream' = stream
    BY <1>8 DEF StreamsFlow
  <1>9. CASE stream' = [stream EXCEPT ![s] = y]
    BY <1>2, <1>7, <1>9, FlowPut
  <1> QED
    BY <1>5, <1>8, <1>9

\* The client takes the first response from the wire.
LEMMA GrpcReadsFlow ==
    ASSUME TypeInv, OrderInv, NEW w \in Workers, GrpcReads(w)
    PROVE  LET s == worker[w].stream
               q == stream'[s].reactor
               r == stream[s].reactor
           IN  /\ StreamsFlow /\ s \in Streams /\ drawn' = drawn
               /\ stream[s].ended = "no" /\ stream'[s].ended = "no"
               /\ Ahead(q) = Flat(Tail(r.wire)) \cup Later(r.responses)
  <1> DEFINE s == worker[w].stream
             r == stream[s].reactor
             t == Tail(r.wire)
             q == [r EXCEPT !.wire = t]
             y == [stream[s] EXCEPT !.reactor = q]
  <1>1. worker[w] \in WorkerRecord /\ Placed(worker[w])
    BY DEF TypeInv
  <1>2. /\ s \in Streams /\ r.wire # << >> /\ stream[s].ended = "no"
        /\ drawn' = drawn
    BY <1>1 DEF Placed, GrpcReads
  <1>3. stream \in [Streams -> StreamRecord] /\ stream[s] \in StreamRecord
    BY <1>2 DEF TypeInv
  <1>4. r \in ReactorRecord /\ r.wire \in Seq(Response)
    BY <1>3 DEF StreamRecord, ReactorRecord
  <1>5. stream' = [stream EXCEPT ![s] = y]
    BY <1>2, <1>3, <1>4 DEF GrpcReads, StreamRecord, ReactorRecord
  <1>6. stream[s].worker # None /\ Ordered(r)
    BY <1>2, WorkerStream, StreamFacts
  <1>7. /\ Flat(t) \subseteq Flat(r.wire)
        /\ Sorted(r.wire) => Sorted(t)
    BY <1>2, <1>4, TailFlat
  <1> HIDE DEF t
  <1>8. q.wire = t /\ q.responses = r.responses
    BY <1>4 DEF ReactorRecord
  <1> HIDE DEF q
  <1>9. Advances(r, q, Len(drawn), Len(drawn'))
    <2>1. Ordered(q)
      BY <1>6, <1>7, <1>8 DEF Ordered
    <2> QED
      BY <1>7, <1>8, <2>1 DEF Advances, Ahead, Entries
  <1>10. y.reactor = q /\ y.ended = stream[s].ended /\ y.worker = stream[s].worker
    BY <1>3 DEF StreamRecord
  <1>11. \A i \in Len(drawn) + 1 .. Len(drawn') : drawn'[i] = stream[s].worker
    BY <1>2 DEF TypeInv
  <1> HIDE DEF y
  <1>12. Flowing(stream[s], y)
    BY <1>2, <1>6, <1>9, <1>10, <1>11 DEF Flowing
  <1>13. stream'[s] = y
    BY <1>2, <1>3, <1>5
  <1>14. Ahead(y.reactor) = Flat(t) \cup Later(r.responses)
    BY <1>8, <1>10 DEF Ahead
  <1>15. StreamsFlow
    BY <1>2, <1>5, <1>12, FlowPut
  <1> QED
    BY <1>2, <1>10, <1>13, <1>14, <1>15 DEF t

LEMMA GrpcOpensFlow ==
    ASSUME TypeInv, OrderInv, NEW w \in Workers, GrpcOpens(w)
    PROVE  /\ StreamsFlow
           /\ \/ worker'[w].stream = worker[w].stream
              \/ worker'[w].stream \in Streams /\ Opened(worker'[w].stream, w)
  <1>0. worker \in [Workers -> WorkerRecord] /\ worker[w] \in WorkerRecord
        /\ drawn' = drawn
    BY DEF TypeInv, GrpcOpens
  <1>1. CASE /\ stream' = stream
             /\ worker' = [worker EXCEPT ![w] = Return(@, 0, "cancelled")]
    <2>1. worker'[w] = Return(worker[w], 0, "cancelled")
      BY <1>0, <1>1
    <2>2. worker'[w].stream = worker[w].stream
      BY <1>0, <2>1, ReturnFacts DEF Statuses
    <2> QED
      BY <1>1, <2>2 DEF StreamsFlow
  <1>2. CASE \E s \in Unused :
               /\ stream' = [t \in Streams |->
                        IF t = s THEN [stream[s] EXCEPT !.worker = w]
                        ELSE IF t = worker[w].stream THEN CancelStream(stream[t])
                        ELSE stream[t]]
               /\ worker' = [worker EXCEPT ![w].pc = "reserve", ![w].stream = s]
    <2>1. PICK s \in Unused :
               /\ stream' = [t \in Streams |->
                        IF t = s THEN [stream[s] EXCEPT !.worker = w]
                        ELSE IF t = worker[w].stream THEN CancelStream(stream[t])
                        ELSE stream[t]]
               /\ worker' = [worker EXCEPT ![w].pc = "reserve", ![w].stream = s]
      BY <1>2
    <2>2. s \in Streams /\ stream[s].worker = None /\ stream[s] = UnusedStream
      BY DEF Unused, OrderInv, Linked
    <2>3. worker'[w].stream = s
      BY <1>0, <2>1 DEF WorkerRecord
    <2>4. Opened(s, w)
      BY <2>1, <2>2 DEF Opened, GrpcOpens
    <2>5. ASSUME NEW t \in Streams, t # s
          PROVE  stream'[t] = stream[t] \/ Flowing(stream[t], stream'[t])
      <3>1. CASE t = worker[w].stream
        <4>1. stream'[t] = EndStream(stream[t], "cancelled")
          BY <2>1, <2>5, <3>1 DEF CancelStream
        <4>2. stream[t].worker # None
          BY <3>1, WorkerStream
        <4> QED
          BY <1>0, <4>1, <4>2, EndStreamFlow
      <3>2. CASE t # worker[w].stream
        BY <2>1, <2>5, <3>2
      <3> QED
        BY <3>1, <3>2
    <2>6. StreamsFlow
      BY <2>3, <2>4, <2>5 DEF StreamsFlow
    <2> QED
      BY <2>2, <2>3, <2>4, <2>6
  <1> QED
    BY <1>1, <1>2 DEF GrpcOpens

\* The table gives new samples to the worker of the stream.
LEMMA TableSamplesFlow ==
    ASSUME TypeInv, OrderInv, NEW s \in Streams, TableSamples(s)
    PROVE  StreamsFlow /\ DrawnGrows
  <1> DEFINE r == stream[s].reactor
             d == Len(drawn)
  <1>1. ReactorInv(r) /\ r.enqueued \in Int /\ stream[s].worker \in Nat \cup {None}
    BY DEF TypeInv, ReactorInv, StreamRecord, ReactorRecord
  <1>2. PICK n \in 1 .. r.enqueued :
          /\ Draw(n, stream[s].worker)
          /\ stream' = [stream EXCEPT ![s].reactor =
                            Delivered(stream[s], SamplingDone(r, NextSamples(n)))]
    BY DEF TableSamples, React
  <1>3. n \in Nat
    BY <1>1
  <1>4. /\ d \in Nat /\ \A i \in 1 .. n : d + i \in Samples
        /\ Len(drawn') = d + n
        /\ \A i \in 1 .. d : drawn'[i] = drawn[i]
        /\ \A i \in 1 .. n : drawn'[d + i] = stream[s].worker
    BY <1>1, <1>2, <1>3, DrawFacts
  <1>5. /\ Ordered(r) /\ stream[s].worker # None
        /\ \A i \in 1 .. d : i \in Samples
    BY StreamFacts DEF TableSamples, OrderInv
  <1>6. \A e \in Entries(r) : e.sample <= d
    BY <1>4 DEF OrderInv, StreamsOrdered, Owned
  <1> DEFINE q == SamplingDone(r, NextSamples(n))
  <1>7. q = SamplingDone(r, [i \in 1 .. n |-> d + i])
    BY DEF NextSamples
  <1> HIDE DEF q, d, r
  <1>8. Advances(r, q, d, d + n)
    BY <1>1, <1>3, <1>4, <1>5, <1>6, <1>7, SamplingDoneAdvances
  <1>9. q \in ReactorRecord
    BY <1>1, <1>3, <1>4, <1>7, SamplingDoneInv DEF ReactorInv
  <1>10. ASSUME NEW i \in d + 1 .. d + n PROVE drawn'[i] = stream[s].worker
    <2>1. i - d \in 1 .. n /\ d + (i - d) = i
      BY <1>3, <1>4
    <2> QED
      BY <1>4, <2>1
  <1>11. StreamsFlow
    BY <1>2, <1>4, <1>5, <1>8, <1>9, <1>10, ReactFlow DEF q, d, r
  <1>12. ASSUME NEW i \in 1 .. d + n PROVE i \in Samples
    <2>1. CASE i <= d
      BY <1>4, <1>5, <2>1
    <2>2. CASE i > d
      <3>1. i - d \in 1 .. n /\ d + (i - d) = i
        BY <1>3, <1>4, <2>2
      <3> QED
        BY <1>4, <3>1
    <2> QED
      BY <1>4, <2>1, <2>2
  <1>13. DrawnGrows
    BY <1>3, <1>4, <1>12 DEF DrawnGrows, d
  <1> QED
    BY <1>11, <1>13

-----------------------------------------------------------------------------
(* What a step does to the parts that a worker has read. *)

LEMMA ReturnKeeps ==
    ASSUME NEW x \in WorkerRecord, NEW got, NEW status
    PROVE  Return(x, got, status).stream = x.stream
           /\ Return(x, got, status).parts = << >>
  BY DEF Return, WorkerRecord

\* Worker w keeps its stream, and holds no parts unless it has just read some.
Settles(w) ==
    /\ worker'[w].stream = worker[w].stream
    /\ worker'[w].parts = << >>

LEMMA ReturnSettles ==
    ASSUME TypeInv, NEW w \in Workers, NEW got, NEW status,
           worker' = [worker EXCEPT ![w] = Return(worker[w], got, status)]
    PROVE  Settles(w)
  <1>1. worker \in [Workers -> WorkerRecord] /\ worker[w] \in WorkerRecord
    BY DEF TypeInv
  <1>2. worker'[w] = Return(worker[w], got, status)
    BY <1>1
  <1> QED
    BY <1>1, <1>2, ReturnKeeps DEF Settles

LEMMA FieldsSettle ==
    ASSUME TypeInv, OrderInv, NEW w \in Workers, worker[w].pc # "read", NEW x,
           worker' = [worker EXCEPT ![w] = x],
           x.stream = worker[w].stream, x.parts = worker[w].parts
    PROVE  Settles(w)
  <1>1. worker \in [Workers -> WorkerRecord]
    BY DEF TypeInv
  <1>2. worker'[w] = x
    BY <1>1
  <1>3. worker[w].parts = << >>
    BY DEF OrderInv, PartsOrdered
  <1> QED
    BY <1>2, <1>3 DEF Settles

LEMMA WorkerSettles ==
    ASSUME TypeInv, OrderInv, NEW w \in Workers, WorkerStep(w),
           ~GrpcReads(w), ~GrpcOpens(w)
    PROVE  Settles(w)
  <1>1. worker \in [Workers -> WorkerRecord] /\ worker[w] \in WorkerRecord
    BY DEF TypeInv
  <1> DEFINE r == worker[w]
             z == 0
  <1>2. CASE WorkerStops(w)
    <2> DEFINE x == [r EXCEPT !.pc = "stopped"]
    <2>1. worker' = [worker EXCEPT ![w] = x] /\ r.pc # "read"
      BY <1>2 DEF WorkerStops
    <2>2. x.stream = r.stream /\ x.parts = r.parts
      BY <1>1 DEF WorkerRecord
    <2> HIDE DEF x
    <2> QED
      BY <2>1, <2>2, FieldsSettle
  <1>3. CASE WorkerStarts(w)
    <2> DEFINE n == Lesser(MaxSamplesPerStream, MaxSamples - sampler.requested)
               x == [r EXCEPT !.pc = "fetch", !.to_stream = n,
                              !.prev_batch_size = InitialSampleBatchSize]
    <2>1. worker' = [worker EXCEPT ![w] = x] /\ r.pc # "read"
      BY <1>1, <1>3 DEF WorkerStarts
    <2> HIDE DEF n
    <2>2. x.stream = r.stream /\ x.parts = r.parts
      BY <1>1 DEF WorkerRecord
    <2> HIDE DEF x
    <2> QED
      BY <2>1, <2>2, FieldsSettle
  <1>4. CASE WorkerReports(w)
    <2>1. PICK p : worker' = [worker EXCEPT ![w].pc = p, ![w].to_stream = 0,
                                            ![w].got = 0, ![w].status = "ok"]
      BY <1>4 DEF WorkerReports
    <2> DEFINE x == [r EXCEPT !.pc = p, !.to_stream = z, !.got = z, !.status = "ok"]
    <2>2. worker' = [worker EXCEPT ![w] = x] /\ r.pc # "read"
      BY <1>1, <1>4, <2>1 DEF WorkerReports
    <2> HIDE DEF z
    <2>3. x.stream = r.stream /\ x.parts = r.parts
      BY <1>1 DEF WorkerRecord
    <2> HIDE DEF x
    <2> QED
      BY <2>2, <2>3, FieldsSettle
  <1>5. CASE GrpcReserves(w)
    <2> DEFINE n == GrpcRequestSize(w)
               x == [r EXCEPT !.pc = "write", !.reserved_slots = n,
                              !.request = n, !.sampled = z]
    <2>1. /\ \/ worker' = [worker EXCEPT ![w] = Return(r, r.got, "cancelled")]
             \/ worker' = [worker EXCEPT ![w] = x]
          /\ r.pc # "read"
      BY <1>1, <1>5 DEF GrpcReserves
    <2> HIDE DEF n, z
    <2>2. x.stream = r.stream /\ x.parts = r.parts
      BY <1>1 DEF WorkerRecord
    <2> HIDE DEF x
    <2> QED
      BY <2>1, <2>2, FieldsSettle, ReturnSettles
  <1>6. CASE GrpcCompletes(w)
    <2>1. PICK status : worker' = [worker EXCEPT ![w] = Return(r, r.got, status)]
      BY <1>6 DEF GrpcCompletes
    <2> QED
      BY <2>1, ReturnSettles
  <1>7. CASE GrpcWrites(w)
    <2> DEFINE x == [r EXCEPT !.pc = "read"]
    <2>1. /\ \/ \E status : worker' = [worker EXCEPT ![w] = Return(r, r.got, status)]
             \/ worker' = [worker EXCEPT ![w] = x]
          /\ r.pc # "read"
      BY <1>1, <1>7 DEF GrpcWrites
    <2>2. x.stream = r.stream /\ x.parts = r.parts
      BY <1>1 DEF WorkerRecord
    <2> HIDE DEF x
    <2> QED
      BY <2>1, <2>2, FieldsSettle, ReturnSettles
  <1>8. CASE GrpcReadFails(w)
    <2>1. PICK status : worker' = [worker EXCEPT ![w] = Return(r, r.got, status)]
      BY <1>8 DEF GrpcReadFails
    <2> QED
      BY <2>1, ReturnSettles
  <1>9. CASE LocalStarts(w)
    <2> DEFINE x == [r EXCEPT !.pc = "reserve"]
    <2>1. /\ \/ worker' = [worker EXCEPT ![w] = Return(r, 0, "cancelled")]
             \/ worker' = [worker EXCEPT ![w] = x]
          /\ r.pc # "read"
      BY <1>1, <1>9 DEF LocalStarts
    <2>2. x.stream = r.stream /\ x.parts = r.parts
      BY <1>1 DEF WorkerRecord
    <2> HIDE DEF x
    <2> QED
      BY <2>1, <2>2, FieldsSettle, ReturnSettles
  <1>10. CASE LocalReserves(w)
    <2> DEFINE n == LocalBatchSize(w)
               x == [r EXCEPT !.pc = "sample", !.reserved_slots = n, !.request = n]
    <2>1. /\ \/ worker' = [worker EXCEPT ![w] = Return(r, r.got, "cancelled")]
             \/ worker' = [worker EXCEPT ![w] = x]
          /\ r.pc # "read"
      BY <1>1, <1>10 DEF LocalReserves
    <2> HIDE DEF n
    <2>2. x.stream = r.stream /\ x.parts = r.parts
      BY <1>1 DEF WorkerRecord
    <2> HIDE DEF x
    <2> QED
      BY <2>1, <2>2, FieldsSettle, ReturnSettles
  <1>11. CASE LocalSamples(w)
    <2>1. PICK n \in 1 .. r.request :
            worker' = [worker EXCEPT ![w].pc = "fetch", ![w].got = @ + n,
                                     ![w].reserved_slots = @ - n,
                                     ![w].prev_batch_size = n]
      BY <1>11 DEF LocalSamples
    <2> DEFINE a == r.got + n
               b == r.reserved_slots - n
               x == [r EXCEPT !.pc = "fetch", !.got = a, !.reserved_slots = b,
                              !.prev_batch_size = n]
    <2>2. worker' = [worker EXCEPT ![w] = x] /\ r.pc # "read"
      BY <1>1, <1>11, <2>1 DEF LocalSamples
    <2> HIDE DEF a, b
    <2>3. x.stream = r.stream /\ x.parts = r.parts
      BY <1>1 DEF WorkerRecord
    <2> HIDE DEF x
    <2> QED
      BY <2>2, <2>3, FieldsSettle
  <1>12. CASE LocalTimesOut(w) \/ LocalFails(w)
    <2> DEFINE x == [r EXCEPT !.pc = "fetch"]
    <2>1. /\ \/ \E status : worker' = [worker EXCEPT ![w] = Return(r, r.got, status)]
             \/ worker' = [worker EXCEPT ![w] = x]
          /\ r.pc # "read"
      BY <1>1, <1>12 DEF LocalTimesOut, LocalFails
    <2>2. x.stream = r.stream /\ x.parts = r.parts
      BY <1>1 DEF WorkerRecord
    <2> HIDE DEF x
    <2> QED
      BY <2>1, <2>2, FieldsSettle, ReturnSettles
  <1> QED
    BY <1>2, <1>3, <1>4, <1>5, <1>6, <1>7, <1>8, <1>9, <1>10, <1>11, <1>12
       DEF WorkerStep, FetchGrpc, FetchLocal

LEMMA OpensSettles ==
    ASSUME TypeInv, OrderInv, NEW w \in Workers, GrpcOpens(w)
    PROVE  worker'[w].parts = << >>
  <1> DEFINE r == worker[w]
  <1>1. worker \in [Workers -> WorkerRecord] /\ r \in WorkerRecord
    BY DEF TypeInv
  <1>2. r.pc = "fetch" /\ r.parts = << >>
    BY DEF GrpcOpens, OrderInv, PartsOrdered
  <1>3. \/ worker' = [worker EXCEPT ![w] = Return(r, 0, "cancelled")]
        \/ \E s \in Streams : worker' = [worker EXCEPT ![w].pc = "reserve", ![w].stream = s]
    BY DEF GrpcOpens, Unused
  <1>4. CASE worker' = [worker EXCEPT ![w] = Return(r, 0, "cancelled")]
    BY <1>4, ReturnSettles DEF Settles
  <1>5. CASE \E s \in Streams :
               worker' = [worker EXCEPT ![w].pc = "reserve", ![w].stream = s]
    <2>1. PICK s \in Streams :
               worker' = [worker EXCEPT ![w].pc = "reserve", ![w].stream = s]
      BY <1>5
    <2> DEFINE x == [r EXCEPT !.pc = "reserve", !.stream = s]
    <2>2. worker'[w] = x
      BY <1>1, <2>1
    <2>3. x.parts = r.parts
      BY <1>1 DEF WorkerRecord
    <2> QED
      BY <1>2, <2>2, <2>3
  <1> QED
    BY <1>3, <1>4, <1>5

\* What a worker has after it has read a response.
LEMMA ReadSettles ==
    ASSUME TypeInv, NEW w \in Workers, GrpcReads(w)
    PROVE  LET acc == Unpacked(w)
           IN  /\ worker'[w].stream = worker[w].stream
               /\ \/ worker'[w].parts = << >>
                  \/ worker'[w].parts = acc.parts /\ worker'[w].pc = "read"
               /\ \/ queue' = queue
                  \/ /\ queue' = PushBatch(queue, acc.samples)
                     /\ Len(acc.samples) <= worker[w].reserved_slots
  <1> DEFINE r == worker[w]
             s == r.stream
             acc == Unpacked(w)
             xs == acc.samples
             n == Len(xs)
             ps == acc.parts
             excess == n > r.reserved_slots
             a == r.got + n
             b == r.sampled + n
             rec == [r EXCEPT !.got = a, !.sampled = b, !.parts = ps]
             done == Pushed(r, n, ps)
             x == IF rec.sampled < rec.request THEN done
                  ELSE IF rec.parts # << >> THEN Return(done, rec.got, "internal")
                  ELSE [done EXCEPT !.pc = "reserve"]
  <1>1. worker \in [Workers -> WorkerRecord] /\ r \in WorkerRecord /\ Placed(r)
    BY DEF TypeInv
  <1>2. r.pc = "read" /\ options.kind = "grpc" /\ stream[s].reactor.wire # << >>
    BY DEF GrpcReads
  <1>3. s \in Streams
    BY <1>1, <1>2 DEF Placed
  <1>4. \/ /\ worker' = [worker EXCEPT ![w] = Return(rec, rec.got, "internal")]
           /\ queue' = queue
        \/ /\ ~(acc.failed \/ excess)
           /\ queue' = PushBatch(queue, xs)
           /\ worker' = [worker EXCEPT ![w] = x]
    BY DEF GrpcReads, Unpacked, Pushed
  <1>5. acc \in Unpacking
    BY <1>2, <1>3, UnpackedType
  <1> HIDE DEF acc
  <1>6. xs \in Seq(Nat) /\ ps \in Seq(Entry) /\ n \in Nat
    BY <1>5 DEF Unpacking
  <1>7. a \in Nat /\ b \in Nat /\ r.reserved_slots \in Nat
    <2>1. r.got \in Nat /\ r.sampled \in Nat /\ r.reserved_slots \in Nat
      BY <1>1, WorkerNumbers
    <2> HIDE DEF r, n
    <2> QED
      BY <1>6, <2>1
  <1> HIDE DEF n, ps, a, b, xs
  <1>8. rec \in WorkerRecord /\ rec.stream = r.stream /\ rec.parts = ps
    BY <1>1, <1>6, <1>7 DEF WorkerRecord
  <1> HIDE DEF rec
  <1>9. CASE /\ worker' = [worker EXCEPT ![w] = Return(rec, rec.got, "internal")]
             /\ queue' = queue
    <2>1. worker'[w] = Return(rec, rec.got, "internal")
      BY <1>1, <1>9
    <2>2. worker'[w].stream = r.stream /\ worker'[w].parts = << >>
      BY <1>8, <2>1, ReturnKeeps
    <2> QED
      BY <1>9, <2>2
  <1>10. CASE /\ ~(acc.failed \/ excess)
              /\ queue' = PushBatch(queue, xs)
              /\ worker' = [worker EXCEPT ![w] = x]
    <2>1. n <= r.reserved_slots
      BY <1>6, <1>7, <1>10
    <2>2. /\ done \in WorkerRecord /\ done.stream = r.stream /\ done.pc = r.pc
          /\ done.parts = ps
      BY <1>1, <1>6, <2>1, PushedFacts
    <2> HIDE DEF done
    <2> DEFINE y == Return(done, rec.got, "internal")
               z == [done EXCEPT !.pc = "reserve"]
    <2>3. y.stream = done.stream /\ y.parts = << >>
      BY <2>2, ReturnKeeps
    <2>4. z.stream = done.stream /\ z.parts = done.parts
      BY <2>2 DEF WorkerRecord
    <2>5. x = done \/ x = y \/ (x = z /\ ps = << >>)
      BY <1>8
    <2>6. worker'[w] = x
      BY <1>1, <1>10
    <2> HIDE DEF x, y, z
    <2>7. /\ x.stream = r.stream
          /\ x.parts = << >> \/ (x.parts = ps /\ x.pc = "read")
      BY <1>2, <2>2, <2>3, <2>4, <2>5
    <2>8. /\ worker'[w].stream = r.stream
          /\ \/ worker'[w].parts = << >>
             \/ worker'[w].parts = ps /\ worker'[w].pc = "read"
      BY <2>6, <2>7
    <2> QED
      BY <1>10, <2>1, <2>8 DEF acc, ps, xs, n
  <1> QED
    BY <1>4, <1>9, <1>10

LEMMA UnpackedOrder ==
    ASSUME TypeInv, OrderInv, NEW w \in Workers, GrpcReads(w)
    PROVE  LET s == worker[w].stream
               src == Elements(worker[w].parts)
                          \cup Elements(Head(stream[s].reactor.wire))
           IN  /\ UnpackedBefore(Unpacked(w), src, Ahead(stream'[s].reactor))
               /\ Elements(Head(stream[s].reactor.wire)) \subseteq Line(w)
               /\ src \subseteq Elements(worker[w].parts) \cup Line(w)
  <1> DEFINE s == worker[w].stream
             r == stream[s].reactor
             resp == Head(r.wire)
             after == Ahead(stream'[s].reactor)
             ps == worker[w].parts
             src == Elements(ps) \cup Elements(resp)
             z == << >>
             acc == [parts |-> ps, samples |-> z, failed |-> FALSE]
  <1>1. /\ s \in Streams /\ stream[s].ended = "no"
        /\ after = Flat(Tail(r.wire)) \cup Later(r.responses)
    BY GrpcReadsFlow
  <1>2. r \in ReactorRecord /\ Ordered(r)
    BY <1>1, StreamFacts
  <1>3. /\ r.wire \in Seq(Response) /\ r.responses \in Seq(Response)
        /\ r.wire # << >>
    BY <1>2 DEF ReactorRecord, GrpcReads
  <1>4. /\ resp \in Response /\ resp = r.wire[1] /\ Len(r.wire) \in Nat \ {0}
        /\ Tail(r.wire) \in Seq(Response)
    BY <1>3, TailFacts
  <1>5. Flat(Tail(r.wire)) \subseteq Later(r.wire)
    BY <1>3, TailFlat
  <1>6. Elements(resp) \subseteq Flat(r.wire) /\ Later(r.wire) \subseteq Flat(r.wire)
    <2>1. Elements(r.wire[1]) \subseteq Flat(r.wire)
      BY <1>4, HeadFlat
    <2> QED
      BY <1>4, <2>1, LaterFlat
  <1>7. Flat(r.wire) \subseteq Entry /\ Flat(r.responses) \subseteq Entry
        /\ Later(r.responses) \subseteq Flat(r.responses)
    BY <1>3, FlatType, LaterFlat
  <1>8. Line(w) = Flat(r.wire) \cup Later(r.responses)
    BY <1>1 DEF Line, Ahead
  <1>9. ps \in Seq(Entry)
    BY DEF TypeInv, WorkerRecord
  <1>10. Elements(ps) \subseteq Entry /\ Elements(resp) \subseteq Entry
         /\ after \subseteq Entry
    BY <1>1, <1>5, <1>6, <1>7, <1>9 DEF Elements
  <1>11. \A e \in Elements(resp), f \in Later(r.wire) : Before(e, f)
    <2> SUFFICES ASSUME NEW e \in Elements(resp), NEW f \in Later(r.wire)
                 PROVE  Before(e, f)
      OBVIOUS
    <2>1. PICK i \in 1 .. Len(r.wire[1]) : e = r.wire[1][i]
      BY <1>4 DEF Elements
    <2>2. PICK p \in 2 .. Len(r.wire) : \E j \in 1 .. Len(r.wire[p]) : f = r.wire[p][j]
      BY DEF Later
    <2>3. PICK j \in 1 .. Len(r.wire[p]) : f = r.wire[p][j]
      BY <2>2
    <2>4. 1 \in 1 .. Len(r.wire) /\ p \in 1 .. Len(r.wire) /\ 1 < p
      BY <1>4
    <2> QED
      BY <1>2, <2>1, <2>3, <2>4 DEF Sorted, Ordered
  <1>12. \A e \in Elements(resp), f \in after : Before(e, f)
    BY <1>1, <1>2, <1>5, <1>6, <1>11 DEF Ordered
  <1>13. \A i, j \in 1 .. Len(resp) : i < j => Before(resp[i], resp[j])
    <2>1. Sorted(r.wire) /\ 1 \in 1 .. Len(r.wire)
      BY <1>2, <1>4 DEF Ordered
    <2>2. \A i, j \in 1 .. Len(r.wire[1]) :
             i < j => Before(r.wire[1][i], r.wire[1][j])
      BY <2>1, SortedHead
    <2> QED
      BY <1>4, <2>2
  <1>14. \A e \in Elements(ps) : \A f \in Line(w) : Before(e, f)
    BY DEF OrderInv, PartsOrdered
  <1>15. Elements(resp) \cup after \subseteq Line(w)
    BY <1>1, <1>5, <1>6, <1>8
  <1>16. Unpacked(w) = FoldLeft(Unpack, acc, resp)
    BY DEF Unpacked
  <1>17. z \in Seq(Nat) /\ Len(z) = 0
    BY EmptySeq
  <1> HIDE DEF ps, z, resp, after
  <1>18. UnpackedBefore(acc, src, Elements(resp) \cup after)
    <2>1. acc \in Unpacking
      BY <1>9, <1>17 DEF Unpacking
    <2>2. \A p \in 1 .. Len(ps) : ps[p] \in Elements(ps)
      BY DEF Elements
    <2>3. \A p \in 1 .. Len(ps) : /\ ps[p] \in src
                                  /\ \A f \in Elements(resp) \cup after : Before(ps[p], f)
      BY <1>14, <1>15, <2>2
    <2>4. 1 .. Len(z) = {}
      BY <1>17
    <2>5. acc.parts = ps /\ acc.samples = z
      OBVIOUS
    <2> HIDE DEF acc, src
    <2> QED
      BY <2>1, <2>3, <2>4, <2>5 DEF UnpackedBefore
  <1>19. UnpackedBefore(FoldLeft(Unpack, acc, resp), src, after)
    <2>1. src \subseteq Entry /\ Elements(resp) \subseteq src
      BY <1>10
    <2> HIDE DEF acc, src
    <2> QED
      BY <1>4, <1>10, <1>12, <1>13, <1>18, <2>1, UnpackLoopBefore
  <1> HIDE DEF acc
  <1>20. UnpackedBefore(Unpacked(w), src, after)
    BY <1>16, <1>19
  <1> QED
    BY <1>15, <1>20 DEF ps, resp, after

-----------------------------------------------------------------------------
(* All steps. *)

\* Worker w keeps its stream or opens one; it keeps its parts, drops them or
\* reads.
PartsMove(w) ==
    /\ \/ worker'[w].stream = worker[w].stream
       \/ worker'[w].stream \in Streams /\ Opened(worker'[w].stream, w)
    /\ \/ worker'[w].parts = worker[w].parts /\ worker'[w].pc = worker[w].pc
       \/ worker'[w].parts = << >>
       \/ GrpcReads(w)

LEMMA SameDrawnGrows ==
    ASSUME TypeInv, OrderInv, drawn' = drawn
    PROVE  DrawnGrows
  <1>1. Len(drawn) \in Nat
    BY DEF TypeInv
  <1> QED
    BY <1>1 DEF DrawnGrows, OrderInv

LEMMA DrawGrows ==
    ASSUME TypeInv, OrderInv, NEW n \in Nat, NEW w \in Nat \cup {None}, Draw(n, w)
    PROVE  DrawnGrows
  <1> DEFINE d == Len(drawn)
  <1>1. /\ d \in Nat /\ \A i \in 1 .. n : d + i \in Samples
        /\ Len(drawn') = d + n
        /\ \A i \in 1 .. d : drawn'[i] = drawn[i]
    BY DrawFacts
  <1>2. \A i \in 1 .. d : i \in Samples
    BY DEF OrderInv
  <1> HIDE DEF d
  <1>3. ASSUME NEW i \in 1 .. d + n PROVE i \in Samples
    <2>1. CASE i <= d
      BY <1>1, <1>2, <2>1
    <2>2. CASE i > d
      <3>1. i - d \in 1 .. n /\ d + (i - d) = i
        BY <1>1, <2>2
      <3> QED
        BY <1>1, <3>1
    <2> QED
      BY <1>1, <2>1, <2>2
  <1> QED
    BY <1>1, <1>3 DEF DrawnGrows, d

LEMMA WorkerStepFlow ==
    ASSUME TypeInv, OrderInv, NEW w \in Workers, WorkerStep(w)
    PROVE  StreamsFlow /\ DrawnGrows /\ \A v \in Workers : PartsMove(v)
  <1>1. PICK x : Becomes(w, x)
    BY WorkerStepFacts
  <1>2. \A v \in Workers : v # w => worker'[v] = worker[v]
    BY <1>1 DEF Becomes, TypeInv
  <1>3. StreamsFlow
    <2>1. CASE GrpcOpens(w)
      BY <2>1, GrpcOpensFlow
    <2>2. CASE GrpcWrites(w)
      BY <2>2, GrpcWritesFlow
    <2>3. CASE GrpcReads(w)
      BY <2>3, GrpcReadsFlow
    <2>4. CASE ~GrpcOpens(w) /\ ~GrpcWrites(w) /\ ~GrpcReads(w)
      <3>1. stream' = stream
        BY <2>4 DEF WorkerStep, FetchGrpc, FetchLocal, WorkerStops, WorkerStarts,
             WorkerReports, GrpcReserves, GrpcCompletes, GrpcReadFails, LocalStarts,
             LocalReserves, LocalSamples, LocalTimesOut, LocalFails
      <3> QED
        BY <3>1 DEF StreamsFlow
    <2> QED
      BY <2>1, <2>2, <2>3, <2>4
  <1>4. DrawnGrows
    <2>1. CASE LocalSamples(w)
      <3>1. PICK n \in 1 .. worker[w].request : Draw(n, w)
        BY <2>1 DEF LocalSamples
      <3>2. n \in Nat /\ w \in Nat
        BY OptionsFacts DEF TypeInv, WorkerRecord
      <3> QED
        BY <3>1, <3>2, DrawGrows
    <2>2. CASE ~LocalSamples(w)
      <3>1. drawn' = drawn
        BY <2>2 DEF WorkerStep, FetchGrpc, FetchLocal, WorkerStops,
             WorkerStarts, WorkerReports, GrpcOpens, GrpcReserves, GrpcCompletes,
             GrpcWrites, GrpcReads, GrpcReadFails, LocalStarts, LocalReserves,
             LocalTimesOut, LocalFails
      <3> QED
        BY <3>1, SameDrawnGrows
    <2> QED
      BY <2>1, <2>2
  <1>5. PartsMove(w)
    <2>1. CASE GrpcOpens(w)
      BY <2>1, GrpcOpensFlow, OpensSettles DEF PartsMove
    <2>2. CASE GrpcReads(w)
      BY <2>2, ReadSettles DEF PartsMove
    <2>3. CASE ~GrpcOpens(w) /\ ~GrpcReads(w)
      BY <2>3, WorkerSettles DEF PartsMove, Settles
    <2> QED
      BY <2>1, <2>2, <2>3
  <1> QED
    BY <1>2, <1>3, <1>4, <1>5 DEF PartsMove

LEMMA StreamStepFlow ==
    ASSUME TypeInv, OrderInv, NEW s \in Streams,
           ServerStep(s) \/ Break(s) \/ TableSamples(s) \/ TableFails(s)
    PROVE  StreamsFlow /\ DrawnGrows /\ worker' = worker
  <1>1. worker' = worker
    BY DEF ServerStep, ServerReads, ServerReadEnds, ServerWriteDone,
           ServerCancelled, ServerDone, Break, TableSamples, TableFails, React
  <1>2. CASE ServerReads(s)
    BY <1>1, <1>2, ServerReadsFlow, SameDrawnGrows DEF ServerReads
  <1>3. CASE ServerDone(s)
    BY <1>1, <1>3, ServerDoneFlow, SameDrawnGrows DEF ServerDone
  <1>4. CASE Break(s)
    BY <1>1, <1>4, BreakFlow, SameDrawnGrows DEF Break
  <1>5. CASE TableSamples(s)
    BY <1>1, <1>5, TableSamplesFlow
  <1>6. CASE ServerReadEnds(s) \/ ServerWriteDone(s) \/ ServerCancelled(s)
               \/ TableFails(s)
    BY <1>1, <1>6, ReactMethodsFlow, SameDrawnGrows
  <1> QED
    BY <1>2, <1>3, <1>4, <1>5, <1>6 DEF ServerStep

LEMMA OtherStepFlow ==
    ASSUME TypeInv, OrderInv,
           \/ ConsumerStep \/ ContinueSample \/ StartPop \/ CloserStep
           \/ CloseSets \/ UNCHANGED vars
    PROVE  StreamsFlow /\ DrawnGrows /\ \A v \in Workers : PartsMove(v)
  <1>1. drawn' = drawn
    BY DEF ConsumerStep, NextTimestep, PopSample, CountTrajectory, PopFails,
         PopNextSampleFails, ContinueSample, StartPop, CloserStep, CloseCancels,
         CloseEnds, CloseJoins, CloseSets, vars
  <1>2. CASE \E w \in Workers : CloseCancels(w)
    <2>1. PICK w \in Workers : CloseCancels(w)
      BY <1>2
    <2> DEFINE x == [worker[w] EXCEPT !.closed = TRUE]
    <2>2. worker \in [Workers -> WorkerRecord] /\ worker[w] \in WorkerRecord
      BY DEF TypeInv
    <2>3. worker' = [worker EXCEPT ![w] = x]
      BY <2>1, <2>2 DEF CloseCancels
    <2>4. /\ x.stream = worker[w].stream /\ x.parts = worker[w].parts
          /\ x.pc = worker[w].pc
      BY <2>2 DEF WorkerRecord
    <2> HIDE DEF x
    <2>5. \A v \in Workers : PartsMove(v)
      BY <2>2, <2>3, <2>4 DEF PartsMove
    <2> QED
      BY <1>1, <2>1, <2>5, CloseCancelsFlow, SameDrawnGrows
  <1>3. CASE ~ \E w \in Workers : CloseCancels(w)
    <2>1. stream' = stream /\ worker' = worker
      BY <1>3 DEF ConsumerStep, NextTimestep, PopSample, CountTrajectory, PopFails,
         PopNextSampleFails, ContinueSample, StartPop, CloserStep,
         CloseEnds, CloseJoins, CloseSets, vars
    <2> QED
      BY <1>1, <2>1, SameDrawnGrows DEF StreamsFlow, PartsMove
  <1> QED
    BY <1>2, <1>3

LEMMA StepFlow ==
    ASSUME TypeInv, OrderInv, [Next]_vars
    PROVE  StreamsFlow /\ DrawnGrows /\ \A v \in Workers : PartsMove(v)
  <1>1. ASSUME NEW s \in Streams,
               ServerStep(s) \/ Break(s) \/ TableSamples(s) \/ TableFails(s)
        PROVE  StreamsFlow /\ DrawnGrows /\ \A v \in Workers : PartsMove(v)
    BY <1>1, StreamStepFlow DEF PartsMove
  <1> QED
    BY <1>1, WorkerStepFlow, OtherStepFlow DEF Next

\* A sample that is drawn for w after the step.
OwnedNext(x, w) == x \in 1 .. Len(drawn') /\ drawn'[x] = w

LEMMA OwnedStep ==
    ASSUME DrawnGrows, NEW x, NEW w, Owned(x, w)
    PROVE  OwnedNext(x, w)
  BY DEF Owned, OwnedNext, DrawnGrows

LEMMA NewOwned ==
    ASSUME DrawnGrows, NEW w, NEW e \in New(Len(drawn), Len(drawn')),
           \A i \in Len(drawn) + 1 .. Len(drawn') : drawn'[i] = w
    PROVE  OwnedNext(e.sample, w)
  <1>1. e.sample \in Nat /\ Len(drawn) < e.sample /\ e.sample <= Len(drawn')
    BY DEF New, Entry
  <1>2. e.sample \in Len(drawn) + 1 .. Len(drawn') /\ e.sample \in 1 .. Len(drawn')
    BY <1>1 DEF DrawnGrows
  <1> QED
    BY <1>2 DEF OwnedNext

LEMMA StreamsOrderedStep ==
    ASSUME TypeInv, OrderInv, StreamsFlow, DrawnGrows
    PROVE  StreamsOrdered'
  <1> SUFFICES ASSUME NEW s \in Streams
               PROVE  LET y == stream'[s]
                      IN  /\ Ordered(y.reactor)
                          /\ \A e \in Entries(y.reactor) : OwnedNext(e.sample, y.worker)
                          /\ y.ended # "no" => y.reactor.wire = << >>
    BY DEF StreamsOrdered, Owned, OwnedNext
  <1> DEFINE st == stream[s]
             y == stream'[s]
  <1>1. /\ Ordered(st.reactor)
        /\ \A e \in Entries(st.reactor) : Owned(e.sample, st.worker)
        /\ st.ended # "no" => st.reactor.wire = << >>
    BY DEF OrderInv, StreamsOrdered
  <1>2. \A e \in Entries(st.reactor) : OwnedNext(e.sample, st.worker)
    BY <1>1, OwnedStep
  <1>3. CASE y = st
    BY <1>1, <1>2, <1>3
  <1>4. CASE Flowing(st, y)
    <2>1. Entries(y.reactor) \subseteq Entries(st.reactor) \cup New(Len(drawn), Len(drawn'))
      BY <1>4 DEF Flowing, Advances
    <2>2. /\ \A i \in Len(drawn) + 1 .. Len(drawn') : drawn'[i] = st.worker
          /\ y.worker = st.worker
      BY <1>4 DEF Flowing
    <2>3. \A e \in New(Len(drawn), Len(drawn')) : OwnedNext(e.sample, st.worker)
      BY <2>2, NewOwned
    <2> QED
      BY <1>2, <1>4, <2>1, <2>2, <2>3 DEF Flowing, Advances
  <1>5. CASE \E w \in Workers : Opened(s, w)
    <2>1. y.reactor = NewSampleReactor /\ y.ended = "no"
      BY <1>5, UnusedFields DEF Opened
    <2>2. Entries(y.reactor) = {} /\ Ordered(y.reactor)
      BY <2>1, NewReactorFields, EmptyFacts DEF Entries, Ordered
    <2> QED
      BY <2>1, <2>2
  <1> QED
    BY <1>3, <1>4, <1>5 DEF StreamsFlow

LEMMA LinkedStep ==
    ASSUME TypeInv, OrderInv, StreamsFlow, options' = options,
           \A v \in Workers : PartsMove(v)
    PROVE  Linked'
  <1>1. Workers' = Workers /\ Workers \subseteq Nat /\ None \notin Nat
    BY OptionsFacts, SamplerAssumption DEF Workers, TypeInv
  <1>2. ASSUME NEW w \in Workers, worker'[w].stream \in Streams
        PROVE  stream'[worker'[w].stream].worker = w /\ options.kind = "grpc"
    <2> DEFINE t == worker'[w].stream
    <2>1. CASE t = worker[w].stream
      <3>1. stream[t].worker = w /\ options.kind = "grpc" /\ w # None
        BY <1>1, <1>2, <2>1 DEF OrderInv, Linked
      <3> HIDE DEF t
      <3>2. stream'[t] = stream[t] \/ Flowing(stream[t], stream'[t])
        BY <1>2, <3>1 DEF StreamsFlow, Opened, t
      <3> QED
        BY <3>1, <3>2 DEF Flowing, t
    <2>2. CASE Opened(t, w)
      BY <2>2, UnusedFields DEF Opened
    <2> QED
      BY <2>1, <2>2 DEF PartsMove
  <1>3. ASSUME NEW s \in Streams, stream'[s].worker = None
        PROVE  stream'[s] = UnusedStream
    <2>1. CASE stream'[s] = stream[s]
      BY <1>3, <2>1 DEF OrderInv, Linked
    <2>2. CASE Flowing(stream[s], stream'[s])
      BY <1>3, <2>2 DEF Flowing
    <2>3. CASE \E w \in Workers : Opened(s, w)
      BY <1>1, <1>3, <2>3, UnusedFields DEF Opened
    <2> QED
      BY <2>1, <2>2, <2>3 DEF StreamsFlow
  <1> QED
    BY <1>1, <1>2, <1>3 DEF Linked

\* What a worker can read has been there, or is new.
LEMMA LineStep ==
    ASSUME TypeInv, OrderInv, StreamsFlow, NEW w \in Workers, PartsMove(w)
    PROVE  Line(w)' \subseteq Line(w) \cup New(Len(drawn), Len(drawn'))
  <1> DEFINE t == worker'[w].stream
  <1>1. CASE t \notin Streams
    BY <1>1 DEF Line
  <1>2. CASE t \in Streams /\ stream'[t].ended # "no"
    BY <1>2 DEF Line
  <1>3. CASE t \in Streams /\ stream'[t].ended = "no" /\ t = worker[w].stream
    <2>1. Line(w)' = Ahead(stream'[t].reactor)
      BY <1>3 DEF Line
    <2>2. stream[t].worker = w /\ w # None
      BY <1>3, WorkerStream
    <2>3. stream'[t] = stream[t] \/ Flowing(stream[t], stream'[t])
      BY <1>3, <2>2 DEF StreamsFlow, Opened
    <2>4. stream[t].ended = "no"
      BY <1>3, <2>3 DEF Flowing
    <2>5. Line(w) = Ahead(stream[t].reactor)
      BY <1>3, <2>4 DEF Line
    <2> HIDE DEF t
    <2> QED
      BY <2>1, <2>3, <2>5 DEF Flowing, Advances
  <1>4. CASE t \in Streams /\ Opened(t, w)
    <2>1. stream'[t].reactor = NewSampleReactor
      BY <1>4, UnusedFields DEF Opened
    <2>2. Ahead(stream'[t].reactor) = {}
      BY <2>1, NewReactorFields, EmptyFacts DEF Ahead
    <2> QED
      BY <2>2 DEF Line
  <1> QED
    BY <1>1, <1>2, <1>3, <1>4 DEF PartsMove

LEMMA PartsOrderedStep ==
    ASSUME TypeInv, OrderInv, StreamsFlow, DrawnGrows, options' = options,
           \A v \in Workers : PartsMove(v)
    PROVE  /\ PartsOrdered'
           /\ \A w \in Workers : Elements(worker'[w].parts) \subseteq
                                     Elements(worker[w].parts) \cup Line(w)
  <1>0. Workers' = Workers
    BY DEF Workers
  <1> SUFFICES ASSUME NEW w \in Workers
               PROVE  /\ worker'[w].parts # << >> => worker'[w].pc = "read"
                      /\ \A e \in Elements(worker'[w].parts) :
                            /\ OwnedNext(e.sample, w)
                            /\ \A f \in Line(w)' : Before(e, f)
                      /\ Elements(worker'[w].parts) \subseteq
                             Elements(worker[w].parts) \cup Line(w)
    BY <1>0 DEF PartsOrdered, Owned, OwnedNext
  <1>1. CASE worker'[w].parts = << >>
    BY <1>1, EmptyFacts
  <1>2. CASE worker'[w].parts = worker[w].parts /\ worker'[w].pc = worker[w].pc
    <2> DEFINE ps == worker[w].parts
    <2>1. /\ ps # << >> => worker[w].pc = "read"
          /\ \A e \in Elements(ps) : /\ Owned(e.sample, w)
                                     /\ \A f \in Line(w) : Before(e, f)
      BY DEF OrderInv, PartsOrdered
    <2>2. ps \in Seq(Entry) /\ Elements(ps) \subseteq Entry
      BY DEF TypeInv, WorkerRecord, Elements
    <2> HIDE DEF ps
    <2>3. ASSUME NEW e \in Elements(ps), NEW f \in Line(w)' PROVE Before(e, f)
      <3>1. CASE f \in Line(w)
        BY <2>1, <3>1
      <3>2. CASE f \in New(Len(drawn), Len(drawn'))
        <4>1. e.sample <= Len(drawn) /\ Len(drawn) \in Int /\ e \in Entry
          BY <2>1, <2>2 DEF Owned, DrawnGrows
        <4> QED
          BY <3>2, <4>1, NewIsAfter
      <3> QED
        BY <2>3, <3>1, <3>2, LineStep
    <2>4. \A e \in Elements(ps) : OwnedNext(e.sample, w)
      BY <2>1, OwnedStep
    <2>5. worker'[w].parts = ps /\ worker'[w].pc = worker[w].pc
      BY <1>2 DEF ps
    <2> QED
      BY <2>1, <2>3, <2>4, <2>5 DEF ps
  <1>3. CASE GrpcReads(w) /\ worker'[w].parts # << >>
    <2> DEFINE s == worker[w].stream
               acc == Unpacked(w)
               src == Elements(worker[w].parts)
                          \cup Elements(Head(stream[s].reactor.wire))
               after == Ahead(stream'[s].reactor)
               ps == acc.parts
    <2>1. worker'[w].stream = s /\ worker'[w].parts = ps /\ worker'[w].pc = "read"
      BY <1>3, ReadSettles
    <2>2. UnpackedBefore(acc, src, after)
          /\ src \subseteq Elements(worker[w].parts) \cup Line(w)
      BY <1>3, UnpackedOrder
    <2>3. Line(w)' \subseteq after
      BY <2>1 DEF Line
    <2>4. Elements(ps) \subseteq src /\ \A e \in Elements(ps), f \in after : Before(e, f)
      BY <2>2 DEF UnpackedBefore, Elements
    <2>5. \A e \in src : Owned(e.sample, w)
      <3>1. \A e \in Elements(worker[w].parts) : Owned(e.sample, w)
        BY DEF OrderInv, PartsOrdered
      <3>2. /\ s \in Streams /\ stream[s].worker = w
            /\ \A e \in Entries(stream[s].reactor) : Owned(e.sample, w)
        BY <1>3, GrpcReadsFlow, WorkerStream DEF OrderInv, StreamsOrdered
      <3>3. Elements(Head(stream[s].reactor.wire)) \subseteq Entries(stream[s].reactor)
        <4>1. Elements(Head(stream[s].reactor.wire)) \subseteq Line(w)
          BY <1>3, UnpackedOrder
        <4>2. Ahead(stream[s].reactor) \subseteq Entries(stream[s].reactor)
          BY LaterFlat DEF Ahead, Entries
        <4>3. Line(w) \subseteq Ahead(stream[s].reactor)
          BY DEF Line
        <4> QED
          BY <4>1, <4>2, <4>3
      <3> QED
        BY <3>1, <3>2, <3>3
    <2> HIDE DEF acc, src, after
    <2>6. \A e \in Elements(ps) : OwnedNext(e.sample, w)
      BY <2>4, <2>5, OwnedStep
    <2> QED
      BY <2>1, <2>2, <2>3, <2>4, <2>6
  <1> QED
    BY <1>1, <1>2, <1>3 DEF PartsMove

-----------------------------------------------------------------------------
(* What a step does to the queue and to the samples taken out of it. *)

\* Passed and Precedes after the step.
PassedNext(x) ==
    /\ x \in 1 .. Len(drawn')
    /\ \A w \in Workers : drawn'[x] = w =>
          \A f \in Elements(worker'[w].parts) \cup Line(w)' : x < f.sample
PrecedesNext(x, y) == drawn'[x] = drawn'[y] => x < y

LEMMA PassedStep ==
    ASSUME TypeInv, OrderInv, StreamsFlow, DrawnGrows, options' = options,
           \A v \in Workers : PartsMove(v), NEW x, Passed(x)
    PROVE  PassedNext(x)
  <1>1. x \in 1 .. Len(drawn) /\ x \in 1 .. Len(drawn') /\ drawn'[x] = drawn[x]
    BY DEF Passed, DrawnGrows
  <1>2. ASSUME NEW w \in Workers, drawn'[x] = w,
               NEW f \in Elements(worker'[w].parts) \cup Line(w)'
        PROVE  x < f.sample
    <2>1. Elements(worker'[w].parts) \subseteq Elements(worker[w].parts) \cup Line(w)
      BY PartsOrderedStep
    <2>2. Line(w)' \subseteq Line(w) \cup New(Len(drawn), Len(drawn'))
      BY LineStep
    <2>3. CASE f \in Elements(worker[w].parts) \cup Line(w)
      BY <1>1, <1>2, <2>3 DEF Passed
    <2>4. CASE f \in New(Len(drawn), Len(drawn'))
      <3>1. Len(drawn) < f.sample /\ f.sample \in Nat /\ Len(drawn) \in Nat
        BY <2>4 DEF New, Entry, DrawnGrows
      <3> QED
        BY <1>1, <3>1
    <2> QED
      BY <1>2, <2>1, <2>2, <2>3, <2>4
  <1> QED
    BY <1>1, <1>2 DEF PassedNext

LEMMA PrecedesStep ==
    ASSUME DrawnGrows, NEW x \in 1 .. Len(drawn), NEW y \in 1 .. Len(drawn),
           Precedes(x, y)
    PROVE  PrecedesNext(x, y)
  BY DEF DrawnGrows, Precedes, PrecedesNext

\* The queue keeps what it holds, or a part of it.
QueueKeeps ==
    ~queue'.closed =>
        /\ ~queue.closed /\ queue'.pops <= queue'.pushes
        /\ Queued(queue') \subseteq Queued(queue)
        /\ \A i \in Queued(queue') : Slot(queue', i) = Slot(queue, i)

\* Worker w pushes samples xs, which it has had or which are new.
QueuePushes(w, xs) ==
    /\ xs \in Seq(Nat) /\ queue' = PushBatch(queue, xs)
    /\ Len(xs) <= worker[w].reserved_slots
    /\ \A k \in 1 .. Len(xs) :
          /\ OwnedNext(xs[k], w)
          /\ \A f \in Elements(worker'[w].parts) \cup Line(w)' : xs[k] < f.sample
          /\ \/ Len(drawn) < xs[k]
             \/ \E e \in Elements(worker[w].parts) \cup Line(w) : e.sample = xs[k]
          /\ \A l \in 1 .. Len(xs) : k < l => xs[k] < xs[l]

LEMMA SameQueueKeeps ==
    ASSUME TypeInv, OrderInv,
           \/ queue' = queue \/ queue' = CloseQueue(queue) \/ queue' = EnterPop(queue)
           \/ queue' = FailPop(queue)
           \/ \E n \in Int : queue' = Reserve(queue, n)
    PROVE  QueueKeeps
  <1> DEFINE c == Capacity
  <1>1. c \in Nat \ {0} /\ queue \in QueueRecord(c)
    BY OptionsFacts DEF TypeInv
  <1> HIDE DEF c
  <1>2. CASE queue' = CloseQueue(queue)
    BY <1>1, <1>2, CloseFacts DEF QueueKeeps
  <1>3. CASE queue' = EnterPop(queue) \/ queue' = FailPop(queue)
               \/ \E n \in Int : queue' = Reserve(queue, n)
    <2>1. /\ queue' \in QueueRecord(c) /\ queue'.closed = queue.closed
          /\ queue'.pushes = queue.pushes /\ queue'.pops = queue.pops
          /\ queue'.buffer = queue.buffer
      BY <1>1, <1>3, TicketFacts, ReserveFacts
    <2>2. queue'.capacity = c /\ queue.capacity = c
      BY <1>1, <2>1 DEF QueueRecord
    <2> QED
      BY <2>1, <2>2 DEF QueueKeeps, Queued, Slot, OrderInv, QueueOrdered
  <1>4. CASE queue' = queue
    BY <1>4 DEF QueueKeeps, OrderInv, QueueOrdered
  <1> QED
    BY <1>2, <1>3, <1>4

\* A worker that reads a response pushes the samples in it.
LEMMA ReadsPush ==
    ASSUME TypeInv, OrderInv, NEW w \in Workers, GrpcReads(w)
    PROVE  QueueKeeps \/ \E xs : QueuePushes(w, xs)
  <1> DEFINE s == worker[w].stream
             acc == Unpacked(w)
             xs == acc.samples
             src == Elements(worker[w].parts)
                        \cup Elements(Head(stream[s].reactor.wire))
             after == Ahead(stream'[s].reactor)
  <1>1. /\ worker'[w].stream = s
        /\ worker'[w].parts = << >> \/ worker'[w].parts = acc.parts
        /\ \/ queue' = queue
           \/ /\ queue' = PushBatch(queue, xs)
              /\ Len(xs) <= worker[w].reserved_slots
    BY ReadSettles
  <1>2. /\ UnpackedBefore(acc, src, after)
        /\ Elements(Head(stream[s].reactor.wire)) \subseteq Line(w)
        /\ src \subseteq Elements(worker[w].parts) \cup Line(w)
    BY UnpackedOrder
  <1>3. Line(w)' \subseteq after
    BY <1>1 DEF Line
  <1>4. /\ s \in Streams /\ drawn' = drawn /\ stream[s].worker = w
    BY GrpcReadsFlow, WorkerStream
  <1>5. \A e \in src : Owned(e.sample, w)
    <2>1. \A e \in Elements(worker[w].parts) : Owned(e.sample, w)
      BY DEF OrderInv, PartsOrdered
    <2>2. \A e \in Entries(stream[s].reactor) : Owned(e.sample, w)
      BY <1>4 DEF OrderInv, StreamsOrdered
    <2>3. Line(w) \subseteq Entries(stream[s].reactor)
      BY LaterFlat DEF Line, Ahead, Entries
    <2> QED
      BY <1>2, <2>1, <2>2, <2>3
  <1> HIDE DEF acc, src, after, s
  <1>6. xs \in Seq(Nat)
    BY <1>2 DEF UnpackedBefore, Unpacking
  <1>7. ASSUME NEW k \in 1 .. Len(xs)
        PROVE  /\ OwnedNext(xs[k], w)
               /\ \E e \in Elements(worker[w].parts) \cup Line(w) : e.sample = xs[k]
    <2>1. PICK e \in src : xs[k] = e.sample
      BY <1>2 DEF UnpackedBefore
    <2> QED
      BY <1>2, <1>4, <1>5, <2>1 DEF Owned, OwnedNext
  <1>8. ASSUME NEW k \in 1 .. Len(xs)
        PROVE  /\ \A f \in Elements(worker'[w].parts) \cup Line(w)' : xs[k] < f.sample
               /\ \A l \in 1 .. Len(xs) : k < l => xs[k] < xs[l]
    <2>1. /\ \A f \in after : xs[k] < f.sample
          /\ \A p \in 1 .. Len(acc.parts) : xs[k] < acc.parts[p].sample
          /\ \A l \in 1 .. Len(xs) : k < l => xs[k] < xs[l]
      BY <1>2 DEF UnpackedBefore
    <2>2. \A f \in Elements(acc.parts) : xs[k] < f.sample
      BY <2>1 DEF Elements
    <2> QED
      BY <1>1, <1>3, <2>1, <2>2, EmptyFacts
  <1>9. CASE queue' = queue
    BY <1>9, SameQueueKeeps
  <1>10. CASE /\ queue' = PushBatch(queue, xs)
              /\ Len(xs) <= worker[w].reserved_slots
    <2>1. QueuePushes(w, xs)
      BY <1>6, <1>7, <1>8, <1>10 DEF QueuePushes
    <2> QED
      BY <2>1
  <1> QED
    BY <1>1, <1>9, <1>10

\* A local worker has no parts and no stream; it pushes what it has drawn.
LEMMA LocalPushes ==
    ASSUME TypeInv, OrderInv, NEW w \in Workers, LocalSamples(w)
    PROVE  \E xs : QueuePushes(w, xs)
  <1> DEFINE r == worker[w]
             d == Len(drawn)
  <1>1. worker \in [Workers -> WorkerRecord] /\ r \in WorkerRecord /\ Placed(r)
    BY DEF TypeInv
  <1>2. /\ r.reserved_slots = r.request /\ r.request \in Nat
        /\ options.kind = "local"
    BY <1>1 DEF Placed, WorkerRecord, LocalSamples
  <1>3. PICK n \in 1 .. r.request : Draw(n, w) /\ queue' = PushBatch(queue, NextSamples(n))
    BY DEF LocalSamples
  <1>4. n \in Nat /\ w \in Nat /\ n <= r.reserved_slots
    BY <1>2, OptionsFacts DEF TypeInv
  <1>5. /\ d \in Nat /\ Len(drawn') = d + n
        /\ \A i \in 1 .. n : drawn'[d + i] = w
    BY <1>3, <1>4, DrawFacts
  <1> DEFINE xs == NextSamples(n)
  <1>6. /\ xs \in Seq(Nat) /\ Len(xs) = n
        /\ \A k \in 1 .. n : xs[k] = d + k
    BY <1>4, <1>5 DEF NextSamples
  <1>7. Settles(w)
    <2>1. r.pc # "read" /\ r.pc # "fetch"
      BY DEF LocalSamples
    <2>2. ~GrpcReads(w) /\ ~GrpcOpens(w)
      BY <2>1 DEF GrpcReads, GrpcOpens
    <2>3. WorkerStep(w)
      BY DEF WorkerStep, FetchLocal
    <2> QED
      BY <2>2, <2>3, WorkerSettles
  <1>8. worker'[w].stream \notin Streams
    BY <1>2, <1>7 DEF Settles, OrderInv, Linked
  <1>9. Elements(worker'[w].parts) = {} /\ Line(w)' = {}
    BY <1>7, <1>8, EmptyFacts DEF Settles, Line
  <1> HIDE DEF xs, d
  <1>10. ASSUME NEW k \in 1 .. Len(xs)
         PROVE  /\ OwnedNext(xs[k], w) /\ d < xs[k]
                /\ \A l \in 1 .. Len(xs) : k < l => xs[k] < xs[l]
    <2>1. k \in 1 .. n /\ xs[k] = d + k
      BY <1>6
    <2>2. d + k \in 1 .. d + n /\ d < d + k
      BY <1>4, <1>5, <2>1
    <2>3. \A l \in 1 .. Len(xs) : k < l => xs[k] < xs[l]
      BY <1>5, <1>6
    <2> QED
      BY <1>5, <2>1, <2>2, <2>3 DEF OwnedNext
  <1>11. QueuePushes(w, xs)
    BY <1>3, <1>4, <1>6, <1>9, <1>10 DEF QueuePushes, xs, d
  <1> QED
    BY <1>11

\* The queue has room for the slots of every worker.
LEMMA RoomFacts ==
    ASSUME TypeInv, ReservationsMatch, ~queue.closed
    PROVE  /\ QueueSize(queue) <= Capacity
           /\ \A w \in Workers :
                 QueueSize(queue) + worker[w].reserved_slots <= Capacity
  <1>1. queue \in QueueRecord(Capacity) /\ IsFiniteSet(Workers) /\ Capacity \in Nat
    BY OptionsFacts DEF TypeInv
  <1>2. /\ queue.pushes \in Nat /\ queue.pops \in Nat /\ queue.reserved \in Int
        /\ queue.capacity = Capacity
    BY <1>1 DEF QueueRecord
  <1>3. Slots \in [Workers -> Nat]
    BY DEF TypeInv, WorkerRecord, Slots
  <1>4. /\ queue.reserved = Cardinality(TokensOf(Slots))
        /\ QueueSize(queue) + queue.reserved <= Capacity
    BY <1>2, SlotsTotal DEF ReservationsMatch
  <1>5. Cardinality(TokensOf(Slots)) \in Nat
    BY <1>1, <1>3, TokensFinite
  <1>6. ASSUME NEW w \in Workers PROVE worker[w].reserved_slots <= queue.reserved
                                       /\ worker[w].reserved_slots \in Nat
    <2> DEFINE R == {x \in TokensOf(Slots) : x[1] # w}
               n == Cardinality(R)
    <2>1. n \in Nat /\ Cardinality(TokensOf(Slots)) = n + Slots[w]
      BY <1>1, <1>3, TokensSplit
    <2>2. Slots[w] = worker[w].reserved_slots /\ Slots[w] \in Nat
      BY <1>3 DEF Slots
    <2> HIDE DEF n
    <2> QED
      BY <1>4, <2>1, <2>2
  <1>7. QueueSize(queue) \in Int
    BY <1>2 DEF QueueSize
  <1>8. QueueSize(queue) <= Capacity
    BY <1>1, <1>2, <1>4, <1>5, <1>7
  <1>9. \A w \in Workers : QueueSize(queue) + worker[w].reserved_slots <= Capacity
    BY <1>1, <1>2, <1>4, <1>6, <1>7
  <1> QED
    BY <1>8, <1>9

LEMMA PopKeeps ==
    ASSUME TypeInv, OrderInv, ReservationsMatch, PopSample
    PROVE  /\ QueueKeeps /\ ~queue.closed /\ queue.pops \in Queued(queue)
           /\ Oldest(queue) = Slot(queue, queue.pops)
           /\ \A i \in Queued(queue') : queue.pops < i
  <1> DEFINE c == Capacity
             a == queue.pops
             b == queue.pushes
  <1>1. c \in Nat \ {0} /\ queue \in QueueRecord(c)
    BY OptionsFacts DEF TypeInv
  <1>2. ~queue.closed /\ queue' = Pop(queue) /\ b - a > 0
    BY DEF PopSample, CanPop, QueueSize
  <1>3. QueueSize(queue) <= c
    BY <1>2, RoomFacts
  <1>4. a \in Nat /\ b \in Nat /\ queue.capacity = c
    BY <1>1 DEF QueueRecord
  <1> HIDE DEF c
  <1>5. queue'.pushes = b /\ queue'.pops = a + 1
    BY <1>1, <1>2, PopFacts
  <1>6. /\ Queued(queue') \subseteq Queued(queue)
        /\ \A i \in Queued(queue') : Slot(queue', i) = Slot(queue, i)
    BY <1>1, <1>2, <1>3, PopSlots
  <1>7. queue'.pops <= queue'.pushes
    BY <1>2, <1>4, <1>5
  <1>8. a \in Queued(queue) /\ \A i \in Queued(queue') : a < i
    BY <1>2, <1>4, <1>5 DEF Queued
  <1>9. Oldest(queue) = Slot(queue, a)
    BY DEF Oldest, Slot
  <1> QED
    BY <1>2, <1>6, <1>7, <1>8, <1>9 DEF QueueKeeps

LEMMA QueueMoves ==
    ASSUME TypeInv, OrderInv, ReservationsMatch, [Next]_vars
    PROVE  QueueKeeps \/ \E w \in Workers : \E xs : QueuePushes(w, xs) /\ consumer' = consumer
  <1>1. ASSUME NEW w \in Workers, WorkerStep(w)
        PROVE  QueueKeeps \/ \E xs : QueuePushes(w, xs)
    <2>1. CASE GrpcReads(w)
      BY <2>1, ReadsPush
    <2>2. CASE LocalSamples(w)
      BY <2>2, LocalPushes
    <2>3. CASE GrpcReserves(w) \/ LocalReserves(w)
      <3>1. worker[w] \in WorkerRecord /\ options.max_in_flight \in Nat
        BY OptionsFacts DEF TypeInv
      <3>2. /\ worker[w].reserved_slots \in Nat /\ worker[w].to_stream \in Nat
            /\ worker[w].got \in Nat /\ worker[w].prev_batch_size \in Nat
        BY <3>1 DEF WorkerRecord
      <3>3. GrpcRequestSize(w) \in Int /\ LocalBatchSize(w) \in Int
        BY <3>1, <3>2 DEF GrpcRequestSize, LocalBatchSize, Lesser
      <3>4. PICK n \in Int : queue' = Reserve(queue, SlotsToReserve(w, n))
        BY <2>3, <3>3 DEF GrpcReserves, LocalReserves
      <3>5. SlotsToReserve(w, n) \in Int
        BY <3>2 DEF SlotsToReserve
      <3> QED
        BY <3>4, <3>5, SameQueueKeeps
    <2>4. CASE ~GrpcReads(w) /\ ~LocalSamples(w) /\ ~GrpcReserves(w)
                 /\ ~LocalReserves(w)
      <3>1. queue' = queue \/ queue' = CloseQueue(queue)
        BY <1>1, <2>4 DEF WorkerStep, FetchGrpc, FetchLocal, WorkerStops,
             WorkerStarts, WorkerReports, GrpcOpens, GrpcCompletes,
             GrpcWrites, GrpcReadFails, LocalStarts, LocalTimesOut, LocalFails
      <3> QED
        BY <3>1, SameQueueKeeps
    <2> QED
      BY <2>1, <2>2, <2>3, <2>4
  <1>2. ASSUME NEW w \in Workers, WorkerStep(w) PROVE consumer' = consumer
    BY <1>2 DEF WorkerStep, FetchGrpc, FetchLocal, WorkerStops, WorkerStarts,
         WorkerReports, GrpcOpens, GrpcReserves, GrpcCompletes, GrpcWrites,
         GrpcReads, GrpcReadFails, LocalStarts, LocalReserves, LocalSamples,
         LocalTimesOut, LocalFails
  <1>3. CASE \E w \in Workers : WorkerStep(w)
    BY <1>1, <1>2, <1>3
  <1>4. CASE PopSample
    BY <1>4, PopKeeps
  <1>5. CASE ~PopSample /\ ~ \E w \in Workers : WorkerStep(w)
    <2>1. \/ queue' = queue \/ queue' = CloseQueue(queue) \/ queue' = EnterPop(queue)
          \/ queue' = FailPop(queue)
      BY <1>5 DEF Next, ServerStep, ServerReads, ServerReadEnds, ServerWriteDone,
             ServerCancelled, ServerDone, Break, TableSamples, TableFails, React,
             ConsumerStep, NextTimestep, CountTrajectory, PopFails,
             PopNextSampleFails, ContinueSample, StartPop, Count,
             CloserStep, CloseCancels, CloseEnds, CloseJoins, CloseSets, vars
    <2> QED
      BY <2>1, SameQueueKeeps
  <1> QED
    BY <1>3, <1>4, <1>5

\* What the consumer may do with the samples: nothing, hand over the active
\* one, or take the next one, s.
Steady ==
    /\ consumer'.delivered = consumer.delivered
    /\ consumer'.left > 0 => consumer.left > 0 /\ consumer'.active = consumer.active

HandsOver ==
    /\ consumer.left > 0 /\ ~(consumer'.left > 0)
    /\ consumer'.delivered = Append(consumer.delivered, consumer.active)

Takes(s) ==
    /\ PopSample /\ s = Oldest(queue) /\ ~(consumer.left > 0)
    /\ \/ /\ consumer'.delivered = consumer.delivered /\ consumer'.active = s
       \/ /\ consumer'.delivered = Append(consumer.delivered, s)
          /\ ~(consumer'.left > 0)

LEMMA NextTimestepMoves ==
    ASSUME TypeInv, OrderInv, NextTimestep
    PROVE  (Steady \/ HandsOver) /\ ConsumerPlaced'
  <1> DEFINE ok == ValidateAgainstOutputSpec(consumer.active)
             l == consumer.left - 1
             next == [consumer EXCEPT !.left = l]
             end == next.left = 0
             r == IF ok THEN "ok" ELSE "invalid"
             d == IF ~ok /\ end THEN next.dropped + 1 ELSE next.dropped
             o == IF ok /\ end THEN Append(next.delivered, consumer.active)
                  ELSE next.delivered
             y == [next EXCEPT !.pc = "idle", !.result = r, !.dropped = d,
                               !.delivered = o]
  <1>1. consumer' = y /\ consumer.pc = "emit" /\ options' = options
    BY DEF NextTimestep, GetNextTimestep, IsEndOfSample
  <1>2. consumer \in ConsumerRecord /\ consumer.left \in Nat /\ consumer.left > 0
    BY <1>1 DEF TypeInv, OrderInv, ConsumerPlaced
  <1>3. l \in Nat /\ (options.call = "trajectory" => consumer.left = 0)
    BY <1>2 DEF OrderInv, ConsumerPlaced
  <1> HIDE DEF l, ok
  <1>4. /\ next \in ConsumerRecord /\ next.left = l /\ next.active = consumer.active
        /\ next.delivered = consumer.delivered
    BY <1>2, <1>3 DEF ConsumerRecord
  <1> HIDE DEF next
  <1>5. /\ o = consumer.delivered
           \/ (o = Append(consumer.delivered, consumer.active) /\ l = 0)
    BY <1>4
  <1> HIDE DEF r, d, o
  <1>6. /\ y.pc = "idle" /\ y.left = l /\ y.active = consumer.active
        /\ y.delivered = o
    BY <1>4 DEF ConsumerRecord
  <1> HIDE DEF y
  <1>7. ConsumerPlaced'
    <2>1. consumer'.left \in Nat /\ consumer'.pc = "idle"
      BY <1>1, <1>3, <1>6
    <2>2. options'.call # "trajectory"
      BY <1>1, <1>2, <1>3
    <2> QED
      BY <2>1, <2>2 DEF ConsumerPlaced
  <1>8. CASE o = consumer.delivered
    BY <1>1, <1>2, <1>6, <1>7, <1>8 DEF Steady
  <1>9. CASE o = Append(consumer.delivered, consumer.active) /\ l = 0
    <2>1. ~(l > 0)
      BY <1>9
    <2> QED
      BY <1>1, <1>2, <1>6, <1>7, <1>9, <2>1 DEF HandsOver
  <1> QED
    BY <1>5, <1>7, <1>8, <1>9

LEMMA PopSampleMoves ==
    ASSUME TypeInv, OrderInv, PopSample
    PROVE  (Steady \/ Takes(Oldest(queue))) /\ ConsumerPlaced'
  <1> DEFINE s == Oldest(queue)
             o == Append(consumer.delivered, s)
             d == consumer.dropped + 1
             t == Timesteps
             x == [consumer EXCEPT !.pc = "emit", !.active = s, !.left = t]
             y == [consumer EXCEPT !.pc = "count", !.delivered = o]
             z == [consumer EXCEPT !.pc = "idle", !.result = "invalid", !.dropped = d]
  <1>1. consumer \in ConsumerRecord /\ options.call \in {"timestep", "trajectory"}
    BY SamplerAssumption DEF TypeInv
  <1>2. /\ consumer.pc = "pop" /\ options' = options
        /\ \/ options.call = "timestep" /\ consumer' = x
           \/ consumer' = y
           \/ consumer' = z
    BY DEF PopSample, ActiveSample
  <1>3. consumer.left = 0
    BY <1>2 DEF OrderInv, ConsumerPlaced
  <1>4. t \in Nat \ {0}
    BY SamplerAssumption
  <1> HIDE DEF s, o, d, t
  <1>5. /\ x.pc = "emit" /\ x.active = s /\ x.left = t
        /\ x.delivered = consumer.delivered
        /\ y.pc = "count" /\ y.delivered = o /\ y.left = consumer.left
        /\ z.pc = "idle" /\ z.delivered = consumer.delivered
        /\ z.left = consumer.left
    BY <1>1 DEF ConsumerRecord
  <1> HIDE DEF x, y, z
  <1>6. t > 0 /\ ~(0 > 0)
    BY <1>4
  <1>7. CASE options.call = "timestep" /\ consumer' = x
    <2>1. Takes(s)
      BY <1>3, <1>5, <1>6, <1>7 DEF Takes, s
    <2>2. ConsumerPlaced'
      <3>1. consumer'.left = t /\ consumer'.pc = "emit" /\ options'.call # "trajectory"
        BY <1>2, <1>5, <1>7
      <3> QED
        BY <1>4, <1>6, <3>1 DEF ConsumerPlaced
    <2> QED
      BY <2>1, <2>2 DEF s
  <1>8. CASE consumer' = y
    <2>1. Takes(s)
      BY <1>3, <1>5, <1>6, <1>8 DEF Takes, s, o
    <2>2. ConsumerPlaced'
      <3>1. consumer'.left = 0 /\ consumer'.pc = "count"
        BY <1>3, <1>5, <1>8
      <3> QED
        BY <3>1 DEF ConsumerPlaced
    <2> QED
      BY <2>1, <2>2 DEF s
  <1>9. CASE consumer' = z
    <2>1. Steady
      BY <1>3, <1>5, <1>6, <1>9 DEF Steady
    <2>2. ConsumerPlaced'
      <3>1. consumer'.left = 0 /\ consumer'.pc = "idle"
        BY <1>3, <1>5, <1>9
      <3> QED
        BY <3>1 DEF ConsumerPlaced
    <2> QED
      BY <2>1, <2>2
  <1> QED
    BY <1>2, <1>7, <1>8, <1>9

LEMMA ConsumerMoves ==
    ASSUME TypeInv, OrderInv, [Next]_vars
    PROVE  (Steady \/ HandsOver \/ Takes(Oldest(queue))) /\ ConsumerPlaced'
  <1>1. options' = options /\ consumer \in ConsumerRecord /\ ConsumerPlaced
    BY OptionsStep DEF TypeInv, OrderInv
  <1>2. CASE NextTimestep
    BY <1>2, NextTimestepMoves
  <1>3. CASE PopSample
    BY <1>3, PopSampleMoves
  <1>4. ASSUME \/ ContinueSample \/ StartPop \/ CountTrajectory \/ PopFails
               \/ PopNextSampleFails
        PROVE  Steady /\ ConsumerPlaced'
    <2>1. /\ consumer'.left = consumer.left /\ consumer'.active = consumer.active
          /\ consumer'.delivered = consumer.delivered
          /\ \/ consumer'.pc = "idle"
             \/ consumer'.pc = "emit" /\ consumer.left # 0
             \/ consumer'.pc = "failed" /\ consumer.pc = "pop"
             \/ consumer'.pc = "pop" /\ (options.call = "timestep" => consumer.left = 0)
      BY <1>1, <1>4 DEF ContinueSample, StartPop, CountTrajectory, PopFails,
           PopNextSampleFails, IsEndOfSample, ConsumerRecord
    <2>2. options.call \in {"timestep", "trajectory"} /\ consumer.left \in Nat
      BY <1>1, SamplerAssumption DEF TypeInv, ConsumerPlaced
    <2>3. Steady
      BY <2>1 DEF Steady
    <2>4. ConsumerPlaced'
      <3>1. /\ consumer.left # 0 => consumer.left > 0
            /\ consumer.pc = "pop" => consumer.left = 0
            /\ options.call = "trajectory" => consumer.left = 0
        BY <1>1, <2>2 DEF ConsumerPlaced
      <3>2. consumer'.pc = "emit" => consumer'.left > 0
        BY <2>1, <3>1
      <3>3. consumer'.pc \in {"pop", "count", "failed"} => consumer'.left = 0
        BY <2>1, <2>2, <3>1
      <3>4. consumer'.left \in Nat /\ (options'.call = "trajectory" => consumer'.left = 0)
        BY <1>1, <2>1, <2>2, <3>1
      <3> QED
        BY <3>2, <3>3, <3>4 DEF ConsumerPlaced
    <2> QED
      BY <2>3, <2>4
  <1>5. ASSUME consumer' = consumer
        PROVE  Steady /\ ConsumerPlaced'
    BY <1>1, <1>5 DEF Steady, ConsumerPlaced
  <1>6. ASSUME NEW w \in Workers, WorkerStep(w) PROVE consumer' = consumer
    BY <1>6 DEF WorkerStep, FetchGrpc, FetchLocal, WorkerStops, WorkerStarts,
         WorkerReports, GrpcOpens, GrpcReserves, GrpcCompletes, GrpcWrites,
         GrpcReads, GrpcReadFails, LocalStarts, LocalReserves, LocalSamples,
         LocalTimesOut, LocalFails
  <1>7. ASSUME NEW s \in Streams,
               ServerStep(s) \/ Break(s) \/ TableSamples(s) \/ TableFails(s)
        PROVE  consumer' = consumer
    BY <1>7 DEF ServerStep, ServerReads, ServerReadEnds, ServerWriteDone,
         ServerCancelled, ServerDone, Break, TableSamples, TableFails, React
  <1>8. ASSUME CloserStep \/ CloseSets \/ UNCHANGED vars PROVE consumer' = consumer
    BY <1>8 DEF CloserStep, CloseSets, CloseCancels, CloseEnds, CloseJoins, vars
  <1> QED
    BY <1>2, <1>3, <1>4, <1>5, <1>6, <1>7, <1>8 DEF Next, ConsumerStep

\* The samples taken out after the step.
LEMMA IssuedStep ==
    ASSUME TypeInv, NEW s \in Nat \cup {NoSample}, Steady \/ HandsOver \/ Takes(s)
    PROVE  /\ Issued' \subseteq Issued \/ (Takes(s) /\ Issued' \subseteq Issued \cup {s})
           /\ ~(Steady \/ HandsOver) => Takes(s)
  <1> DEFINE S == Nat \cup {NoSample}
             out == consumer.delivered
             a == consumer.active
  <1>1. out \in Seq(S) /\ a \in S
    BY DEF TypeInv, ConsumerRecord
  <1>2. ASSUME NEW x \in S PROVE Elements(Append(out, x)) = Elements(out) \cup {x}
    <2>1. /\ Len(Append(out, x)) = Len(out) + 1 /\ Len(out) \in Nat
          /\ \A i \in 1 .. Len(out) : Append(out, x)[i] = out[i]
          /\ Append(out, x)[Len(out) + 1] = x
      BY <1>1, AppendFacts
    <2> QED
      BY <2>1 DEF Elements
  <1>3. CASE Steady
    BY <1>3 DEF Steady, Issued
  <1>4. CASE HandsOver
    BY <1>1, <1>2, <1>4 DEF HandsOver, Issued
  <1>5. CASE Takes(s)
    <2>1. Issued' \subseteq Issued \cup {s}
      BY <1>2, <1>5 DEF Takes, Issued
    <2> QED
      BY <1>5, <2>1
  <1> QED
    BY <1>3, <1>4, <1>5

LEMMA Carried ==
    ASSUME TypeInv, OrderInv, [Next]_vars
    PROVE  /\ DrawnGrows
           /\ \A x : Passed(x) => PassedNext(x)
           /\ \A x, y : Passed(x) /\ Passed(y) /\ Precedes(x, y) => PrecedesNext(x, y)
  <1>1. /\ StreamsFlow /\ DrawnGrows /\ options' = options
        /\ \A v \in Workers : PartsMove(v)
    BY StepFlow, OptionsStep
  <1>2. \A x : Passed(x) => PassedNext(x)
    BY <1>1, PassedStep
  <1>3. ASSUME NEW x, NEW y, Passed(x), Passed(y), Precedes(x, y)
        PROVE  PrecedesNext(x, y)
    <2>1. x \in 1 .. Len(drawn) /\ y \in 1 .. Len(drawn)
      BY <1>3 DEF Passed
    <2> QED
      BY <1>1, <1>3, <2>1, PrecedesStep
  <1> QED
    BY <1>1, <1>2, <1>3

\* QueueOrdered after the step.
QueueOrderedNext ==
    ~queue'.closed =>
        /\ queue'.pops <= queue'.pushes
        /\ \A i \in Queued(queue') : PassedNext(Slot(queue', i))
        /\ \A i, j \in Queued(queue') :
              i < j => PrecedesNext(Slot(queue', i), Slot(queue', j))
        /\ \A x \in Issued' : \A i \in Queued(queue') : PrecedesNext(x, Slot(queue', i))

LEMMA KeptOrdered ==
    ASSUME TypeInv, OrderInv, ReservationsMatch, [Next]_vars, QueueKeeps
    PROVE  QueueOrderedNext
  <1> SUFFICES ASSUME ~queue'.closed PROVE QueueOrderedNext
    BY DEF QueueOrderedNext
  <1> DEFINE s == Oldest(queue)
  <1>1. /\ ~queue.closed /\ queue'.pops <= queue'.pushes
        /\ Queued(queue') \subseteq Queued(queue)
        /\ \A i \in Queued(queue') : Slot(queue', i) = Slot(queue, i)
    BY DEF QueueKeeps
  <1>2. /\ \A i \in Queued(queue) : Passed(Slot(queue, i))
        /\ \A i, j \in Queued(queue) :
              i < j => Precedes(Slot(queue, i), Slot(queue, j))
        /\ \A x \in Issued : \A i \in Queued(queue) : Precedes(x, Slot(queue, i))
        /\ \A x \in Issued : Passed(x)
    BY <1>1 DEF OrderInv, QueueOrdered, OutOrdered
  <1>3. /\ \A x : Passed(x) => PassedNext(x)
        /\ \A x, y : Passed(x) /\ Passed(y) /\ Precedes(x, y) => PrecedesNext(x, y)
    BY Carried
  <1>4. s \in Nat \cup {NoSample}
    <2> DEFINE c == Capacity
    <2>1. c \in Nat \ {0} /\ queue \in QueueRecord(c)
      BY OptionsFacts DEF TypeInv
    <2> HIDE DEF c
    <2> QED
      BY <2>1, PopFacts
  <1>5. \/ Issued' \subseteq Issued
        \/ Takes(s) /\ Issued' \subseteq Issued \cup {s}
    BY <1>4, ConsumerMoves, IssuedStep
  <1>6. ASSUME NEW x \in Issued', NEW i \in Queued(queue')
        PROVE  PrecedesNext(x, Slot(queue', i))
    <2>1. CASE x \in Issued
      BY <1>1, <1>2, <1>3, <2>1
    <2>2. CASE Takes(s) /\ x = s
      <3>1. /\ queue.pops \in Queued(queue) /\ s = Slot(queue, queue.pops)
            /\ queue.pops < i
        BY <2>2, PopKeeps DEF Takes
      <3> QED
        BY <1>1, <1>2, <1>3, <2>2, <3>1
    <2> QED
      BY <1>5, <2>1, <2>2
  <1> QED
    BY <1>1, <1>2, <1>3, <1>6 DEF QueueOrderedNext

LEMMA PushedOrdered ==
    ASSUME TypeInv, OrderInv, ReservationsMatch, [Next]_vars,
           NEW w \in Workers, NEW xs, QueuePushes(w, xs), consumer' = consumer
    PROVE  QueueOrderedNext
  <1> SUFFICES ASSUME ~queue'.closed PROVE QueueOrderedNext
    BY DEF QueueOrderedNext
  <1> DEFINE c == Capacity
             n == Len(xs)
             b == queue.pushes
  <1>1. c \in Nat \ {0} /\ queue \in QueueRecord(c) /\ w \in Nat
    BY OptionsFacts DEF TypeInv
  <1>2. xs \in Seq(Nat) /\ queue' = PushBatch(queue, xs) /\ n <= worker[w].reserved_slots
    BY DEF QueuePushes
  <1>3. /\ ~queue.closed /\ queue'.pushes = b + n /\ queue'.pops = queue.pops
    BY <1>1, <1>2, PushFacts
  <1>4. /\ queue.pops <= b
        /\ \A i \in Queued(queue) : Passed(Slot(queue, i))
        /\ \A i, j \in Queued(queue) :
              i < j => Precedes(Slot(queue, i), Slot(queue, j))
        /\ \A x \in Issued : \A i \in Queued(queue) : Precedes(x, Slot(queue, i))
        /\ \A x \in Issued : Passed(x)
    BY <1>3 DEF OrderInv, QueueOrdered, OutOrdered
  <1>5. n \in Nat /\ b \in Nat /\ queue.pops \in Nat /\ worker[w].reserved_slots \in Nat
        /\ QueueSize(queue) \in Int /\ QueueSize(queue) + worker[w].reserved_slots <= c
    <2>1. n \in Nat /\ b \in Nat /\ queue.pops \in Nat
      BY <1>1, <1>2 DEF QueueRecord
    <2>2. worker[w].reserved_slots \in Nat
      BY DEF TypeInv, WorkerRecord
    <2>3. QueueSize(queue) \in Int
      BY <2>1 DEF QueueSize
    <2>4. QueueSize(queue) + worker[w].reserved_slots <= c
      BY <1>3, RoomFacts
    <2> QED
      BY <2>1, <2>2, <2>3, <2>4
  <1> HIDE DEF c, n, b
  <1>6. QueueSize(queue) + n <= c
    BY <1>1, <1>2, <1>5
  <1>7. /\ \A i \in Queued(queue) : Slot(queue', i) = Slot(queue, i)
        /\ \A k \in 1 .. n : Slot(queue', b + k - 1) = xs[k]
    BY <1>1, <1>2, <1>4, <1>6, PushSlots DEF n, b
  <1>8. ASSUME NEW i \in Queued(queue'), i \notin Queued(queue)
        PROVE  \E k \in 1 .. n : i = b + k - 1 /\ Slot(queue', i) = xs[k]
    <2> DEFINE k == i - b + 1
    <2>1. k \in 1 .. n /\ i = b + k - 1
      BY <1>3, <1>4, <1>5, <1>8 DEF Queued, b
    <2> HIDE DEF k
    <2> QED
      BY <1>7, <2>1
  <1>9. /\ \A x : Passed(x) => PassedNext(x)
        /\ \A x, y : Passed(x) /\ Passed(y) /\ Precedes(x, y) => PrecedesNext(x, y)
        /\ DrawnGrows
    BY Carried
  <1>10. ASSUME NEW k \in 1 .. n
         PROVE  /\ PassedNext(xs[k]) /\ xs[k] \in Nat /\ drawn'[xs[k]] = w
                /\ \A x : Passed(x) => PrecedesNext(x, xs[k])
    <2>1. /\ OwnedNext(xs[k], w) /\ xs[k] \in Nat
          /\ \A f \in Elements(worker'[w].parts) \cup Line(w)' : xs[k] < f.sample
          /\ \/ Len(drawn) < xs[k]
             \/ \E e \in Elements(worker[w].parts) \cup Line(w) : e.sample = xs[k]
      BY <1>2, <1>10 DEF QueuePushes, n
    <2>2. PassedNext(xs[k]) /\ drawn'[xs[k]] = w
      BY <2>1 DEF PassedNext, OwnedNext
    <2>3. ASSUME NEW x, Passed(x), drawn'[x] = w PROVE x < xs[k]
      <3>1. x \in 1 .. Len(drawn) /\ drawn[x] = w /\ Len(drawn) \in Nat
        BY <1>9, <2>3 DEF Passed, DrawnGrows
      <3>2. \A f \in Elements(worker[w].parts) \cup Line(w) : x < f.sample
        BY <2>3, <3>1 DEF Passed
      <3>3. CASE Len(drawn) < xs[k]
        BY <2>1, <3>1, <3>3
      <3> QED
        BY <2>1, <3>2, <3>3
    <2> QED
      BY <2>1, <2>2, <2>3 DEF PrecedesNext
  <1>11. ASSUME NEW i \in Queued(queue') PROVE PassedNext(Slot(queue', i))
    BY <1>4, <1>7, <1>8, <1>9, <1>10
  <1>12. ASSUME NEW i \in Queued(queue'), NEW j \in Queued(queue'), i < j
         PROVE  PrecedesNext(Slot(queue', i), Slot(queue', j))
    <2>1. CASE i \in Queued(queue) /\ j \in Queued(queue)
      BY <1>4, <1>7, <1>9, <1>12, <2>1
    <2>2. CASE i \in Queued(queue) /\ j \notin Queued(queue)
      BY <1>4, <1>7, <1>8, <1>10, <2>2
    <2>3. CASE i \notin Queued(queue)
      <3>1. PICK k \in 1 .. n : i = b + k - 1 /\ Slot(queue', i) = xs[k]
        BY <1>8, <2>3
      <3>2. j \notin Queued(queue)
        BY <1>3, <1>4, <1>5, <1>12, <3>1 DEF Queued, b
      <3>3. PICK l \in 1 .. n : j = b + l - 1 /\ Slot(queue', j) = xs[l]
        BY <1>8, <3>2
      <3>4. k < l
        BY <1>5, <1>12, <3>1, <3>3
      <3>5. xs[k] < xs[l]
        BY <3>4 DEF QueuePushes, n
      <3> QED
        BY <3>1, <3>3, <3>5 DEF PrecedesNext
    <2> QED
      BY <2>1, <2>2, <2>3
  <1>13. ASSUME NEW x \in Issued', NEW i \in Queued(queue')
         PROVE  PrecedesNext(x, Slot(queue', i))
    <2>1. x \in Issued
      BY DEF Issued
    <2> QED
      BY <1>4, <1>7, <1>8, <1>9, <1>10, <2>1
  <1>14. queue'.pops <= queue'.pushes
    BY <1>3, <1>4, <1>5
  <1> QED
    BY <1>11, <1>12, <1>13, <1>14 DEF QueueOrderedNext

LEMMA QueueOrderedStep ==
    ASSUME TypeInv, OrderInv, ReservationsMatch, [Next]_vars
    PROVE  QueueOrdered'
  <1>1. QueueOrderedNext
    BY QueueMoves, KeptOrdered, PushedOrdered
  <1>2. Workers' = Workers
    BY OptionsStep DEF Workers
  <1> QED
    BY <1>1, <1>2 DEF QueueOrderedNext, QueueOrdered, Passed, PassedNext, Precedes,
                      PrecedesNext, Queued, Slot

LEMMA OutOrderedStep ==
    ASSUME TypeInv, OrderInv, ReservationsMatch, [Next]_vars
    PROVE  OutOrdered'
  <1> DEFINE s == Oldest(queue)
             out == consumer.delivered
             n == Len(out)
             a == consumer.active
             S == Nat \cup {NoSample}
             new == consumer'.delivered
  <1>0. Workers' = Workers
    BY OptionsStep DEF Workers
  <1>1. s \in S /\ out \in Seq(S) /\ a \in S /\ n \in Nat
    <2> DEFINE c == Capacity
    <2>1. c \in Nat \ {0} /\ queue \in QueueRecord(c)
      BY OptionsFacts DEF TypeInv
    <2> HIDE DEF c
    <2>2. s \in S
      BY <2>1, PopFacts
    <2> QED
      BY <2>2 DEF TypeInv, ConsumerRecord
  <1>2. Steady \/ HandsOver \/ Takes(s)
    BY ConsumerMoves
  <1>3. /\ \A x : Passed(x) => PassedNext(x)
        /\ \A x, y : Passed(x) /\ Passed(y) /\ Precedes(x, y) => PrecedesNext(x, y)
    BY Carried
  <1>4. /\ \A x \in Issued : Passed(x)
        /\ \A i, j \in 1 .. n : i < j => Precedes(out[i], out[j])
        /\ consumer.left > 0 => \A i \in 1 .. n : Precedes(out[i], a)
    BY DEF OrderInv, OutOrdered
  <1>5. Takes(s) => Passed(s) /\ \A x \in Issued : Precedes(x, s)
    <2> SUFFICES ASSUME Takes(s)
                 PROVE  Passed(s) /\ \A x \in Issued : Precedes(x, s)
      OBVIOUS
    <2>1. ~queue.closed /\ queue.pops \in Queued(queue) /\ s = Slot(queue, queue.pops)
      BY PopKeeps DEF Takes
    <2> QED
      BY <2>1 DEF OrderInv, QueueOrdered
  <1>6. /\ \A i \in 1 .. n : out[i] \in Issued
        /\ consumer.left > 0 => a \in Issued
    BY DEF Issued, Elements
  <1>7. ASSUME NEW x \in S
        PROVE  /\ Len(Append(out, x)) = n + 1
               /\ \A i \in 1 .. n : Append(out, x)[i] = out[i]
               /\ Append(out, x)[n + 1] = x
    BY <1>1, AppendFacts
  <1>8. \A x \in Issued' : PassedNext(x)
    BY <1>1, <1>2, <1>3, <1>4, <1>5, IssuedStep
  <1>9. ASSUME NEW x \in S, new = Append(out, x), Passed(x),
               \A i \in 1 .. n : Precedes(out[i], x)
        PROVE  \A i, j \in 1 .. Len(new) : i < j => PrecedesNext(new[i], new[j])
    <2> HIDE DEF n, new, out
    <2> SUFFICES ASSUME NEW i \in 1 .. Len(new), NEW j \in 1 .. Len(new), i < j
                 PROVE  PrecedesNext(new[i], new[j])
      OBVIOUS
    <2>1. i \in 1 .. n /\ (j \in 1 .. n \/ j = n + 1)
      BY <1>1, <1>7, <1>9
    <2>2. CASE j \in 1 .. n
      BY <1>3, <1>4, <1>6, <1>7, <1>9, <2>1, <2>2
    <2>3. CASE j = n + 1
      BY <1>3, <1>4, <1>6, <1>7, <1>9, <2>1, <2>3
    <2> QED
      BY <2>1, <2>2, <2>3
  <1>10. CASE new = out
    <2>1. \A i, j \in 1 .. Len(new) : i < j => PrecedesNext(new[i], new[j])
      BY <1>3, <1>4, <1>6, <1>10
    <2>2. ASSUME consumer'.left > 0, NEW i \in 1 .. Len(new)
          PROVE  PrecedesNext(new[i], consumer'.active)
      <3>1. CASE Steady
        BY <1>3, <1>4, <1>6, <1>10, <2>2, <3>1 DEF Steady
      <3>2. CASE HandsOver
        BY <2>2, <3>2 DEF HandsOver
      <3>3. CASE Takes(s)
        <4>1. consumer'.active = s
          BY <2>2, <3>3 DEF Takes
        <4> QED
          BY <1>3, <1>4, <1>5, <1>6, <1>10, <2>2, <3>3, <4>1
      <3> QED
        BY <1>2, <3>1, <3>2, <3>3
    <2> QED
      BY <1>0, <1>8, <2>1, <2>2 DEF OutOrdered, Passed, PassedNext, Precedes, PrecedesNext
  <1>11. CASE new # out
    <2>1. /\ ~(consumer'.left > 0)
          /\ \E x \in S : /\ new = Append(out, x) /\ Passed(x)
                          /\ \A i \in 1 .. n : Precedes(out[i], x)
      <3>1. CASE Steady
        BY <1>11, <3>1 DEF Steady
      <3>2. CASE HandsOver
        BY <1>1, <1>4, <1>6, <3>2 DEF HandsOver
      <3>3. CASE Takes(s)
        BY <1>1, <1>5, <1>6, <1>11, <3>3 DEF Takes
      <3> QED
        BY <1>2, <3>1, <3>2, <3>3
    <2>2. \A i, j \in 1 .. Len(new) : i < j => PrecedesNext(new[i], new[j])
      BY <1>9, <2>1
    <2> QED
      BY <1>0, <1>8, <2>1, <2>2 DEF OutOrdered, Passed, PassedNext, Precedes, PrecedesNext
  <1> QED
    BY <1>10, <1>11

LEMMA OrderStep == TypeInv /\ ReservationsMatch /\ OrderInv /\ [Next]_vars => OrderInv'
  <1> SUFFICES ASSUME TypeInv, ReservationsMatch, OrderInv, [Next]_vars
               PROVE  OrderInv'
    OBVIOUS
  <1>1. options' = options /\ Workers' = Workers
    BY OptionsStep DEF Workers
  <1>2. StreamsFlow /\ DrawnGrows /\ \A v \in Workers : PartsMove(v)
    BY StepFlow
  <1>3. \A i \in 1 .. Len(drawn') : i \in Samples
    BY <1>2 DEF DrawnGrows
  <1>4. StreamsOrdered' /\ Linked'
    BY <1>1, <1>2, StreamsOrderedStep, LinkedStep
  <1>5. PartsOrdered'
    BY <1>1, <1>2, PartsOrderedStep
  <1>6. QueueOrdered' /\ OutOrdered' /\ ConsumerPlaced'
    BY QueueOrderedStep, OutOrderedStep, ConsumerMoves
  <1> QED
    BY <1>3, <1>4, <1>5, <1>6 DEF OrderInv

LEMMA OrderInit == Init => OrderInv
  <1> SUFFICES ASSUME Init PROVE OrderInv
    OBVIOUS
  <1>1. drawn = << >> /\ Len(drawn) = 0 /\ \A i \in 1 .. Len(drawn) : i \in Samples
    BY DEF Init
  <1>2. /\ \A w \in Workers : worker[w].stream = 0 /\ worker[w].parts = << >>
        /\ \A s \in Streams : stream[s] = UnusedStream
        /\ 0 \notin Streams
    BY SamplerAssumption DEF Init, NewWorker
  <1>3. /\ UnusedStream.reactor.wire = << >> /\ UnusedStream.reactor.responses = << >>
        /\ UnusedStream.ended = "no"
    BY UnusedFields, NewReactorFields
  <1>4. Linked
    BY <1>2 DEF Linked
  <1>5. StreamsOrdered
    BY <1>2, <1>3, EmptyFacts DEF StreamsOrdered, Ordered, Entries
  <1>6. PartsOrdered
    BY <1>2, EmptyFacts DEF PartsOrdered
  <1>7. Capacity \in Nat /\ queue.pops = 0 /\ queue.pushes = 0 /\ Queued(queue) = {}
    <2>1. queue.pops = 0 /\ queue.pushes = 0
      BY DEF Init, EmptyQueue
    <2> QED
      BY <2>1, OptionsFacts DEF Init, Queued
  <1>8. QueueOrdered
    BY <1>7 DEF QueueOrdered
  <1>9. consumer.delivered = << >> /\ consumer.left = 0 /\ consumer.pc = "idle"
    BY DEF Init
  <1>10. Issued = {} /\ Len(consumer.delivered) = 0 /\ ~(0 > 0)
    BY <1>9, EmptyFacts DEF Issued
  <1>11. OutOrdered /\ ConsumerPlaced
    BY <1>9, <1>10 DEF OutOrdered, ConsumerPlaced
  <1> QED
    BY <1>1, <1>4, <1>5, <1>6, <1>8, <1>11 DEF OrderInv

\* A sample that a table gave to a worker stays behind the earlier ones of that
\* worker wherever it is: in the responses of its stream, among the parts that
\* FetchSamples puts together, in the ring buffer of the queue, and with the
\* consumer (SampleTask, FetchSamples, Queue::PushBatch, PopNextSample).
THEOREM OrderCorrect == Spec => []OrderInv
  <1>1. Init => OrderInv
    BY OrderInit
  <1>2. TypeInv /\ ReservationsMatch /\ OrderInv /\ [Next]_vars => OrderInv'
    BY OrderStep
  <1> QED
    BY <1>1, <1>2, SamplerTypeCorrect, ReservationsSafety, PTL DEF Spec

\* GetNextTimestep and GetNextTrajectory give out the samples of one worker in
\* the order in which the table gave them, and none of them twice, whatever the
\* number of workers, the sizes of batches and chunks, and however often streams
\* break and are opened again.
THEOREM OrderSafety == Spec => []OrderKept
  <1>1. TypeInv /\ OrderInv => OrderKept
    <2> SUFFICES ASSUME TypeInv, OrderInv,
                        NEW i \in DOMAIN consumer.delivered,
                        NEW j \in DOMAIN consumer.delivered, i < j,
                        drawn[consumer.delivered[i]] = drawn[consumer.delivered[j]]
                 PROVE  consumer.delivered[i] < consumer.delivered[j]
      BY DEF OrderKept
    <2>1. DOMAIN consumer.delivered = 1 .. Len(consumer.delivered)
      BY DEF TypeInv, ConsumerRecord
    <2> QED
      BY <2>1 DEF OrderInv, OutOrdered, Precedes
  <1> QED
    BY <1>1, OrderCorrect, SamplerTypeCorrect, PTL

-----------------------------------------------------------------------------
(* The Sampler implements SampleSource. *)

\* What the steps that are not the consumer's do to what it depends on.
Beside ==
    /\ consumer' = consumer /\ sampler'.returned = sampler.returned
    /\ \/ /\ queue'.closed = queue.closed /\ sampler'.closed = sampler.closed
          /\ sampler'.worker_status = sampler.worker_status
       \/ /\ queue'.closed = queue.closed /\ sampler'.closed = TRUE
          /\ sampler'.worker_status = sampler.worker_status
       \/ /\ queue'.closed = TRUE /\ sampler.closed /\ sampler'.closed = sampler.closed
          /\ sampler'.worker_status = sampler.worker_status
       \/ /\ queue'.closed = TRUE /\ sampler'.closed = sampler.closed
          /\ sampler.worker_status = "ok"
          /\ sampler'.worker_status \in {"timeout", "internal"}

LEMMA ReportBeside ==
    ASSUME TypeInv, NEW w \in Workers, WorkerReports(w)
    PROVE  Beside
  <1> DEFINE fatal == /\ worker[w].status # "ok" /\ ~Transient(worker[w].status)
                      /\ sampler.worker_status = "ok"
             n == sampler.requested - NotFetched(worker[w])
             e == IF fatal THEN worker[w].status ELSE sampler.worker_status
  <1>1. worker[w] \in WorkerRecord /\ sampler \in SamplerRecord
    BY DEF TypeInv
  <1>2. /\ sampler' = [sampler EXCEPT !.requested = n, !.worker_status = e]
        /\ queue' = IF fatal THEN CloseQueue(queue) ELSE queue
        /\ consumer' = consumer
    BY DEF WorkerReports
  <1>3. IF fatal THEN sampler.worker_status = "ok" /\ e \in {"timeout", "internal"}
        ELSE e = sampler.worker_status
    BY <1>1 DEF WorkerRecord, Transient, Statuses
  <1> HIDE DEF n, e
  <1>4. /\ sampler'.returned = sampler.returned /\ sampler'.closed = sampler.closed
        /\ sampler'.worker_status = e
    BY <1>1, <1>2 DEF SamplerRecord
  <1>5. CASE fatal
    <2>1. queue' = CloseQueue(queue) /\ queue'.closed = TRUE
      <3> DEFINE c == Capacity
      <3>1. c \in Nat \ {0} /\ queue \in QueueRecord(c)
        BY OptionsFacts DEF TypeInv
      <3> HIDE DEF c
      <3> QED
        BY <1>2, <1>5, <3>1, CloseFacts
    <2>2. sampler.worker_status = "ok" /\ e \in {"timeout", "internal"} /\ e # "ok"
      BY <1>3, <1>5
    <2> QED
      BY <1>2, <1>4, <2>1, <2>2 DEF Beside
  <1>6. CASE ~fatal
    BY <1>2, <1>3, <1>4, <1>6 DEF Beside
  <1> QED
    BY <1>5, <1>6

LEMMA QuietBeside ==
    ASSUME TypeInv, consumer' = consumer, sampler' = sampler,
           queue'.closed = queue.closed
    PROVE  Beside
  BY DEF Beside

\* Neither Reserve nor PushBatch closes the queue.
LEMMA StillOpen ==
    ASSUME NEW c \in Nat, NEW q \in QueueRecord(c), NEW n, NEW xs
    PROVE  Reserve(q, n).closed = q.closed /\ PushBatch(q, xs).closed = q.closed
  <1> DEFINE a == q.reserved + n
             b == q.reserved - Len(xs)
             d == q.pushes + Len(xs)
             f == [i \in DOMAIN q.buffer |-> SlotAfter(q, xs, i)]
  <1>1. /\ Reserve(q, n) = [q EXCEPT !.reserved = a]
        /\ PushBatch(q, xs) = [q EXCEPT !.reserved = b, !.pushes = d, !.buffer = f]
    BY DEF Reserve, PushBatch
  <1> HIDE DEF a, b, d, f
  <1> QED
    BY <1>1 DEF QueueRecord

LEMMA WorkerBeside ==
    ASSUME TypeInv, NEW w \in Workers, WorkerStep(w)
    PROVE  Beside
  <1> DEFINE c == Capacity
  <1>0. c \in Nat \ {0} /\ queue \in QueueRecord(c) /\ sampler \in SamplerRecord
    BY OptionsFacts DEF TypeInv
  <1> HIDE DEF c
  <1>1. CASE WorkerReports(w)
    BY <1>1, ReportBeside
  <1>2. CASE WorkerStarts(w)
    <2> DEFINE n == sampler.requested
                      + Lesser(MaxSamplesPerStream, MaxSamples - sampler.requested)
    <2>1. /\ sampler' = [sampler EXCEPT !.requested = n] /\ queue' = queue
          /\ consumer' = consumer
      BY <1>2 DEF WorkerStarts
    <2> HIDE DEF n
    <2>2. /\ sampler'.returned = sampler.returned /\ sampler'.closed = sampler.closed
          /\ sampler'.worker_status = sampler.worker_status
      BY <1>0, <2>1 DEF SamplerRecord
    <2> QED
      BY <2>1, <2>2 DEF Beside
  <1>3. CASE ~WorkerReports(w) /\ ~WorkerStarts(w)
    <2>1. /\ consumer' = consumer /\ sampler' = sampler
          /\ \/ queue' = queue
             \/ \E n : queue' = Reserve(queue, n)
             \/ \E xs : queue' = PushBatch(queue, xs)
      <3>1. CASE GrpcReads(w)
        <4> DEFINE xs == Unpacked(w).samples
        <4>1. consumer' = consumer /\ sampler' = sampler
          BY <3>1, Zenon DEF GrpcReads
        <4>2. queue' = queue \/ queue' = PushBatch(queue, xs)
          BY <3>1, ReadSettles
        <4> HIDE DEF xs
        <4> QED
          BY <4>1, <4>2
      <3>2. CASE LocalSamples(w)
        BY <3>2 DEF LocalSamples
      <3>3. CASE GrpcReserves(w) \/ LocalReserves(w)
        BY <3>3 DEF GrpcReserves, LocalReserves
      <3>4. CASE \/ WorkerStops(w) \/ GrpcOpens(w) \/ GrpcCompletes(w) \/ GrpcWrites(w)
                 \/ GrpcReadFails(w) \/ LocalStarts(w) \/ LocalTimesOut(w)
                 \/ LocalFails(w)
        BY <3>4 DEF WorkerStops, GrpcOpens, GrpcCompletes, GrpcWrites, GrpcReadFails,
             LocalStarts, LocalTimesOut, LocalFails
      <3> QED
        BY <1>3, <3>1, <3>2, <3>3, <3>4 DEF WorkerStep, FetchGrpc, FetchLocal
    <2>2. queue'.closed = queue.closed
      BY <1>0, <2>1, StillOpen
    <2> QED
      BY <2>1, <2>2, QuietBeside
  <1> QED
    BY <1>1, <1>2, <1>3

LEMMA OtherBeside ==
    ASSUME TypeInv, CloseInv, [Next]_vars,
           ~ConsumerStep, ~ContinueSample, ~StartPop
    PROVE  Beside
  <1>0. sampler \in SamplerRecord
    BY DEF TypeInv
  <1>1. ASSUME NEW s \in Streams,
               ServerStep(s) \/ Break(s) \/ TableSamples(s) \/ TableFails(s)
        PROVE  consumer' = consumer /\ sampler' = sampler /\ queue' = queue
    BY <1>1 DEF ServerStep, ServerReads, ServerReadEnds, ServerWriteDone,
         ServerCancelled, ServerDone, Break, TableSamples, TableFails, React
  <1>2. ASSUME (\E w \in Workers : CloseCancels(w)) \/ CloseJoins \/ UNCHANGED vars
        PROVE  consumer' = consumer /\ sampler' = sampler /\ queue' = queue
    BY <1>2 DEF CloseCancels, CloseJoins, vars
  <1>3. CASE CloseEnds
    <2>1. /\ consumer' = consumer /\ sampler' = sampler /\ queue' = CloseQueue(queue)
          /\ sampler.closed
      BY <1>3 DEF CloseEnds, CloseInv
    <2> DEFINE c == Capacity
    <2>2. c \in Nat \ {0} /\ queue \in QueueRecord(c)
      BY OptionsFacts DEF TypeInv
    <2> HIDE DEF c
    <2>3. queue'.closed = TRUE
      BY <2>1, <2>2, CloseFacts
    <2> QED
      BY <2>1, <2>3 DEF Beside
  <1>4. CASE CloseSets
    <2>1. /\ consumer' = consumer /\ sampler' = [sampler EXCEPT !.closed = TRUE]
          /\ queue' = queue
      BY <1>4 DEF CloseSets
    <2>2. /\ sampler'.returned = sampler.returned /\ sampler'.closed = TRUE
          /\ sampler'.worker_status = sampler.worker_status
      BY <1>0, <2>1 DEF SamplerRecord
    <2> QED
      BY <2>1, <2>2 DEF Beside
  <1> QED
    BY <1>1, <1>2, <1>3, <1>4, QuietBeside, WorkerBeside DEF Next, CloserStep

\* A step of SampleSource, or none.
SourceStep == Source!Next \/ UNCHANGED Source!vars

LEMMA BesideCounts ==
    ASSUME TypeInv, CountInv, Beside
    PROVE  CountInv' /\ SourceStep
  <1>0. /\ consumer' = consumer /\ sampler'.returned = sampler.returned
        /\ InHand' = InHand
    BY DEF Beside, InHand
  <1>1. CountInv'
    <2>1. queue.closed => queue'.closed
      BY DEF Beside
    <2>2. queue'.closed => \/ sampler'.returned = MaxSamples \/ sampler'.closed
                           \/ sampler'.worker_status # "ok"
      BY DEF Beside, CountInv
    <2> QED
      BY <1>0, <2>1, <2>2 DEF CountInv
  <1>2. CASE /\ queue'.closed = queue.closed /\ sampler'.closed = sampler.closed
             /\ sampler'.worker_status = sampler.worker_status
    BY <1>0, <1>1, <1>2 DEF SourceStep, Source!vars
  <1>3. CASE /\ queue'.closed = queue.closed /\ sampler'.closed = TRUE
             /\ sampler'.worker_status = sampler.worker_status
    BY <1>0, <1>1, <1>3 DEF SourceStep, Source!Next, Source!Close
  <1>4. CASE /\ queue'.closed = TRUE /\ sampler.closed
             /\ sampler'.closed = sampler.closed
             /\ sampler'.worker_status = sampler.worker_status
    BY <1>0, <1>1, <1>4 DEF SourceStep, Source!Next, Source!End
  <1>5. CASE /\ queue'.closed = TRUE /\ sampler'.closed = sampler.closed
             /\ sampler.worker_status = "ok"
             /\ sampler'.worker_status \in {"timeout", "internal"}
    BY <1>0, <1>1, <1>5 DEF SourceStep, Source!Next, Source!Fail
  <1> QED
    BY <1>2, <1>3, <1>4, <1>5 DEF Beside

\* InHand is a truth value.
LEMMA InHandFacts ==
    /\ InHand \in BOOLEAN
    /\ InHand <=> consumer.left > 0 \/ consumer.pc = "count"
    /\ InHand' \in BOOLEAN
    /\ InHand' <=> consumer'.left > 0 \/ consumer'.pc = "count"
  BY DEF InHand

\* A sample that has been taken out and not been handed over yet is new to the
\* consumer, which has not got all of its samples.
LEMMA HandOver ==
    ASSUME TypeInv, OrderInv, CountInv, NEW s, Passed(s),
           \A i \in 1 .. Len(consumer.delivered) :
              /\ Passed(consumer.delivered[i]) /\ Precedes(consumer.delivered[i], s),
           sampler.returned # MaxSamples, consumer.pc # "count",
           consumer'.delivered = Append(consumer.delivered, s),
           \/ /\ ~queue.closed /\ ~InHand /\ InHand' = TRUE
              /\ consumer'.result = consumer.result /\ queue'.closed = queue.closed
           \/ /\ InHand /\ InHand' = FALSE /\ consumer'.result = "ok"
              /\ queue'.closed =
                     (queue.closed \/ sampler.returned + 1 = MaxSamples),
           sampler'.closed = sampler.closed,
           sampler'.worker_status = sampler.worker_status
    PROVE  SourceStep /\ Len(consumer'.delivered) = sampler.returned + 1
  <1> DEFINE out == consumer.delivered
             n == Len(out)
  <1>1. out \in Seq(Nat \cup {NoSample}) /\ n \in Nat /\ DOMAIN out = 1 .. n
    BY DEF TypeInv, ConsumerRecord
  <1>2. sampler.returned \in Nat /\ n = sampler.returned /\ sampler.returned <= MaxSamples
    BY DEF TypeInv, SamplerRecord, CountInv
  <1>3. n < MaxSamples
    BY <1>2, SamplerAssumption
  <1>4. s \in Samples /\ s \in Nat
    <2>1. s \in 1 .. Len(drawn)
      BY DEF Passed
    <2> QED
      BY <2>1 DEF OrderInv
  <1>5. ASSUME NEW i \in DOMAIN out PROVE out[i] # s
    <2>1. Passed(out[i]) /\ Precedes(out[i], s)
      BY <1>1
    <2>2. out[i] \in 1 .. Len(drawn) /\ (drawn[out[i]] = drawn[s] => out[i] < s)
      BY <2>1 DEF Passed, Precedes
    <2>3. ~(s < s)
      BY <1>4
    <2> QED
      BY <2>2, <2>3
  <1>6. Len(consumer'.delivered) = sampler.returned + 1
    BY <1>1, <1>2, <1>4, AppendFacts
  <1>7. Source!Deliver
    BY <1>3, <1>4, <1>5, <1>6 DEF Source!Deliver, Source!EndsWithLast
  <1> QED
    BY <1>6, <1>7 DEF SourceStep, Source!Next

\* ++returned_ and what follows from it.
LEMMA CountFacts ==
    ASSUME TypeInv, CountInv, Count, sampler.returned # MaxSamples
    PROVE  LET n == sampler.returned + 1
           IN  /\ sampler'.returned = n /\ n \in Nat /\ n <= MaxSamples
               /\ sampler'.closed = sampler.closed
               /\ sampler'.worker_status = sampler.worker_status
               /\ queue'.closed = (queue.closed \/ n = MaxSamples)
  <1> DEFINE n == sampler.returned + 1
             c == Capacity
  <1>1. c \in Nat \ {0} /\ queue \in QueueRecord(c) /\ sampler \in SamplerRecord
    BY OptionsFacts DEF TypeInv
  <1> HIDE DEF c
  <1>2. sampler.returned \in Nat /\ n \in Nat /\ n <= MaxSamples
    BY <1>1, SamplerAssumption DEF SamplerRecord, CountInv
  <1>3. /\ sampler' = [sampler EXCEPT !.returned = n]
        /\ queue' = IF n = MaxSamples THEN CloseQueue(queue) ELSE queue
    BY DEF Count
  <1> HIDE DEF n
  <1>4. /\ sampler'.returned = n /\ sampler'.closed = sampler.closed
        /\ sampler'.worker_status = sampler.worker_status
    BY <1>1, <1>3 DEF SamplerRecord
  <1>5. CloseQueue(queue).closed = TRUE /\ queue.closed \in BOOLEAN
    BY <1>1, CloseFacts DEF QueueRecord
  <1>6. queue'.closed = (queue.closed \/ n = MaxSamples)
    BY <1>3, <1>5
  <1> QED
    BY <1>2, <1>4, <1>6 DEF n

LEMMA NextTimestepCounts ==
    ASSUME TypeInv, OrderInv, CountInv, NextTimestep
    PROVE  CountInv' /\ SourceStep
  <1> DEFINE a == consumer.active
             out == consumer.delivered
             ok == ValidateAgainstOutputSpec(a)
             l == consumer.left - 1
             next == [consumer EXCEPT !.left = l]
             end == next.left = 0
             r == IF ok THEN "ok" ELSE "invalid"
             d == IF ~ok /\ end THEN next.dropped + 1 ELSE next.dropped
             o == IF ok /\ end THEN Append(next.delivered, a) ELSE next.delivered
             y == [next EXCEPT !.pc = "idle", !.result = r, !.dropped = d,
                               !.delivered = o]
  <1>1. /\ consumer' = y /\ consumer.pc = "emit"
        /\ IF ok /\ end THEN Count ELSE UNCHANGED <<sampler, queue>>
    BY DEF NextTimestep, GetNextTimestep, IsEndOfSample
  <1>2. /\ consumer \in ConsumerRecord /\ consumer.left \in Nat /\ consumer.left > 0
        /\ consumer.pc # "count"
    BY <1>1 DEF TypeInv, OrderInv, ConsumerPlaced
  <1>3. sampler.returned # MaxSamples
    BY <1>2 DEF CountInv
  <1> HIDE DEF l, ok
  <1>4. /\ next \in ConsumerRecord /\ next.left = l /\ next.delivered = out
    BY <1>2 DEF ConsumerRecord, l
  <1> HIDE DEF next
  <1>5. o = IF ok /\ l = 0 THEN Append(out, a) ELSE out
    BY <1>4
  <1>6. r \in {"ok", "invalid"} /\ (ok => r = "ok")
    OBVIOUS
  <1> HIDE DEF r, d, o
  <1>7. /\ y.pc = "idle" /\ y.left = l /\ y.result = r /\ y.delivered = o
    BY <1>4 DEF ConsumerRecord
  <1> HIDE DEF y
  <1>8. consumer'.pc # "count" /\ consumer'.pc # "failed"
    BY <1>1, <1>7
  <1>9. CASE ok /\ l = 0
    <2>1. Count
      BY <1>1, <1>4, <1>9
    <2>2. /\ Passed(a)
          /\ \A i \in 1 .. Len(out) : Passed(out[i]) /\ Precedes(out[i], a)
      BY <1>2 DEF OrderInv, OutOrdered, Issued, Elements
    <2>3. /\ consumer'.delivered = Append(out, a)
          /\ consumer'.result = "ok" /\ consumer'.left = 0
      BY <1>1, <1>5, <1>6, <1>7, <1>9
    <2>0. InHand /\ InHand' = FALSE
      BY <1>2, <1>8, <2>3, InHandFacts
    <2> DEFINE n == sampler.returned + 1
    <2>4. /\ sampler'.returned = n /\ n \in Nat /\ n <= MaxSamples
          /\ sampler'.closed = sampler.closed
          /\ sampler'.worker_status = sampler.worker_status
          /\ queue'.closed = (queue.closed \/ n = MaxSamples)
      BY <1>3, <2>1, CountFacts
    <2>5. SourceStep /\ Len(consumer'.delivered) = n
      BY <1>2, <1>3, <2>0, <2>2, <2>3, <2>4, HandOver
    <2> HIDE DEF n
    <2>6. n + 0 = n
      BY <2>4
    <2>7. queue'.closed => \/ sampler'.returned = MaxSamples \/ sampler'.closed
                           \/ sampler'.worker_status # "ok"
      BY <1>3, <2>4 DEF CountInv
    <2>8. CountInv'
      BY <1>8, <2>3, <2>4, <2>5, <2>6, <2>7 DEF CountInv
    <2> QED
      BY <2>5, <2>8
  <1>10. CASE ~(ok /\ l = 0)
    <2>1. sampler' = sampler /\ queue' = queue
      BY <1>1, <1>4, <1>10
    <2>2. consumer'.delivered = out /\ consumer'.result \in {"ok", "invalid"}
      BY <1>1, <1>5, <1>6, <1>7, <1>10
    <2>3. CountInv'
      BY <1>2, <1>3, <1>8, <2>1, <2>2 DEF CountInv
    <2>4. Len(consumer'.delivered) # MaxSamples
      BY <1>2, <1>3, <2>2 DEF TypeInv, SamplerRecord, CountInv
    <2>5. queue.closed \in BOOLEAN
      BY OptionsFacts DEF TypeInv, QueueRecord
    <2>6. Source!Answer
      BY <1>2, <2>1, <2>2, <2>4, <2>5, InHandFacts
         DEF Source!Answer, Source!EndsWithLast
    <2> QED
      BY <2>3, <2>6 DEF SourceStep, Source!Next
  <1> QED
    BY <1>9, <1>10

LEMMA PopSampleCounts ==
    ASSUME TypeInv, OrderInv, ReservationsMatch, CountInv, PopSample
    PROVE  CountInv' /\ SourceStep
  <1> DEFINE s == Oldest(queue)
             out == consumer.delivered
             o == Append(out, s)
             d == consumer.dropped + 1
             t == Timesteps
             x == [consumer EXCEPT !.pc = "emit", !.active = s, !.left = t]
             y == [consumer EXCEPT !.pc = "count", !.delivered = o]
             z == [consumer EXCEPT !.pc = "idle", !.result = "invalid", !.dropped = d]
  <1>1. consumer \in ConsumerRecord
    BY DEF TypeInv
  <1>2. /\ consumer.pc = "pop" /\ sampler' = sampler /\ queue' = Pop(queue)
        /\ ~queue.closed
        /\ consumer' = x \/ consumer' = y \/ consumer' = z
    BY DEF PopSample, ActiveSample
  <1>3. ~queue'.closed /\ queue'.closed = queue.closed /\ queue.closed = FALSE
    <2> DEFINE c == Capacity
    <2>1. c \in Nat \ {0} /\ queue \in QueueRecord(c)
      BY OptionsFacts DEF TypeInv
    <2> HIDE DEF c
    <2> QED
      BY <1>2, <2>1, PopFacts DEF QueueRecord
  <1>4. sampler.returned # MaxSamples /\ Len(out) = sampler.returned + 0
    BY <1>2 DEF CountInv
  <1>5. Passed(s) /\ \A i \in 1 .. Len(out) : Passed(out[i]) /\ Precedes(out[i], s)
    <2>1. queue.pops \in Queued(queue) /\ s = Slot(queue, queue.pops)
      BY PopKeeps
    <2>2. Passed(s) /\ \A v \in Issued : Precedes(v, s) /\ Passed(v)
      BY <1>2, <2>1 DEF OrderInv, QueueOrdered, OutOrdered
    <2>3. \A i \in 1 .. Len(out) : out[i] \in Issued
      BY DEF Issued, Elements
    <2> QED
      BY <2>2, <2>3
  <1> HIDE DEF s, d, t, o
  <1>6. /\ x.pc = "emit" /\ x.delivered = out /\ x.result = consumer.result
        /\ y.pc = "count" /\ y.delivered = o /\ y.result = consumer.result
        /\ z.pc = "idle" /\ z.delivered = out /\ z.result = "invalid"
        /\ x.left = t /\ z.left = consumer.left
    BY <1>1 DEF ConsumerRecord
  <1>0. ~InHand /\ consumer.left = 0 /\ t > 0
    BY <1>2, InHandFacts, SamplerAssumption DEF OrderInv, ConsumerPlaced, t
  <1> HIDE DEF x, y, z
  <1>7. sampler.returned \in Nat /\ sampler.returned <= MaxSamples
    BY DEF TypeInv, SamplerRecord, CountInv
  <1>8. CASE consumer' = x
    <2>1. CountInv'
      BY <1>2, <1>3, <1>4, <1>6, <1>7, <1>8 DEF CountInv
    <2>2. InHand' = TRUE
      BY <1>0, <1>6, <1>8, InHandFacts
    <2>3. Source!Begin
      BY <1>0, <1>2, <1>3, <1>6, <1>8, <2>2 DEF Source!Begin
    <2> QED
      BY <2>1, <2>3 DEF SourceStep, Source!Next
  <1>9. CASE consumer' = y
    <2>1. consumer'.delivered = Append(out, s) /\ consumer'.pc = "count"
      BY <1>6, <1>9 DEF o
    <2>0. InHand' = TRUE
      BY <2>1, InHandFacts
    <2>2. SourceStep /\ Len(consumer'.delivered) = sampler.returned + 1
      BY <1>0, <1>2, <1>3, <1>4, <1>5, <1>6, <1>9, <2>0, <2>1, HandOver
    <2>3. CountInv'
      BY <1>2, <1>3, <1>4, <1>7, <2>1, <2>2 DEF CountInv
    <2> QED
      BY <2>2, <2>3
  <1>10. CASE consumer' = z
    <2>1. CountInv'
      BY <1>2, <1>3, <1>4, <1>6, <1>7, <1>10 DEF CountInv
    <2>0. InHand' = FALSE
      BY <1>0, <1>6, <1>10, InHandFacts
    <2>3. Len(consumer'.delivered) # MaxSamples
      BY <1>4, <1>6, <1>7, <1>10
    <2>2. Source!Answer
      BY <1>0, <1>2, <1>3, <1>6, <1>10, <2>0, <2>3
         DEF Source!Answer, Source!EndsWithLast
    <2> QED
      BY <2>1, <2>2 DEF SourceStep, Source!Next
  <1> QED
    BY <1>2, <1>8, <1>9, <1>10

LEMMA CallCounts ==
    ASSUME TypeInv, OrderInv, CountInv,
           \/ ContinueSample \/ StartPop \/ CountTrajectory \/ PopFails
           \/ PopNextSampleFails
    PROVE  CountInv' /\ SourceStep
  <1> DEFINE c == Capacity
  <1>0. /\ c \in Nat \ {0} /\ queue \in QueueRecord(c)
        /\ consumer \in ConsumerRecord /\ sampler \in SamplerRecord
    BY OptionsFacts DEF TypeInv
  <1> HIDE DEF c
  <1>1. EnterPop(queue).closed = queue.closed /\ FailPop(queue).closed = queue.closed
    BY <1>0, TicketFacts
  <1>2. CASE ContinueSample \/ StartPop
    <2>1. /\ sampler' = sampler /\ consumer.pc = "idle"
          /\ consumer' = [consumer EXCEPT !.pc = "emit", !.result = None]
             \/ consumer' = [consumer EXCEPT !.pc = "pop", !.result = None]
          /\ queue' = queue \/ queue' = EnterPop(queue)
      BY <1>2 DEF ContinueSample, StartPop
    <2>2. /\ consumer'.pc \in {"emit", "pop"} /\ consumer'.result = None
          /\ consumer'.delivered = consumer.delivered
          /\ consumer'.left = consumer.left /\ queue'.closed = queue.closed
      BY <1>0, <1>1, <2>1 DEF ConsumerRecord
    <2>3. CountInv'
      BY <2>1, <2>2 DEF CountInv
    <2>4. InHand' = InHand
      BY <2>1, <2>2 DEF InHand
    <2>5. Source!Call
      BY <2>1, <2>2, <2>4 DEF Source!Call
    <2> QED
      BY <2>3, <2>5 DEF SourceStep, Source!Next
  <1>3. CASE CountTrajectory
    <2>1. /\ consumer.pc = "count" /\ Count
          /\ consumer' = [consumer EXCEPT !.pc = "idle", !.result = "ok"]
      BY <1>3 DEF CountTrajectory
    <2>2. /\ consumer'.pc = "idle" /\ consumer'.result = "ok"
          /\ consumer'.delivered = consumer.delivered
          /\ consumer'.left = consumer.left
      BY <1>0, <2>1 DEF ConsumerRecord
    <2>3. sampler.returned # MaxSamples /\ consumer.left = 0
      BY <2>1 DEF CountInv, OrderInv, ConsumerPlaced
    <2> DEFINE n == sampler.returned + 1
    <2>4. /\ sampler'.returned = n /\ n \in Nat /\ n <= MaxSamples
          /\ sampler'.closed = sampler.closed
          /\ sampler'.worker_status = sampler.worker_status
          /\ queue'.closed = (queue.closed \/ n = MaxSamples)
      BY <2>1, <2>3, CountFacts
    <2>5. Len(consumer.delivered) = n
      BY <2>1 DEF CountInv
    <2> HIDE DEF n
    <2>6. n + 0 = n
      BY <2>4
    <2>7. queue'.closed => \/ sampler'.returned = MaxSamples \/ sampler'.closed
                           \/ sampler'.worker_status # "ok"
      BY <2>3, <2>4 DEF CountInv
    <2>8. CountInv'
      BY <2>2, <2>3, <2>4, <2>5, <2>6, <2>7 DEF CountInv
    <2>9. InHand /\ InHand' = FALSE
      BY <2>1, <2>2, <2>3, InHandFacts
    <2>10. Source!Answer
      BY <2>2, <2>4, <2>5, <2>9 DEF Source!Answer, Source!EndsWithLast
    <2> QED
      BY <2>8, <2>10 DEF SourceStep, Source!Next
  <1>4. CASE PopFails
    <2>1. /\ sampler' = sampler /\ consumer.pc = "pop" /\ queue.closed
          /\ consumer' = [consumer EXCEPT !.pc = "failed"]
          /\ queue' = FailPop(queue)
      BY <1>4 DEF PopFails
    <2>2. /\ consumer'.pc = "failed" /\ consumer'.result = consumer.result
          /\ consumer'.delivered = consumer.delivered
          /\ consumer'.left = consumer.left /\ queue'.closed = queue.closed
      BY <1>0, <1>1, <2>1 DEF ConsumerRecord
    <2>3. CountInv'
      BY <2>1, <2>2 DEF CountInv
    <2>4. InHand' = InHand
      BY <2>1, <2>2 DEF InHand
    <2> QED
      BY <2>1, <2>2, <2>3, <2>4 DEF SourceStep, Source!vars
  <1>5. CASE PopNextSampleFails
    <2> DEFINE y == WhyClosed
    <2>1. /\ sampler' = sampler /\ consumer.pc = "failed" /\ queue' = queue
          /\ consumer' = [consumer EXCEPT !.pc = "idle", !.result = y]
      BY <1>5 DEF PopNextSampleFails
    <2>2. \/ y = "out_of_range" /\ sampler.returned = MaxSamples
          \/ y = "cancelled" /\ sampler.returned # MaxSamples /\ sampler.closed
          \/ /\ y = sampler.worker_status /\ sampler.returned # MaxSamples
             /\ ~sampler.closed /\ sampler.worker_status # "ok"
      BY <2>1 DEF WhyClosed, CountInv
    <2> HIDE DEF y
    <2>3. /\ consumer'.pc = "idle" /\ consumer'.result = y
          /\ consumer'.delivered = consumer.delivered
          /\ consumer'.left = consumer.left
      BY <1>0, <2>1 DEF ConsumerRecord
    <2>4. CountInv'
      BY <2>1, <2>3 DEF CountInv
    <2>5. Len(consumer.delivered) = sampler.returned
      BY <1>0, <2>1 DEF CountInv, SamplerRecord
    <2>6. sampler.returned \in Nat /\ sampler.returned <= MaxSamples /\ queue.closed
      BY <1>0, <2>1 DEF CountInv, SamplerRecord
    <2>7. ~InHand /\ InHand' = InHand
      BY <2>1, <2>3 DEF InHand, OrderInv, ConsumerPlaced
    <2>8. sampler.returned # MaxSamples => sampler.returned < MaxSamples
      BY <2>6, SamplerAssumption
    <2>9. Source!Refuse
      BY <2>1, <2>2, <2>3, <2>5, <2>6, <2>7, <2>8 DEF Source!Refuse
    <2> QED
      BY <2>4, <2>9 DEF SourceStep, Source!Next
  <1> QED
    BY <1>2, <1>3, <1>4, <1>5

LEMMA CountStep ==
    TypeInv /\ ReservationsMatch /\ CloseInv /\ OrderInv /\ CountInv /\ [Next]_vars
        => CountInv' /\ SourceStep
  <1> SUFFICES ASSUME TypeInv, ReservationsMatch, CloseInv, OrderInv, CountInv,
                      [Next]_vars
               PROVE  CountInv' /\ SourceStep
    OBVIOUS
  <1>1. CASE NextTimestep
    BY <1>1, NextTimestepCounts
  <1>2. CASE PopSample
    BY <1>2, PopSampleCounts
  <1>3. CASE \/ ContinueSample \/ StartPop \/ CountTrajectory \/ PopFails
             \/ PopNextSampleFails
    BY <1>3, CallCounts
  <1>4. CASE ~ConsumerStep /\ ~ContinueSample /\ ~StartPop
    BY <1>4, OtherBeside, BesideCounts
  <1> QED
    BY <1>1, <1>2, <1>3, <1>4 DEF ConsumerStep

LEMMA CountInit == Init => CountInv /\ Source!Init
  <1> SUFFICES ASSUME Init PROVE CountInv /\ Source!Init
    OBVIOUS
  <1>1. /\ consumer.delivered = << >> /\ consumer.left = 0 /\ consumer.pc = "idle"
        /\ consumer.result = None
        /\ sampler.returned = 0 /\ sampler.closed = FALSE /\ sampler.worker_status = "ok"
        /\ queue.closed = FALSE /\ InHand = FALSE
    BY DEF Init, EmptyQueue, InHand
  <1>2. MaxSamples \in Nat /\ MaxSamples >= 1
    BY SamplerAssumption DEF Init, Validate
  <1>3. CountInv
    BY <1>1, <1>2 DEF CountInv
  <1>4. Source!Init
    BY <1>1 DEF Source!Init
  <1> QED
    BY <1>3, <1>4

\* The Sampler with its workers, streams and queue does nothing that
\* SampleSource does not allow: no sample comes twice, not more than max_samples_
\* come at all, none is begun once the queue is closed, and a call that then has
\* no sample in hand gets OutOfRange after the last sample, else Cancelled after
\* Close, else the first error that a worker reported
\* (GetNextTimestep, GetNextTrajectory, MaybeSampleNext, RunWorker, Close).
THEOREM Refinement == Spec => ImplementsSource
  <1>1. Init => TypeInv /\ ReservationsMatch /\ CloseInv /\ OrderInv
    BY InitTypeInv, ReservationsInit, CloseInit, OrderInit
  <1>2. Init => CountInv /\ Source!Init
    BY CountInit
  <1>3. TypeInv /\ CloseInv /\ [Next]_vars => CloseInv'
    BY CloseStep
  <1>4. TypeInv /\ ReservationsMatch /\ CloseInv /\ OrderInv /\ CountInv /\ [Next]_vars
            => CountInv' /\ [Source!Next]_(Source!vars)
    BY CountStep DEF SourceStep
  <1> QED
    BY <1>1, <1>2, <1>3, <1>4, SamplerTypeCorrect, ReservationsSafety, OrderCorrect,
       PTL DEF Spec, ImplementsSource, Source!Spec
=============================================================================
