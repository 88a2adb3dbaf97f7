----------------------------- MODULE TableProofs ----------------------------
(***************************************************************************)
(* Proofs of the properties of Table, for every value of its constants:    *)
(* any number of requests, clients, calls, keys and extension requests.    *)
(*                                                                         *)
(* Part 1: the functions of RateLimiter and TableState: the type of what   *)
(*         they return, what they do to the keys of the table, to its size *)
(*         and to the counters of the limiter.                             *)
(* Part 2: types, agreement of the structures, size and limiter of Table,  *)
(*         and what it keeps of its items: how often they were sampled,    *)
(*         and how many chunks of each episode they hold.                  *)
(* Part 3: requests: none is lost or answered twice on its way from the    *)
(*         clients through the queues and the batches of the worker; and   *)
(*         what becomes of items: what extensions learn of them, and that  *)
(*         each of them is released once.                                  *)
(***************************************************************************)
EXTENDS TableProperties, FiniteSetTheorems, SequenceTheorems,
        WellFoundedInduction, TLAPS

-----------------------------------------------------------------------------
(* Part 1. The functions of RateLimiter and TableState. *)

-----------------------------------------------------------------------------
(* The limiter. *)

\* The operations of the limiter keep the type of its counters
\* (RateLimiter::Insert, Delete, MaybeCommitSample, Reset).
LEMMA LimiterType ==
    ASSUME NEW l \in Limiter
    PROVE  /\ LimiterInsert(l) \in Limiter
           /\ LimiterDelete(l) \in Limiter
           /\ CommitSample(l) \in Limiter
           /\ ResetLimiter \in Limiter
           /\ Cursor(l) \in Int
  BY LimiterAssumption
     DEF Limiter, LimiterInsert, LimiterDelete, CommitSample, ResetLimiter, Cursor

\* How each operation of the limiter moves its cursor.
LEMMA CursorMoves ==
    ASSUME NEW l \in Limiter
    PROVE  /\ Cursor(LimiterInsert(l)) = Cursor(l) + SamplesPerInsert
           /\ Cursor(LimiterDelete(l)) = Cursor(l)
           /\ Cursor(CommitSample(l)) = Cursor(l) - Unit
  <1>1. \A a, b \in Int : (a + 1) * b = a * b + b
    OBVIOUS
  <1>2. /\ l.inserts \in Int /\ l.samples \in Int
        /\ SamplesPerInsert \in Int /\ Unit \in Int
    BY LimiterAssumption DEF Limiter
  <1>3. /\ (l.inserts + 1) * SamplesPerInsert
             = l.inserts * SamplesPerInsert + SamplesPerInsert
        /\ (l.samples + 1) * Unit = l.samples * Unit + Unit
    BY <1>1, <1>2
  <1>4. LimiterInsert(l).inserts = l.inserts + 1
        /\ LimiterInsert(l).samples = l.samples
    BY DEF LimiterInsert, Limiter
  <1>5. LimiterDelete(l).inserts = l.inserts
        /\ LimiterDelete(l).samples = l.samples
    BY DEF LimiterDelete, Limiter
  <1>6. CommitSample(l).inserts = l.inserts
        /\ CommitSample(l).samples = l.samples + 1
    BY DEF CommitSample, Limiter
  <1>7. l.inserts * SamplesPerInsert \in Int /\ l.samples * Unit \in Int
    BY <1>2
  <1> QED
    BY <1>2, <1>3, <1>4, <1>5, <1>6, <1>7 DEF Cursor

\* With the error buffer of SampleToInsertRatio the limiter never refuses both
\* an insert and a sample, whatever its counters are (CanInsert, CanSample).
THEOREM LimiterNeverBlocksBoth ==
    ASSUME NEW l \in Limiter, WideBuffer
    PROVE  CanInsert(l, 1) \/ CanSample(l, 1)
  <1>1. Cursor(l) \in Int
    BY LimiterType
  <1> QED
    BY <1>1, LimiterAssumption DEF Limiter, CanInsert, CanSample, WideBuffer

-----------------------------------------------------------------------------
(* Types. *)

\* An empty table is a table (the constructor of Table).
LEMMA EmptyTableType == EmptyTable \in TableRecord
  <1>1. ResetLimiter \in Limiter
    BY DEF ResetLimiter, Limiter
  <1>2. << >> \in Seq(ExtensionRequest)
    BY EmptySeq
  <1> QED
    BY <1>1, <1>2 DEF EmptyTable, TableRecord, Selector

\* Finitely many items are in a table, and their number is a natural number.
LEMMA SizeType ==
    ASSUME NEW t \in TableRecord
    PROVE  IsFiniteSet(Present(t)) /\ Size(t) \in Nat
  <1>1. Present(t) \in SUBSET Keys
    BY DEF Present
  <1>2. IsFiniteSet(Present(t))
    BY <1>1, TableAssumption, FS_Subset
  <1> QED
    BY <1>2, FS_CardinalityType DEF Size

\* ExtensionOperation appends to extension_requests_ and changes nothing else.
LEMMA ExtensionOperationFacts ==
    ASSUME NEW t \in TableRecord, NEW k \in Keys,
           NEW type \in {"insert", "sample", "update", "delete", "release"}
    PROVE  LET r == ExtensionOperation(t, type, k)
           IN /\ r \in TableRecord
              /\ r.data = t.data
              /\ r.sampler = t.sampler
              /\ r.remover = t.remover
              /\ r.limiter = t.limiter
              /\ r.episode_refs = t.episode_refs
              /\ r.num_deleted_episodes = t.num_deleted_episodes
              /\ r.num_unique_samples = t.num_unique_samples
  <1> DEFINE e == [type |-> type, key |-> k]
  <1>1. e \in ExtensionRequest
    BY DEF ExtensionRequest
  <1>2. t.extension_requests \in Seq(ExtensionRequest)
    BY DEF TableRecord
  <1>3. Append(t.extension_requests, e) \in Seq(ExtensionRequest)
    BY <1>1, <1>2, AppendProperties
  <1> QED
    BY <1>3 DEF ExtensionOperation, TableRecord

\* The episode counters keep their type when an item comes or goes.
LEMMA EpisodeRefsType ==
    ASSUME NEW refs \in [Episodes -> Int], NEW k \in Keys
    PROVE  /\ AddEpisodeRefs(refs, k) \in [Episodes -> Int]
           /\ DropEpisodeRefs(refs, k) \in [Episodes -> Int]
           /\ Cardinality(LastRefs(refs, k)) \in Nat
  <1>1. \A e \in Episodes : ChunkCount[k][e] \in Int
    BY TableAssumption
  <1>2. AddEpisodeRefs(refs, k) \in [Episodes -> Int]
        /\ DropEpisodeRefs(refs, k) \in [Episodes -> Int]
    BY <1>1 DEF AddEpisodeRefs, DropEpisodeRefs
  <1>3. LastRefs(refs, k) \in SUBSET Episodes
    BY DEF LastRefs
  <1>4. IsFiniteSet(LastRefs(refs, k))
    BY <1>3, TableAssumption, FS_Subset
  <1> QED
    BY <1>2, <1>4, FS_CardinalityType

\* What DeleteItem does to a table before it turns to the selectors.
LEMMA EraseFacts ==
    ASSUME NEW t \in TableRecord, NEW k \in Keys
    PROVE  LET u == [t EXCEPT
                        !.data[k] = None,
                        !.episode_refs = DropEpisodeRefs(@, k),
                        !.num_deleted_episodes =
                            @ + Cardinality(LastRefs(t.episode_refs, k)),
                        !.limiter = LimiterDelete(@)]
           IN /\ u \in TableRecord
              /\ u.data = [t.data EXCEPT ![k] = None]
              /\ u.sampler = t.sampler /\ u.remover = t.remover
              /\ u.limiter = LimiterDelete(t.limiter)
              /\ u.num_unique_samples = t.num_unique_samples
  <1> DEFINE d == [t.data EXCEPT ![k] = None]
             refs == DropEpisodeRefs(t.episode_refs, k)
             n == t.num_deleted_episodes
                    + Cardinality(LastRefs(t.episode_refs, k))
             l == LimiterDelete(t.limiter)
             u == [t EXCEPT !.data = d, !.episode_refs = refs,
                            !.num_deleted_episodes = n, !.limiter = l]
  <1>1. refs \in [Episodes -> Int] /\ n \in Nat
    BY EpisodeRefsType DEF TableRecord
  <1>2. l \in Limiter
    BY LimiterType DEF TableRecord
  <1>3. d \in [Keys -> Item \cup {None}]
    BY DEF TableRecord
  <1> HIDE DEF d, refs, n, l
  <1>4. /\ u \in TableRecord /\ u.data = d /\ u.sampler = t.sampler
        /\ u.remover = t.remover /\ u.limiter = l
        /\ u.num_unique_samples = t.num_unique_samples
    BY <1>1, <1>2, <1>3 DEF TableRecord
  <1> QED
    BY <1>4 DEF d, refs, n, l

\* DeleteItem of an item that both selectors know removes it from data_ and
\* from both selectors and counts the delete.
LEMMA DeleteItemFacts ==
    ASSUME NEW t \in TableRecord, NEW k \in Keys,
           t.data[k] # None, t.sampler[k] # None, t.remover[k] # None
    PROVE  LET r == DeleteItem(t, k)
           IN /\ r \in TableRecord
              /\ r.data = [t.data EXCEPT ![k] = None]
              /\ r.sampler = [t.sampler EXCEPT ![k] = None]
              /\ r.remover = [t.remover EXCEPT ![k] = None]
              /\ r.limiter = LimiterDelete(t.limiter)
              /\ r.num_unique_samples = t.num_unique_samples
  <1> DEFINE u == [t EXCEPT
                !.data[k] = None,
                !.episode_refs = DropEpisodeRefs(@, k),
                !.num_deleted_episodes =
                    @ + Cardinality(LastRefs(t.episode_refs, k)),
                !.limiter = LimiterDelete(@)]
             v == [u EXCEPT !.sampler[k] = None, !.remover[k] = None]
  <1>3. /\ u \in TableRecord
        /\ u.data = [t.data EXCEPT ![k] = None]
        /\ u.sampler = t.sampler /\ u.remover = t.remover
        /\ u.limiter = LimiterDelete(t.limiter)
        /\ u.num_unique_samples = t.num_unique_samples
    BY EraseFacts
  <1>4. DeleteItem(t, k) = ExtensionOperation(v, "delete", k)
    BY DEF DeleteItem
  <1> HIDE DEF u
  <1>5. /\ v \in TableRecord /\ v.data = u.data
        /\ v.sampler = [u.sampler EXCEPT ![k] = None]
        /\ v.remover = [u.remover EXCEPT ![k] = None]
        /\ v.limiter = u.limiter /\ v.num_unique_samples = u.num_unique_samples
    BY <1>3 DEF TableRecord, Selector
  <1> HIDE DEF v
  <1>6. LET r == ExtensionOperation(v, "delete", k)
        IN /\ r \in TableRecord /\ r.data = v.data /\ r.limiter = v.limiter
           /\ r.sampler = v.sampler /\ r.remover = v.remover
           /\ r.num_unique_samples = v.num_unique_samples
    BY <1>5, ExtensionOperationFacts
  <1> QED
    BY <1>3, <1>4, <1>5, <1>6

\* DeleteItem ignores a missing key.
LEMMA DeleteItemMissing ==
    ASSUME NEW t, NEW k, t.data[k] = None
    PROVE  DeleteItem(t, k) = t
  BY DEF DeleteItem

\* Even when a selector does not know the key, DeleteItem removes the item from
\* data_ and counts the delete.
LEMMA DeleteItemData ==
    ASSUME NEW t \in TableRecord, NEW k \in Keys, t.data[k] # None
    PROVE  LET r == DeleteItem(t, k)
           IN /\ r \in TableRecord
              /\ r.data = [t.data EXCEPT ![k] = None]
              /\ r.limiter = LimiterDelete(t.limiter)
              /\ r.num_unique_samples = t.num_unique_samples
  <1> DEFINE u == [t EXCEPT
                !.data[k] = None,
                !.episode_refs = DropEpisodeRefs(@, k),
                !.num_deleted_episodes =
                    @ + Cardinality(LastRefs(t.episode_refs, k)),
                !.limiter = LimiterDelete(@)]
             v == [u EXCEPT !.sampler[k] = None]
  <1>1. /\ u \in TableRecord
        /\ u.data = [t.data EXCEPT ![k] = None]
        /\ u.limiter = LimiterDelete(t.limiter)
        /\ u.num_unique_samples = t.num_unique_samples
    BY EraseFacts
  <1>2. \/ DeleteItem(t, k) = u
        \/ DeleteItem(t, k) = v
        \/ t.sampler[k] # None /\ t.remover[k] # None
    BY DEF DeleteItem
  <1> HIDE DEF u
  <1>3. /\ v \in TableRecord /\ v.data = u.data /\ v.limiter = u.limiter
        /\ v.num_unique_samples = u.num_unique_samples
    BY <1>1 DEF TableRecord, Selector
  <1> HIDE DEF v
  <1> QED
    BY <1>1, <1>2, <1>3, DeleteItemFacts

\* DeleteItem returns a table.
LEMMA DeleteItemType ==
    ASSUME NEW t \in TableRecord, NEW k \in Keys
    PROVE  DeleteItem(t, k) \in TableRecord
  <1>1. CASE t.data[k] = None
    BY <1>1, DeleteItemMissing
  <1>2. CASE t.data[k] # None
    BY <1>2, DeleteItemData
  <1> QED
    BY <1>1, <1>2

\* UpdateItem of an item stores the priority with it; unless a selector refuses
\* the priority, both selectors take it over.  The keys of the table, the
\* limiter and the times an item was sampled stay as they are.
LEMMA UpdateItemFacts ==
    ASSUME NEW t \in TableRecord, NEW k \in Keys, NEW p \in Priorities,
           t.data[k] # None
    PROVE  LET r == UpdateItem(t, k, p)
           IN /\ r \in TableRecord
              /\ r.data = [t.data EXCEPT ![k] =
                    [priority |-> p, times_sampled |-> t.data[k].times_sampled]]
              /\ r.sampler \in {t.sampler, [t.sampler EXCEPT ![k] = p]}
              /\ r.remover \in {t.remover, [t.remover EXCEPT ![k] = p]}
              /\ t.sampler[k] = None => r.sampler = t.sampler
              /\ t.remover[k] = None => r.remover = t.remover
              /\ UpdateOk(t, k, p) =>
                    /\ r.sampler = [t.sampler EXCEPT ![k] = p]
                    /\ r.remover = [t.remover EXCEPT ![k] = p]
              /\ r.limiter = t.limiter
              /\ r.num_unique_samples = t.num_unique_samples
  <1> DEFINE u == [t EXCEPT !.data[k].priority = p]
             v == [u EXCEPT !.sampler[k] = p]
             w == [u EXCEPT !.sampler[k] = p, !.remover[k] = p]
  <1>1. t.data[k] \in Item
    BY DEF TableRecord
  <1>2. [t.data[k] EXCEPT !.priority = p]
           = [priority |-> p, times_sampled |-> t.data[k].times_sampled]
        /\ [t.data[k] EXCEPT !.priority = p] \in Item
    BY <1>1 DEF Item
  <1>3. /\ u \in TableRecord
        /\ u.data = [t.data EXCEPT ![k] =
                [priority |-> p, times_sampled |-> t.data[k].times_sampled]]
        /\ u.sampler = t.sampler /\ u.remover = t.remover
        /\ u.limiter = t.limiter /\ u.num_unique_samples = t.num_unique_samples
    BY <1>2 DEF TableRecord
  <1>4. /\ \/ UpdateItem(t, k, p) = u /\ ~UpdateOk(t, k, p)
           \/ /\ UpdateItem(t, k, p) = v /\ ~UpdateOk(t, k, p)
              /\ t.sampler[k] # None
           \/ /\ UpdateItem(t, k, p) = ExtensionOperation(w, "update", k)
              /\ t.sampler[k] # None /\ t.remover[k] # None
    BY DEF UpdateItem, UpdateOk
  <1> HIDE DEF u
  <1>5. /\ v \in TableRecord /\ v.data = u.data /\ v.remover = u.remover
        /\ v.sampler = [u.sampler EXCEPT ![k] = p]
        /\ v.limiter = u.limiter /\ v.num_unique_samples = u.num_unique_samples
    BY <1>3 DEF TableRecord, Selector
  <1>6. /\ w \in TableRecord /\ w.data = u.data
        /\ w.sampler = [u.sampler EXCEPT ![k] = p]
        /\ w.remover = [u.remover EXCEPT ![k] = p]
        /\ w.limiter = u.limiter /\ w.num_unique_samples = u.num_unique_samples
    BY <1>3 DEF TableRecord, Selector
  <1> HIDE DEF v, w
  <1>7. LET r == ExtensionOperation(w, "update", k)
        IN /\ r \in TableRecord /\ r.data = w.data /\ r.limiter = w.limiter
           /\ r.sampler = w.sampler /\ r.remover = w.remover
           /\ r.num_unique_samples = w.num_unique_samples
    BY <1>6, ExtensionOperationFacts
  <1> QED
    BY <1>3, <1>4, <1>5, <1>6, <1>7

\* UpdateItem returns a table.
LEMMA UpdateItemType ==
    ASSUME NEW t \in TableRecord, NEW k \in Keys, NEW p \in Priorities
    PROVE  UpdateItem(t, k, p) \in TableRecord
  <1>1. t.data[k] = None => UpdateItem(t, k, p) = t
    BY DEF UpdateItem
  <1> QED
    BY <1>1, UpdateItemFacts

\* InsertItem stores the item; unless a selector refuses it, both selectors take
\* it over.  The limiter has not heard of it yet.
LEMMA InsertItemFacts ==
    ASSUME NEW t \in TableRecord, NEW k \in Keys, NEW p \in Priorities
    PROVE  LET r == InsertItem(t, k, p)
           IN /\ r \in TableRecord
              /\ r.data = [t.data EXCEPT ![k] =
                            [priority |-> p, times_sampled |-> 0]]
              /\ InsertOk(t, k, p) =>
                    /\ r.sampler = [t.sampler EXCEPT ![k] = p]
                    /\ r.remover = [t.remover EXCEPT ![k] = p]
              /\ r.limiter = t.limiter
              /\ r.num_unique_samples = t.num_unique_samples
  <1> DEFINE i == [priority |-> p, times_sampled |-> 0]
             u == [t EXCEPT !.data[k] = i]
             v == [u EXCEPT !.sampler[k] = p]
             refs == AddEpisodeRefs(u.episode_refs, k)
             w == [u EXCEPT !.sampler[k] = p, !.remover[k] = p,
                            !.episode_refs = refs]
  <1>1. i \in Item
    BY DEF Item
  <1>2. \/ InsertItem(t, k, p) = u /\ ~InsertOk(t, k, p)
        \/ InsertItem(t, k, p) = v /\ ~InsertOk(t, k, p)
        \/ InsertItem(t, k, p) = ExtensionOperation(w, "insert", k)
    BY DEF InsertItem, InsertOk
  <1> HIDE DEF i
  <1>3. /\ u \in TableRecord /\ u.data = [t.data EXCEPT ![k] = i]
        /\ u.sampler = t.sampler /\ u.remover = t.remover
        /\ u.limiter = t.limiter /\ u.num_unique_samples = t.num_unique_samples
    BY <1>1 DEF TableRecord
  <1> HIDE DEF u
  <1>4. refs \in [Episodes -> Int]
    BY <1>3, EpisodeRefsType DEF TableRecord
  <1> HIDE DEF refs
  <1>5. /\ v \in TableRecord /\ v.data = u.data
        /\ v.limiter = u.limiter /\ v.num_unique_samples = u.num_unique_samples
    BY <1>3 DEF TableRecord, Selector
  <1>6. /\ w \in TableRecord /\ w.data = u.data
        /\ w.sampler = [u.sampler EXCEPT ![k] = p]
        /\ w.remover = [u.remover EXCEPT ![k] = p]
        /\ w.limiter = u.limiter /\ w.num_unique_samples = u.num_unique_samples
    BY <1>3, <1>4 DEF TableRecord, Selector
  <1> HIDE DEF v, w
  <1>7. LET r == ExtensionOperation(w, "insert", k)
        IN /\ r \in TableRecord /\ r.data = w.data /\ r.limiter = w.limiter
           /\ r.sampler = w.sampler /\ r.remover = w.remover
           /\ r.num_unique_samples = w.num_unique_samples
    BY <1>6, ExtensionOperationFacts
  <1> QED
    BY <1>2, <1>3, <1>5, <1>6, <1>7 DEF i

LEMMA InsertItemData ==
    ASSUME NEW t \in TableRecord, NEW k \in Keys, NEW p \in Priorities
    PROVE  InsertItem(t, k, p).data =
              [t.data EXCEPT ![k] = [priority |-> p, times_sampled |-> 0]]
  <1> DEFINE i == [priority |-> p, times_sampled |-> 0]
             r == InsertItem(t, k, p)
             u == [t EXCEPT !.data[k] = i]
             v == [u EXCEPT !.sampler[k] = p]
  <1>1. i \in Item
    BY DEF Item
  <1>2. CASE InsertOk(t, k, p)
    <2>1. /\ r.data = [t.data EXCEPT ![k] = i]
          /\ r.sampler = [t.sampler EXCEPT ![k] = p]
          /\ r.remover = [t.remover EXCEPT ![k] = p]
      BY <1>2, InsertItemFacts
    <2> QED
      BY <2>1
  <1>3. CASE ~InsertOk(t, k, p)
    <2>1. r = u \/ r = v
      BY <1>3 DEF InsertItem, InsertOk
    <2> HIDE DEF i, r
    <2>2. u \in TableRecord /\ u.data = [t.data EXCEPT ![k] = i]
      BY <1>1 DEF TableRecord
    <2> HIDE DEF u
    <2>3. v.data = u.data
      BY <2>2 DEF TableRecord
    <2>4. r.data = [t.data EXCEPT ![k] = i]
      BY <2>1, <2>2, <2>3
    <2> QED
      BY <2>4 DEF r, i
  <1> QED
    BY <1>2, <1>3

\* RegisterInsert only counts.
LEMMA RegisterInsertFacts ==
    ASSUME NEW t \in TableRecord
    PROVE  LET r == RegisterInsert(t)
           IN /\ r \in TableRecord
              /\ r.data = t.data /\ r.sampler = t.sampler
              /\ r.remover = t.remover
              /\ r.limiter = LimiterInsert(t.limiter)
              /\ r.num_unique_samples = t.num_unique_samples
              /\ r.extension_requests = t.extension_requests
  <1> DEFINE l == LimiterInsert(t.limiter)
  <1>1. l \in Limiter
    BY LimiterType DEF TableRecord
  <1> HIDE DEF l
  <1>2. LET r == [t EXCEPT !.limiter = l]
        IN /\ r \in TableRecord
           /\ r.data = t.data /\ r.sampler = t.sampler
           /\ r.remover = t.remover
           /\ r.limiter = l
           /\ r.num_unique_samples = t.num_unique_samples
           /\ r.extension_requests = t.extension_requests
    BY <1>1 DEF TableRecord
  <1> QED
    BY <1>2 DEF RegisterInsert, l

\* ClearTable leaves an empty table with fresh counters.
LEMMA ClearTableFacts ==
    ASSUME NEW t \in TableRecord
    PROVE  LET r == ClearTable(t)
           IN /\ r \in TableRecord
              /\ \A k \in Keys : /\ r.data[k] = None
                                 /\ r.sampler[k] = None /\ r.remover[k] = None
              /\ r.limiter = ResetLimiter
              /\ r.num_unique_samples = 0
              /\ r.extension_requests = t.extension_requests
  <1>1. LET r == [EmptyTable EXCEPT !.extension_requests = t.extension_requests]
        IN /\ r \in TableRecord
           /\ r.data = EmptyTable.data /\ r.sampler = EmptyTable.sampler
           /\ r.remover = EmptyTable.remover /\ r.limiter = EmptyTable.limiter
           /\ r.num_unique_samples = EmptyTable.num_unique_samples
           /\ r.extension_requests = t.extension_requests
    BY EmptyTableType DEF TableRecord
  <1>2. /\ \A k \in Keys : /\ EmptyTable.data[k] = None
                           /\ EmptyTable.sampler[k] = None
                           /\ EmptyTable.remover[k] = None
        /\ EmptyTable.limiter = ResetLimiter
        /\ EmptyTable.num_unique_samples = 0
    BY DEF EmptyTable
  <1> QED
    BY <1>1, <1>2 DEF ClearTable

\* SampleItem counts the sample, and either the item has been sampled once more
\* or it has been sampled often enough and is gone.
LEMMA SampleItemFacts ==
    ASSUME NEW t \in TableRecord, NEW k \in Keys,
           t.data[k] # None, t.sampler[k] # None, t.remover[k] # None
    PROVE  LET r == SampleItem(t, k)
               n == t.data[k].times_sampled + 1
           IN /\ r \in TableRecord
              /\ r.num_unique_samples =
                    IF t.data[k].times_sampled = 0 THEN t.num_unique_samples + 1
                    ELSE t.num_unique_samples
              /\ \/ /\ n # MaxTimesSampled
                    /\ r.data = [t.data EXCEPT ![k] =
                          [priority |-> t.data[k].priority, times_sampled |-> n]]
                    /\ r.sampler = t.sampler
                    /\ r.remover = t.remover
                    /\ r.limiter = CommitSample(t.limiter)
                 \/ /\ r.data = [t.data EXCEPT ![k] = None]
                    /\ r.sampler = [t.sampler EXCEPT ![k] = None]
                    /\ r.remover = [t.remover EXCEPT ![k] = None]
                    /\ r.limiter = LimiterDelete(CommitSample(t.limiter))
  <1> DEFINE l == CommitSample(t.limiter)
             m == IF t.data[k].times_sampled = 0 THEN t.num_unique_samples + 1
                  ELSE t.num_unique_samples
             i == [priority |-> t.data[k].priority,
                   times_sampled |-> t.data[k].times_sampled + 1]
             u == [t EXCEPT !.limiter = l, !.num_unique_samples = m,
                            !.data[k] = i]
             v == ExtensionOperation(u, "sample", k)
  <1>1. l \in Limiter
    BY LimiterType DEF TableRecord
  <1>2. t.data[k] \in Item /\ t.data[k].times_sampled \in Nat
    BY DEF TableRecord, Item
  <1>3. m \in Nat /\ i \in Item /\ i # None
    BY <1>2, NoneIsNoItem DEF TableRecord, Item
  <1>4. SampleItem(t, k) = IF SampledOut(u, k) THEN DeleteItem(v, k) ELSE v
    <2>1. [t.data[k] EXCEPT !.times_sampled = @ + 1] = i
      BY <1>2 DEF Item
    <2>2. [t EXCEPT !.limiter = CommitSample(@),
                    !.num_unique_samples = IF t.data[k].times_sampled = 0
                                           THEN @ + 1 ELSE @,
                    !.data[k].times_sampled = @ + 1] = u
      BY <2>1
    <2> QED
      BY <2>2 DEF SampleItem
  <1>5. i.times_sampled = t.data[k].times_sampled + 1
    OBVIOUS
  <1> HIDE DEF l, m, i
  <1>6. /\ u \in TableRecord /\ u.data = [t.data EXCEPT ![k] = i]
        /\ u.sampler = t.sampler /\ u.remover = t.remover
        /\ u.limiter = l /\ u.num_unique_samples = m
    BY <1>1, <1>3 DEF TableRecord
  <1>7. u.data[k] = i
    BY <1>6 DEF TableRecord
  <1> HIDE DEF u
  <1>8. /\ v \in TableRecord /\ v.data = u.data /\ v.limiter = u.limiter
        /\ v.sampler = u.sampler /\ v.remover = u.remover
        /\ v.num_unique_samples = u.num_unique_samples
    BY <1>6, ExtensionOperationFacts
  <1> HIDE DEF v
  <1>9. CASE SampledOut(u, k)
    <2>1. v.data[k] # None /\ v.sampler[k] # None /\ v.remover[k] # None
      BY <1>3, <1>6, <1>7, <1>8
    <2>2. LET r == DeleteItem(v, k)
          IN /\ r \in TableRecord
             /\ r.data = [v.data EXCEPT ![k] = None]
             /\ r.sampler = [v.sampler EXCEPT ![k] = None]
             /\ r.remover = [v.remover EXCEPT ![k] = None]
             /\ r.limiter = LimiterDelete(v.limiter)
             /\ r.num_unique_samples = v.num_unique_samples
      BY <1>8, <2>1, DeleteItemFacts
    <2>3. [[t.data EXCEPT ![k] = i] EXCEPT ![k] = None]
            = [t.data EXCEPT ![k] = None]
      BY DEF TableRecord
    <2> QED
      BY <1>4, <1>6, <1>8, <1>9, <2>2, <2>3 DEF l, m
  <1>10. CASE ~SampledOut(u, k)
    <2>1. i.times_sampled # MaxTimesSampled
      BY <1>7, <1>10 DEF SampledOut
    <2> QED
      BY <1>4, <1>5, <1>6, <1>8, <1>10, <2>1 DEF l, m, i
  <1> QED
    BY <1>9, <1>10

-----------------------------------------------------------------------------
(* The size of a table, and the agreement of its three structures. *)

\* The size changes by one when an entry of data_ comes or goes.
LEMMA SizeOfChange ==
    ASSUME NEW t \in TableRecord, NEW r \in TableRecord, NEW k \in Keys, NEW x,
           r.data = [t.data EXCEPT ![k] = x]
    PROVE  /\ x # None /\ t.data[k] = None => Size(r) = Size(t) + 1
           /\ x # None /\ t.data[k] # None => Size(r) = Size(t)
           /\ x = None /\ t.data[k] # None => Size(r) = Size(t) - 1
  <1>1. IsFiniteSet(Present(t))
    BY SizeType
  <1>2. x # None => Present(r) = Present(t) \cup {k}
    BY DEF Present, TableRecord
  <1>3. x = None => Present(r) = Present(t) \ {k}
    BY DEF Present, TableRecord
  <1>4. (k \in Present(t)) <=> (t.data[k] # None)
    BY DEF Present
  <1>5. Cardinality(Present(t) \cup {k}) =
            IF k \in Present(t) THEN Cardinality(Present(t))
            ELSE Cardinality(Present(t)) + 1
    BY <1>1, FS_AddElement
  <1>6. Cardinality(Present(t) \ {k}) =
            IF k \in Present(t) THEN Cardinality(Present(t)) - 1
            ELSE Cardinality(Present(t))
    BY <1>1, FS_RemoveElement
  <1> QED
    BY <1>2, <1>3, <1>4, <1>5, <1>6 DEF Size

\* The size depends on data_ alone.
LEMMA SizeOfSame ==
    ASSUME NEW t, NEW r, r.data = t.data
    PROVE  Present(r) = Present(t) /\ Size(r) = Size(t)
  BY DEF Present, Size

\* The three cases of SizeOfChange.
LEMMA SizeOfDelete ==
    ASSUME NEW t \in TableRecord, NEW r \in TableRecord, NEW k \in Keys,
           t.data[k] # None, r.data = [t.data EXCEPT ![k] = None]
    PROVE  Size(r) = Size(t) - 1
  BY SizeOfChange

LEMMA SizeOfInsert ==
    ASSUME NEW t \in TableRecord, NEW r \in TableRecord, NEW k \in Keys,
           NEW x \in Item,
           t.data[k] = None, r.data = [t.data EXCEPT ![k] = x]
    PROVE  Size(r) = Size(t) + 1
  <1>1. x # None
    BY NoneIsNoItem
  <1> QED
    BY <1>1, SizeOfChange

LEMMA SizeOfReplace ==
    ASSUME NEW t \in TableRecord, NEW r \in TableRecord, NEW k \in Keys,
           NEW x \in Item,
           t.data[k] # None, r.data = [t.data EXCEPT ![k] = x]
    PROVE  Size(r) = Size(t)
  <1>1. x # None
    BY NoneIsNoItem
  <1> QED
    BY <1>1, SizeOfChange

\* A change of an item's priority leaves the size and the limiter alone.
LEMMA UpdateSize ==
    ASSUME NEW t \in TableRecord, NEW k \in Keys, NEW p \in Priorities
    PROVE  /\ Size(UpdateItem(t, k, p)) = Size(t)
           /\ UpdateItem(t, k, p).limiter = t.limiter
  <1>1. CASE t.data[k] = None
    BY <1>1 DEF UpdateItem
  <1>2. CASE t.data[k] # None
    <2> DEFINE x == [priority |-> p, times_sampled |-> t.data[k].times_sampled]
               r == UpdateItem(t, k, p)
    <2>1. t.data[k].times_sampled \in Nat
      BY <1>2 DEF TableRecord, Item
    <2>2. x \in Item
      BY <2>1 DEF Item
    <2>3. r \in TableRecord
      BY UpdateItemType
    <2>4. /\ r.data = [t.data EXCEPT ![k] = x]
          /\ r.sampler = t.sampler \/ r.sampler = [t.sampler EXCEPT ![k] = p]
          /\ r.remover = t.remover \/ r.remover = [t.remover EXCEPT ![k] = p]
          /\ UpdateOk(t, k, p) => /\ r.sampler = [t.sampler EXCEPT ![k] = p]
                                  /\ r.remover = [t.remover EXCEPT ![k] = p]
      BY <1>2, UpdateItemFacts
    <2>5. r.limiter = t.limiter
      BY <1>2, UpdateItemFacts
    <2> HIDE DEF x, r
    <2>6. Size(r) = Size(t)
      BY <1>2, <2>2, <2>3, <2>4, SizeOfReplace
    <2> QED
      BY <2>5, <2>6 DEF r
  <1> QED
    BY <1>1, <1>2

\* A delete lowers the size by as much as it raises the limiter's count.
LEMMA DeleteSize ==
    ASSUME NEW t \in TableRecord, NEW k \in Keys
    PROVE  LET r == DeleteItem(t, k)
           IN \/ r = t
              \/ Size(r) = Size(t) - 1 /\ r.limiter = LimiterDelete(t.limiter)
  <1>1. CASE t.data[k] = None
    BY <1>1, DeleteItemMissing
  <1>2. CASE t.data[k] # None
    BY <1>2, DeleteItemData, SizeOfDelete
  <1> QED
    BY <1>1, <1>2

\* A sample leaves the size alone, or removes one item and counts the delete.
LEMMA SampleSize ==
    ASSUME NEW t \in TableRecord, NEW k \in Keys,
           t.data[k] # None, t.sampler[k] # None, t.remover[k] # None
    PROVE  LET r == SampleItem(t, k)
               l == CommitSample(t.limiter)
           IN \/ Size(r) = Size(t) /\ r.limiter = l
              \/ Size(r) = Size(t) - 1 /\ r.limiter = LimiterDelete(l)
  <1> DEFINE r == SampleItem(t, k)
             n == t.data[k].times_sampled + 1
             x == [priority |-> t.data[k].priority, times_sampled |-> n]
  <1>1. /\ r \in TableRecord
        /\ \/ /\ r.data = [t.data EXCEPT ![k] = x]
              /\ r.limiter = CommitSample(t.limiter)
           \/ /\ r.data = [t.data EXCEPT ![k] = None]
              /\ r.limiter = LimiterDelete(CommitSample(t.limiter))
    BY SampleItemFacts
  <1>2. t.data[k] \in Item
    BY DEF TableRecord
  <1>3. x \in Item
    BY <1>2 DEF Item
  <1> HIDE DEF r, n, x
  <1>4. CASE r.data = [t.data EXCEPT ![k] = x]
             /\ r.limiter = CommitSample(t.limiter)
    <2>1. Size(r) = Size(t)
      BY <1>1, <1>3, <1>4, SizeOfReplace
    <2> QED
      BY <1>4, <2>1 DEF r
  <1>5. CASE r.data = [t.data EXCEPT ![k] = None]
             /\ r.limiter = LimiterDelete(CommitSample(t.limiter))
    <2>1. Size(r) = Size(t) - 1
      BY <1>1, <1>5, SizeOfDelete
    <2> QED
      BY <1>5, <2>1 DEF r
  <1> QED
    BY <1>1, <1>4, <1>5

\* A table without items has size 0, one with items a larger one.
LEMMA SizeZero ==
    ASSUME NEW t \in TableRecord
    PROVE  Size(t) = 0 <=> \A k \in Keys : t.data[k] = None
  <1>1. IsFiniteSet(Present(t))
    BY SizeType
  <1>2. Size(t) = 0 <=> Present(t) = {}
    BY <1>1, FS_EmptySet DEF Size
  <1> QED
    BY <1>2 DEF Present

\* data_, sampler_ and remover_ agree on key k: they all hold it or none does,
\* with the same priority unless a selector has refused the last one.
AgreeOn(t, k) ==
    /\ (t.data[k] = None) <=> (t.sampler[k] = None)
    /\ (t.data[k] = None) <=> (t.remover[k] = None)
    /\ t.data[k] # None =>
          \/ t.data[k].priority \in SamplerRejects \cup RemoverRejects
          \/ /\ t.sampler[k] = t.data[k].priority
             /\ t.remover[k] = t.data[k].priority

SelectorsAgree(t) == \A k \in Keys : AgreeOn(t, k)

SameExceptAt(r, t, k) ==
    \A j \in Keys \ {k} : /\ r.data[j] = t.data[j]
                          /\ r.sampler[j] = t.sampler[j]
                          /\ r.remover[j] = t.remover[j]

\* Agreement is kept by a change of one key, if they agree on that key.
LEMMA AgreementOfChange ==
    ASSUME NEW t, NEW r, NEW k \in Keys,
           SelectorsAgree(t), SameExceptAt(r, t, k), AgreeOn(r, k)
    PROVE  SelectorsAgree(r)
  BY DEF SelectorsAgree, SameExceptAt, AgreeOn

\* The structures of a table are functions on the keys.
LEMMA TableDomains ==
    ASSUME NEW t \in TableRecord
    PROVE  /\ t.data \in [Keys -> Item \cup {None}]
           /\ t.sampler \in [Keys -> Priorities \cup {None}]
           /\ t.remover \in [Keys -> Priorities \cup {None}]
  BY DEF TableRecord, Selector

\* DeleteItem takes an item out of all three structures.
LEMMA DeleteKeepsAgreement ==
    ASSUME NEW t \in TableRecord, NEW k \in Keys, SelectorsAgree(t)
    PROVE  SelectorsAgree(DeleteItem(t, k))
  <1>1. CASE t.data[k] = None
    BY <1>1, DeleteItemMissing
  <1>2. CASE t.data[k] # None
    <2> DEFINE r == DeleteItem(t, k)
    <2>1. t.sampler[k] # None /\ t.remover[k] # None
      BY <1>2 DEF SelectorsAgree, AgreeOn
    <2>2. /\ r.data = [t.data EXCEPT ![k] = None]
          /\ r.sampler = [t.sampler EXCEPT ![k] = None]
          /\ r.remover = [t.remover EXCEPT ![k] = None]
      BY <1>2, <2>1, DeleteItemFacts
    <2> HIDE DEF r
    <2>3. SameExceptAt(r, t, k)
      BY <2>2, TableDomains DEF SameExceptAt
    <2>4. AgreeOn(r, k)
      BY <2>2, TableDomains DEF AgreeOn
    <2>5. SelectorsAgree(r)
      BY <2>3, <2>4, AgreementOfChange
    <2> QED
      BY <2>5 DEF r
  <1> QED
    BY <1>1, <1>2

\* An insert that the selectors accept enters an item into all three.
LEMMA InsertKeepsAgreement ==
    ASSUME NEW t \in TableRecord, NEW k \in Keys, NEW p \in Priorities,
           SelectorsAgree(t), InsertOk(t, k, p)
    PROVE  SelectorsAgree(InsertItem(t, k, p))
  <1> DEFINE i == [priority |-> p, times_sampled |-> 0]
             r == InsertItem(t, k, p)
  <1>1. i # None /\ p # None /\ i.priority = p
    BY NoneIsNoItem, TableAssumption DEF Item
  <1>2. /\ r.data = [t.data EXCEPT ![k] = i]
        /\ r.sampler = [t.sampler EXCEPT ![k] = p]
        /\ r.remover = [t.remover EXCEPT ![k] = p]
    BY InsertItemFacts
  <1> HIDE DEF i, r
  <1>3. SameExceptAt(r, t, k)
    BY <1>2, TableDomains DEF SameExceptAt
  <1>4. AgreeOn(r, k)
    BY <1>1, <1>2, TableDomains DEF AgreeOn
  <1>5. SelectorsAgree(r)
    BY <1>3, <1>4, AgreementOfChange
  <1> QED
    BY <1>5 DEF r

\* An update keeps the keys; a refused priority is the exception that
\* SelectorsAgree makes.
LEMMA UpdateKeepsAgreement ==
    ASSUME NEW t \in TableRecord, NEW k \in Keys, NEW p \in Priorities,
           SelectorsAgree(t)
    PROVE  SelectorsAgree(UpdateItem(t, k, p))
  <1>1. CASE t.data[k] = None
    BY <1>1 DEF UpdateItem
  <1>2. CASE t.data[k] # None
    <2> DEFINE i == [priority |-> p, times_sampled |-> t.data[k].times_sampled]
               r == UpdateItem(t, k, p)
    <2>1. t.sampler[k] # None /\ t.remover[k] # None
      BY <1>2 DEF SelectorsAgree, AgreeOn
    <2>2. t.data[k].times_sampled \in Nat
      BY <1>2 DEF TableRecord, Item
    <2>3. i # None /\ p # None /\ i.priority = p
      BY <2>2, NoneIsNoItem, TableAssumption DEF Item
    <2>4. /\ r.data = [t.data EXCEPT ![k] = i]
          /\ r.sampler = t.sampler \/ r.sampler = [t.sampler EXCEPT ![k] = p]
          /\ r.remover = t.remover \/ r.remover = [t.remover EXCEPT ![k] = p]
          /\ UpdateOk(t, k, p) => /\ r.sampler = [t.sampler EXCEPT ![k] = p]
                                  /\ r.remover = [t.remover EXCEPT ![k] = p]
      BY <1>2, UpdateItemFacts
    <2>5. UpdateOk(t, k, p) \/ p \in SamplerRejects \cup RemoverRejects
      BY <1>2, <2>1 DEF UpdateOk
    <2> HIDE DEF i, r
    <2>6. SameExceptAt(r, t, k)
      BY <2>4, TableDomains DEF SameExceptAt
    <2>7. r.data[k] = i /\ r.sampler[k] # None /\ r.remover[k] # None
      BY <2>1, <2>3, <2>4, TableDomains
    <2>8. UpdateOk(t, k, p) => r.sampler[k] = p /\ r.remover[k] = p
      BY <2>4, TableDomains
    <2>9. AgreeOn(r, k)
      BY <2>3, <2>5, <2>7, <2>8 DEF AgreeOn
    <2>10. SelectorsAgree(r)
      BY <2>6, <2>9, AgreementOfChange
    <2> QED
      BY <2>10 DEF r
  <1> QED
    BY <1>1, <1>2

\* A sample keeps the priority of its item or removes the item altogether.
LEMMA SampleKeepsAgreement ==
    ASSUME NEW t \in TableRecord, NEW k \in Keys,
           SelectorsAgree(t), t.data[k] # None
    PROVE  SelectorsAgree(SampleItem(t, k))
  <1> DEFINE r == SampleItem(t, k)
             i == [priority |-> t.data[k].priority,
                   times_sampled |-> t.data[k].times_sampled + 1]
  <1>1. t.sampler[k] # None /\ t.remover[k] # None
    BY DEF SelectorsAgree, AgreeOn
  <1>2. \/ /\ r.data = [t.data EXCEPT ![k] = i]
           /\ r.sampler = t.sampler /\ r.remover = t.remover
        \/ /\ r.data = [t.data EXCEPT ![k] = None]
           /\ r.sampler = [t.sampler EXCEPT ![k] = None]
           /\ r.remover = [t.remover EXCEPT ![k] = None]
    BY <1>1, SampleItemFacts
  <1>3. t.data[k] \in Item
    BY DEF TableRecord
  <1>4. i # None /\ i.priority = t.data[k].priority
    BY <1>3, NoneIsNoItem DEF Item
  <1> HIDE DEF r, i
  <1>5. SameExceptAt(r, t, k)
    BY <1>2, TableDomains DEF SameExceptAt
  <1>6. \/ /\ r.data[k] = i
           /\ r.sampler[k] = t.sampler[k] /\ r.remover[k] = t.remover[k]
        \/ r.data[k] = None /\ r.sampler[k] = None /\ r.remover[k] = None
    BY <1>2, TableDomains
  <1>7. AgreeOn(t, k)
    BY DEF SelectorsAgree
  <1>8. AgreeOn(r, k)
    BY <1>1, <1>4, <1>6, <1>7 DEF AgreeOn
  <1>9. SelectorsAgree(r)
    BY <1>5, <1>8, AgreementOfChange
  <1> QED
    BY <1>9 DEF r

\* An empty table agrees with itself.
LEMMA ClearAgrees ==
    ASSUME NEW t \in TableRecord
    PROVE  SelectorsAgree(ClearTable(t)) /\ Size(ClearTable(t)) = 0
  BY ClearTableFacts, SizeZero DEF SelectorsAgree, AgreeOn

-----------------------------------------------------------------------------
(* Part 2. Table. *)

-----------------------------------------------------------------------------
(* Sequences. *)

\* A non-empty set of natural numbers has a least element.
LEMMA LeastElement ==
    ASSUME NEW S \in SUBSET Nat, S # {}
    PROVE  \E n \in S : \A m \in S : n <= m
  <1>1. PICK x \in S : \A y \in S : <<y, x>> \notin OpToRel(<, Nat)
    BY WFMin, NatLessThanWellFounded
  <1>2. \A y \in S : ~(y < x)
    BY <1>1 DEF OpToRel
  <1> QED
    BY <1>2

\* What SkipTerminated leaves begins with a request that is not a nullptr.
LEMMA SkipTerminatedFacts ==
    ASSUME NEW q \in Seq(SampleRequests \cup {None})
    PROVE  /\ SkipTerminated(q) \in Seq(SampleRequests \cup {None})
           /\ SkipTerminated(q) # << >> =>
                 Head(SkipTerminated(q)) \in SampleRequests
  <1> DEFINE live == {n \in DOMAIN q : q[n] # None}
             first == CHOOSE n \in live : \A m \in live : n <= m
  <1>1. CASE live = {}
    BY <1>1, EmptySeq DEF SkipTerminated
  <1>2. CASE live # {}
    <2>1. DOMAIN q = 1 .. Len(q) /\ Len(q) \in Nat
      BY LenProperties
    <2>2. live \in SUBSET Nat
      BY <2>1
    <2>3. \E n \in live : \A m \in live : n <= m
      BY <1>2, <2>2, LeastElement
    <2>4. first \in live
      BY <2>3
    <2>5. first \in 1 .. Len(q) /\ q[first] # None
      BY <2>1, <2>4
    <2>6. SkipTerminated(q) = SubSeq(q, first, Len(q))
      BY <1>2 DEF SkipTerminated
    <2> HIDE DEF first
    <2>7. \A i \in first .. Len(q) : q[i] \in SampleRequests \cup {None}
      BY <2>1, <2>5, ElementOfSeq
    <2>8. SubSeq(q, first, Len(q)) \in Seq(SampleRequests \cup {None})
      BY <2>1, <2>5, <2>7, SubSeqProperties
    <2>9. Head(SubSeq(q, first, Len(q))) = q[first]
      BY <2>1, <2>5, HeadTailOfSubSeq
    <2>10. q[first] \in SampleRequests
      BY <2>5, ElementOfSeq
    <2> QED
      BY <2>6, <2>8, <2>9, <2>10
  <1> QED
    BY <1>1, <1>2

\* Removing expired requests from a list leaves a list.
LEMMA WithoutExpiredType ==
    ASSUME NEW q \in Seq(SampleRequests \cup {None})
    PROVE  WithoutExpired(q) \in Seq(SampleRequests \cup {None})
  <1>1. q \in [1 .. Len(q) -> SampleRequests \cup {None}] /\ Len(q) \in Nat
        /\ DOMAIN q = 1 .. Len(q)
    BY LenProperties
  <1>2. WithoutExpired(q) \in [1 .. Len(q) -> SampleRequests \cup {None}]
    BY <1>1 DEF WithoutExpired
  <1> QED
    BY <1>1, <1>2, SeqDef

\* The number of releases in a batch is a number.
LEMMA ReleasesType ==
    ASSUME NEW q \in Seq(ExtensionRequest)
    PROVE  Releases(q) \in Nat
  <1> DEFINE S == {n \in DOMAIN q : q[n].type \in {"delete", "release"}}
  <1>1. DOMAIN q = 1 .. Len(q) /\ Len(q) \in Nat
    BY LenProperties
  <1>2. IsFiniteSet(1 .. Len(q))
    BY <1>1, FS_Interval
  <1>3. S \in SUBSET (1 .. Len(q))
    BY <1>1
  <1>4. IsFiniteSet(S)
    BY <1>2, <1>3, FS_Subset
  <1> QED
    BY <1>4, FS_CardinalityType DEF Releases

-----------------------------------------------------------------------------
(* Types. *)

\* The request that the worker is in the middle of is still in its hands.
WorkerHolds ==
    /\ worker.pc \in {"evicted", "updated", "registered"} =>
          worker.inserts # << >>
    /\ worker.pc = "sampled" =>
          worker.sampling # << >> /\ Head(worker.sampling) \in SampleRequests

TypeInv == TypeOK /\ WorkerHolds /\ SelectorsMatchData

\* The selectors agree with data_ if the table has not changed.
LEMMA AgreementUnchanged ==
    ASSUME SelectorsMatchData, UNCHANGED table,
           worker.pc = "failed" => worker'.pc = "failed"
    PROVE  SelectorsMatchData'
  BY DEF SelectorsMatchData, Sound

LEMMA AgreementMeaning ==
    SelectorsMatchData <=> (Sound => SelectorsAgree(table))
  BY DEF SelectorsMatchData, SelectorsAgree, AgreeOn

LEMMA AgreementMeaningPrime ==
    SelectorsMatchData' <=> (Sound' => SelectorsAgree(table'))
  BY DEF SelectorsMatchData, SelectorsAgree, AgreeOn

LEMMA InitType == Init => TypeInv
  <1> SUFFICES ASSUME Init PROVE TypeInv
    OBVIOUS
  <1> USE DEF Init
  <1>1. table \in TableRecord
    BY EmptyTableType
  <1>2. worker \in WorkerRecord /\ queue \in QueueRecord
    BY EmptySeq DEF WorkerRecord, QueueRecord
  <1>3. inserts \in [InsertRequests -> InsertRecord]
    OBVIOUS
  <1>4. samples \in [SampleRequests -> SampleRecord]
    BY DEF SampleRecord
  <1>5. extension \in ExtensionRecord /\ memory \in MemoryRecord
    BY EmptySeq DEF ExtensionRecord, MemoryRecord
  <1>6. client \in [Clients -> ClientRecord]
    BY EmptySeq DEF ClientRecord
  <1>7. WorkerHolds
    BY DEF WorkerHolds
  <1>8. SelectorsAgree(table)
    BY DEF EmptyTable, SelectorsAgree, AgreeOn
  <1>9. SelectorsMatchData
    BY <1>8, AgreementMeaning
  <1>10. mu \in Threads \cup {"free"} /\ buffer_waiters \subseteq Threads
    BY DEF Threads
  <1> QED
    BY <1>1, <1>2, <1>3, <1>4, <1>5, <1>6, <1>7, <1>9, <1>10
       DEF TypeInv, TypeOK

\* A signal may wake the worker, nothing else.
LEMMA SignalWorkerType ==
    ASSUME TypeInv, SignalWorker
    PROVE  /\ worker' \in WorkerRecord
           /\ WorkerHolds'
           /\ worker.pc = "failed" => worker'.pc = "failed"
  BY DEF TypeInv, TypeOK, WorkerHolds, SignalWorker, WorkerRecord

\* Releasing an item keeps the numbers of items natural.
LEMMA ReleaseOneType ==
    ASSUME memory \in MemoryRecord, ReleaseOne
    PROVE  memory' \in MemoryRecord
  <1>1. CASE memory.shared = 0
    BY <1>1 DEF ReleaseOne
  <1>2. CASE memory.shared # 0
    <2>1. memory.shared - 1 \in Nat /\ memory.freed + 1 \in Nat
      BY <1>2 DEF MemoryRecord
    <2>2. memory' = [memory EXCEPT !.shared = memory.shared - 1,
                                   !.freed = memory.freed + 1]
      BY <1>2 DEF ReleaseOne
    <2> QED
      BY <2>1, <2>2 DEF MemoryRecord
  <1> QED
    BY <1>1, <1>2

\* The steps of clients that enqueue requests.
LEMMA EnqueueType ==
    ASSUME TypeInv,
           \/ \E i \in InsertRequests :
                 InsertOrAssignAsync(i) \/ InsertOrAssignTimesOut(i)
           \/ \E s \in SampleRequests : EnqueSampleRequest(s) \/ DeadlinePasses(s)
    PROVE  TypeInv'
  <1> USE DEF TypeInv
  <1>1. ASSUME NEW i \in InsertRequests, InsertOrAssignAsync(i)
        PROVE  TypeInv'
    <2>1. table' = table /\ mu' = mu /\ buffer_waiters' = buffer_waiters
          /\ samples' = samples /\ extension' = extension /\ client' = client
      BY <1>1 DEF InsertOrAssignAsync
    <2>2. inserts' \in [InsertRequests -> InsertRecord]
      BY <1>1 DEF InsertOrAssignAsync, TypeOK, InsertRecord
    <2>3. queue' \in QueueRecord
      <3>1. queue.inserts \in Seq(InsertRequests)
        BY DEF TypeOK, QueueRecord
      <3>2. Append(queue.inserts, i) \in Seq(InsertRequests)
        BY <3>1, AppendProperties
      <3> QED
        BY <1>1, <3>2 DEF InsertOrAssignAsync, TypeOK, QueueRecord
    <2>4. memory' \in MemoryRecord
      BY <1>1, ReleaseOneType DEF InsertOrAssignAsync, TypeOK
    <2>5. /\ worker' \in WorkerRecord /\ WorkerHolds'
          /\ worker.pc = "failed" => worker'.pc = "failed"
      <3>1. SignalWorker \/ UNCHANGED worker
        BY <1>1 DEF InsertOrAssignAsync
      <3> QED
        BY <3>1, SignalWorkerType DEF TypeOK, WorkerHolds
    <2> QED
      BY <2>1, <2>2, <2>3, <2>4, <2>5, AgreementUnchanged DEF TypeOK
  <1>2. ASSUME NEW i \in InsertRequests, InsertOrAssignTimesOut(i)
        PROVE  TypeInv'
    <2>1. inserts' \in [InsertRequests -> InsertRecord]
      BY <1>2 DEF InsertOrAssignTimesOut, TypeOK, InsertRecord
    <2> QED
      BY <1>2, <2>1, AgreementUnchanged
         DEF InsertOrAssignTimesOut, TypeOK, WorkerHolds
  <1>3. ASSUME NEW s \in SampleRequests, EnqueSampleRequest(s)
        PROVE  TypeInv'
    <2>1. table' = table /\ mu' = mu /\ buffer_waiters' = buffer_waiters
          /\ inserts' = inserts /\ extension' = extension /\ client' = client
      BY <1>3 DEF EnqueSampleRequest
    <2>2. samples' \in [SampleRequests -> SampleRecord]
      <3>1. \/ samples' = [samples EXCEPT ![s].state = "cancelled"]
            \/ samples' = [samples EXCEPT ![s].state = "enqueued"]
        BY <1>3 DEF EnqueSampleRequest
      <3> QED
        BY <3>1 DEF TypeOK, SampleRecord
    <2>3. queue' \in QueueRecord
      <3>1. queue.sampling \in Seq(SampleRequests \cup {None})
        BY DEF TypeOK, QueueRecord
      <3>2. Append(queue.sampling, s) \in Seq(SampleRequests \cup {None})
        BY <3>1, AppendProperties
      <3> QED
        BY <1>3, <3>2 DEF EnqueSampleRequest, TypeOK, QueueRecord
    <2>4. memory' \in MemoryRecord
      BY <1>3, ReleaseOneType DEF EnqueSampleRequest, TypeOK
    <2>5. /\ worker' \in WorkerRecord /\ WorkerHolds'
          /\ worker.pc = "failed" => worker'.pc = "failed"
      <3>1. SignalWorker \/ UNCHANGED worker
        BY <1>3 DEF EnqueSampleRequest
      <3> QED
        BY <3>1, SignalWorkerType DEF TypeOK, WorkerHolds
    <2> QED
      BY <2>1, <2>2, <2>3, <2>4, <2>5, AgreementUnchanged DEF TypeOK
  <1>4. ASSUME NEW s \in SampleRequests, DeadlinePasses(s)
        PROVE  TypeInv'
    <2>1. samples' \in [SampleRequests -> SampleRecord]
      BY <1>4, ZenonT(40) DEF DeadlinePasses, TypeOK, SampleRecord
    <2> QED
      BY <1>4, <2>1, AgreementUnchanged DEF DeadlinePasses, TypeOK, WorkerHolds
  <1> QED
    BY <1>1, <1>2, <1>3, <1>4

\* Steps that change nothing but the worker (and the lock).
LEMMA WorkerLocalType ==
    ASSUME TypeInv,
           \/ WorkerSkipInsert \/ WorkerEndLoop \/ WorkerStops
           \/ WorkerWakesOnDeadline
    PROVE  TypeInv'
  <1> USE DEF TypeInv
  <1>1. /\ UNCHANGED <<table, buffer_waiters, queue, inserts, samples,
                       extension, memory, client>>
        /\ mu' \in {mu, "worker", "free"}
    BY DEF WorkerSkipInsert, WorkerEndLoop, WorkerStops, WorkerWakesOnDeadline
  <1>2. SkipTerminated(worker.sampling) \in Seq(SampleRequests \cup {None})
    BY SkipTerminatedFacts DEF TypeOK, WorkerRecord
  <1>3. /\ worker' \in WorkerRecord
        /\ worker'.pc \in {"sample", "insert", "serve", "drain"}
        /\ worker.pc # "failed"
    <2>1. CASE WorkerSkipInsert
      BY <2>1 DEF WorkerSkipInsert, TypeOK, WorkerRecord
    <2>2. CASE WorkerEndLoop
      BY <1>2, <2>2 DEF WorkerEndLoop, TypeOK, WorkerRecord
    <2>3. CASE WorkerStops
      BY <2>3 DEF WorkerStops, TypeOK, WorkerRecord
    <2>4. CASE WorkerWakesOnDeadline
      BY <2>4 DEF WorkerWakesOnDeadline, TypeOK, WorkerRecord
    <2> QED
      BY <2>1, <2>2, <2>3, <2>4
  <1>4. TypeOK'
    BY <1>1, <1>3 DEF TypeOK, Threads
  <1>5. WorkerHolds'
    BY <1>3 DEF WorkerHolds
  <1> QED
    BY <1>1, <1>3, <1>4, <1>5, AgreementUnchanged

\* WaitForBackgroundWork and the signal to the extension worker keep types.
LEMMA AwaitType ==
    ASSUME TypeInv, NEW p \in Threads, Await(p)
    PROVE  mu' \in Threads \cup {"free"} /\ buffer_waiters' \subseteq Threads
  BY DEF TypeInv, TypeOK, Await

LEMMA SignalExtensionType ==
    ASSUME TypeInv, SignalExtension
    PROVE  extension' \in ExtensionRecord
  BY DEF TypeInv, TypeOK, SignalExtension, ExtensionRecord

LEMMA WaitAgainType ==
    ASSUME TypeInv, NEW p \in Threads, WaitAgain(p)
    PROVE  TypeInv'
  <1>1. UNCHANGED <<table, worker, queue, inserts, samples, extension, memory,
                    client>>
        /\ mu' = "free" /\ buffer_waiters' = buffer_waiters \cup {p}
    BY DEF WaitAgain
  <1>2. TypeOK'
    BY <1>1 DEF TypeInv, TypeOK
  <1> QED
    BY <1>1, <1>2, AgreementUnchanged DEF TypeInv, WorkerHolds

\* InsertOrAssignInternal for a new key.
LEMMA WorkerInsertType ==
    ASSUME TypeInv, WorkerInsert
    PROVE  TypeInv'
  <1> DEFINE i == inserts[Head(worker.inserts)]
             t == InsertItem(table, i.key, i.priority)
  <1>1. /\ table \in TableRecord /\ worker \in WorkerRecord
        /\ Head(worker.inserts) \in InsertRequests
        /\ i.key \in Keys /\ i.priority \in Priorities
    <2>1. worker.inserts \in Seq(InsertRequests) /\ worker.inserts # << >>
      BY DEF WorkerInsert, TypeInv, TypeOK, WorkerRecord
    <2>2. Head(worker.inserts) \in InsertRequests
      BY <2>1, HeadTailProperties
    <2> QED
      BY <2>2 DEF TypeInv, TypeOK, InsertRecord
  <1>2. UNCHANGED <<queue, inserts, samples, memory, client>>
        /\ SignalExtension /\ worker.pc = "insert" /\ worker.inserts # << >>
    BY DEF WorkerInsert
  <1>3. SelectorsAgree(table)
    BY <1>2, AgreementMeaning DEF TypeInv, Sound
  <1>4. t \in TableRecord
    BY <1>1, InsertItemFacts
  <1>5. \/ /\ table' = t
           /\ worker' = [worker EXCEPT !.pc = "failed"]
           /\ mu' = "free" /\ buffer_waiters' = buffer_waiters
        \/ /\ InsertOk(table, i.key, i.priority)
           /\ table' = RegisterInsert(t)
           /\ worker' = [worker EXCEPT !.pc = "registered"]
           /\ Await("worker")
        \/ /\ InsertOk(table, i.key, i.priority)
           /\ \E k \in Known(t.remover) : table' = DeleteItem(t, k)
           /\ worker' = [worker EXCEPT !.pc = "evicted"]
           /\ Await("worker")
    BY DEF WorkerInsert
  <1> HIDE DEF i, t
  <1>6. InsertOk(table, i.key, i.priority) => SelectorsAgree(t)
    BY <1>1, <1>3, InsertKeepsAgreement DEF t
  <1>7. "worker" \in Threads
    BY DEF Threads
  <1>8. mu' \in Threads \cup {"free"} /\ buffer_waiters' \subseteq Threads
    BY <1>5, <1>7, AwaitType DEF TypeInv, TypeOK
  <1>9. /\ worker' \in WorkerRecord
        /\ worker'.inserts # << >>
        /\ worker'.pc \in {"failed", "registered", "evicted"}
    BY <1>1, <1>2, <1>5 DEF WorkerRecord
  <1>10. /\ table' \in TableRecord
         /\ worker'.pc = "failed" \/ SelectorsAgree(table')
    <2>1. CASE /\ table' = t
               /\ worker' = [worker EXCEPT !.pc = "failed"]
      BY <1>1, <1>4, <2>1 DEF WorkerRecord
    <2>2. CASE /\ InsertOk(table, i.key, i.priority)
               /\ table' = RegisterInsert(t)
      BY <1>4, <1>6, <2>2, RegisterInsertFacts DEF SelectorsAgree, AgreeOn
    <2>3. CASE /\ InsertOk(table, i.key, i.priority)
               /\ \E k \in Known(t.remover) : table' = DeleteItem(t, k)
      BY <1>4, <1>6, <2>3, DeleteItemType, DeleteKeepsAgreement DEF Known
    <2> QED
      BY <1>5, <2>1, <2>2, <2>3
  <1>11. SelectorsMatchData'
    BY <1>10, AgreementMeaningPrime DEF Sound
  <1>12. WorkerHolds'
    BY <1>9 DEF WorkerHolds
  <1>13. TypeOK'
    BY <1>2, <1>8, <1>9, <1>10, SignalExtensionType DEF TypeInv, TypeOK
  <1> QED
    BY <1>11, <1>12, <1>13 DEF TypeInv

\* The item of the insert that the worker is at.
LEMMA HeadInsert ==
    ASSUME TypeInv, worker.inserts # << >>
    PROVE  /\ Head(worker.inserts) \in InsertRequests
           /\ Tail(worker.inserts) \in Seq(InsertRequests)
           /\ inserts[Head(worker.inserts)].key \in Keys
           /\ inserts[Head(worker.inserts)].priority \in Priorities
  <1>1. worker.inserts \in Seq(InsertRequests)
    BY DEF TypeInv, TypeOK, WorkerRecord
  <1>2. Head(worker.inserts) \in InsertRequests
        /\ Tail(worker.inserts) \in Seq(InsertRequests)
    BY <1>1, HeadTailProperties
  <1> QED
    BY <1>2 DEF TypeInv, TypeOK, InsertRecord

\* InsertOrAssignInternal for a known key.
LEMMA WorkerAssignType ==
    ASSUME TypeInv, WorkerAssign
    PROVE  TypeInv'
  <1> DEFINE k == inserts[Head(worker.inserts)].key
             p == inserts[Head(worker.inserts)].priority
  <1>1. UNCHANGED <<queue, inserts, samples, memory, client>>
        /\ SignalExtension /\ worker.pc = "insert" /\ worker.inserts # << >>
    BY DEF WorkerAssign
  <1>2. k \in Keys /\ p \in Priorities
    BY <1>1, HeadInsert
  <1>3. /\ table' = UpdateItem(table, k, p)
        /\ \/ /\ worker' = [worker EXCEPT !.pc = "failed"]
              /\ mu' = "free" /\ buffer_waiters' = buffer_waiters
           \/ /\ worker' = [worker EXCEPT !.pc = "updated"]
              /\ Await("worker")
    BY DEF WorkerAssign
  <1> HIDE DEF k, p
  <1>4. SelectorsAgree(table) /\ table \in TableRecord /\ worker \in WorkerRecord
    BY <1>1, AgreementMeaning DEF TypeInv, Sound, TypeOK
  <1>5. table' \in TableRecord /\ SelectorsAgree(table')
    BY <1>2, <1>3, <1>4, UpdateItemType, UpdateKeepsAgreement
  <1>6. "worker" \in Threads
    BY DEF Threads
  <1>7. mu' \in Threads \cup {"free"} /\ buffer_waiters' \subseteq Threads
    BY <1>3, <1>6, AwaitType DEF TypeInv, TypeOK
  <1>8. /\ worker' \in WorkerRecord
        /\ worker'.inserts # << >>
        /\ worker'.pc \in {"failed", "updated"}
    BY <1>1, <1>3, <1>4 DEF WorkerRecord
  <1>9. SelectorsMatchData'
    BY <1>5, AgreementMeaningPrime
  <1>10. WorkerHolds'
    BY <1>8 DEF WorkerHolds
  <1>11. TypeOK'
    BY <1>1, <1>5, <1>7, <1>8, SignalExtensionType DEF TypeInv, TypeOK
  <1> QED
    BY <1>9, <1>10, <1>11 DEF TypeInv

\* The steps after DeleteItem and UpdateItem of InsertOrAssignInternal.
LEMMA WorkerEvictedType ==
    ASSUME TypeInv, WorkerEvicted \/ WorkerUpdated
    PROVE  TypeInv'
  <1> DEFINE k == inserts[Head(worker.inserts)].key
  <1>1. /\ UNCHANGED <<queue, inserts, samples, memory, client>>
        /\ worker.pc \in {"evicted", "updated"}
        /\ worker' = [worker EXCEPT !.pc = "registered"]
    BY DEF WorkerEvicted, WorkerUpdated
  <1>2. worker.inserts # << >>
    BY <1>1 DEF TypeInv, WorkerHolds
  <1>3. k \in Keys
    BY <1>2, HeadInsert
  <1>4. \/ /\ table' = RegisterInsert(table) /\ mu' = "worker"
           /\ UNCHANGED <<buffer_waiters, extension>>
        \/ /\ table' = ExtensionOperation(table, "release", k)
           /\ Await("worker") /\ SignalExtension
    BY DEF WorkerEvicted, WorkerUpdated
  <1> HIDE DEF k
  <1>5. SelectorsAgree(table) /\ table \in TableRecord /\ worker \in WorkerRecord
    BY <1>1, AgreementMeaning DEF TypeInv, Sound, TypeOK
  <1>6. /\ table' \in TableRecord /\ table'.data = table.data
        /\ table'.sampler = table.sampler /\ table'.remover = table.remover
    <2>1. CASE table' = RegisterInsert(table)
      BY <1>5, <2>1, RegisterInsertFacts
    <2>2. CASE table' = ExtensionOperation(table, "release", k)
      BY <1>3, <1>5, <2>2, ExtensionOperationFacts
    <2> QED
      BY <1>4, <2>1, <2>2
  <1>7. SelectorsAgree(table')
    BY <1>5, <1>6 DEF SelectorsAgree, AgreeOn
  <1>8. "worker" \in Threads
    BY DEF Threads
  <1>9. mu' \in Threads \cup {"free"} /\ buffer_waiters' \subseteq Threads
    BY <1>4, <1>8, AwaitType DEF TypeInv, TypeOK
  <1>10. extension' \in ExtensionRecord
    BY <1>4, SignalExtensionType DEF TypeInv, TypeOK
  <1>11. /\ worker' \in WorkerRecord
         /\ worker'.inserts # << >> /\ worker'.pc = "registered"
    BY <1>1, <1>2, <1>5 DEF WorkerRecord
  <1>12. TypeOK'
    BY <1>1, <1>6, <1>9, <1>10, <1>11 DEF TypeInv, TypeOK
  <1> QED
    BY <1>7, <1>11, <1>12, AgreementMeaningPrime DEF TypeInv, WorkerHolds

\* The insert is done.
LEMMA WorkerRegisteredType ==
    ASSUME TypeInv, WorkerRegistered
    PROVE  TypeInv'
  <1>1. /\ UNCHANGED <<table, buffer_waiters, queue, samples, extension, memory,
                       client>>
        /\ worker.pc = "registered" /\ mu' = "worker"
        /\ worker' = [worker EXCEPT !.pc = "sample",
                                    !.inserts = Tail(worker.inserts),
                                    !.progressed = TRUE, !.looped = TRUE]
        /\ inserts' = [inserts EXCEPT
                          ![Head(worker.inserts)].state = "inserted"]
    BY DEF WorkerRegistered
  <1>2. Tail(worker.inserts) \in Seq(InsertRequests)
        /\ Head(worker.inserts) \in InsertRequests
    BY <1>1, HeadInsert DEF TypeInv, WorkerHolds
  <1>3. worker' \in WorkerRecord /\ worker'.pc = "sample"
    BY <1>1, <1>2 DEF TypeInv, TypeOK, WorkerRecord
  <1>4. inserts' \in [InsertRequests -> InsertRecord]
    BY <1>1, <1>2 DEF TypeInv, TypeOK, InsertRecord
  <1>5. "worker" \in Threads
    BY DEF Threads
  <1>6. TypeOK'
    BY <1>1, <1>3, <1>4, <1>5 DEF TypeInv, TypeOK
  <1> QED
    BY <1>1, <1>3, <1>6, AgreementUnchanged DEF TypeInv, WorkerHolds

\* MaybeCommitSample and SampleInternal.
LEMMA WorkerSampleType ==
    ASSUME TypeInv, WorkerSample
    PROVE  TypeInv'
  <1> DEFINE q == SkipTerminated(worker.sampling)
             s == Head(q)
  <1>1. /\ UNCHANGED <<queue, inserts, memory, client>>
        /\ SignalExtension /\ worker.pc = "sample" /\ q # << >>
    BY DEF WorkerSample
  <1>2. q \in Seq(SampleRequests \cup {None}) /\ s \in SampleRequests
    BY <1>1, SkipTerminatedFacts DEF TypeInv, TypeOK, WorkerRecord
  <1>3. \/ /\ worker' = [worker EXCEPT !.pc = "crashed"]
           /\ UNCHANGED <<table, mu, buffer_waiters, samples>>
        \/ /\ \E k \in Known(table.sampler) : table' = SampleItem(table, k)
           /\ samples' = [samples EXCEPT
                  ![s].got = @ + 1, ![s].flagged = @ \/ worker.rate_limited]
           /\ worker' = [worker EXCEPT !.pc = "sampled", !.sampling = q,
                                       !.progressed = TRUE, !.looped = TRUE]
           /\ Await("worker")
    BY DEF WorkerSample
  <1>4. SelectorsAgree(table) /\ table \in TableRecord /\ worker \in WorkerRecord
        /\ samples \in [SampleRequests -> SampleRecord]
    BY <1>1, AgreementMeaning DEF TypeInv, Sound, TypeOK
  <1>5. s = Head(q)
    OBVIOUS
  <1> HIDE DEF q, s
  <1>6. table' \in TableRecord /\ SelectorsAgree(table')
    <2>1. CASE UNCHANGED table
      BY <1>4, <2>1
    <2>2. ASSUME NEW k \in Known(table.sampler), table' = SampleItem(table, k)
          PROVE  table' \in TableRecord /\ SelectorsAgree(table')
      <3>1. /\ k \in Keys /\ table.data[k] # None
            /\ table.sampler[k] # None /\ table.remover[k] # None
        BY <1>4 DEF Known, SelectorsAgree, AgreeOn
      <3> QED
        BY <1>4, <2>2, <3>1, SampleItemFacts, SampleKeepsAgreement
    <2> QED
      BY <1>3, <2>1, <2>2
  <1>7. "worker" \in Threads
    BY DEF Threads
  <1>8. mu' \in Threads \cup {"free"} /\ buffer_waiters' \subseteq Threads
    BY <1>3, <1>7, AwaitType DEF TypeInv, TypeOK
  <1>9. /\ worker' \in WorkerRecord
        /\ \/ worker'.pc = "crashed"
           \/ worker'.pc = "sampled" /\ worker'.sampling = q
    BY <1>2, <1>3, <1>4 DEF WorkerRecord
  <1>10. samples' \in [SampleRequests -> SampleRecord]
    <2>1. samples[s].got + 1 \in Nat
          /\ (samples[s].flagged \/ worker.rate_limited) \in BOOLEAN
      BY <1>2, <1>4 DEF SampleRecord, WorkerRecord
    <2> DEFINE r == [samples[s] EXCEPT !.got = @ + 1,
                                       !.flagged = @ \/ worker.rate_limited]
    <2>2. r \in SampleRecord
      BY <1>2, <1>4, <2>1 DEF SampleRecord
    <2>3. UNCHANGED samples \/ samples' = [samples EXCEPT ![s] = r]
      BY <1>2, <1>3, <1>4
    <2> HIDE DEF r
    <2> QED
      BY <1>2, <1>4, <2>2, <2>3
  <1>11. TypeOK'
    BY <1>1, <1>6, <1>8, <1>9, <1>10, SignalExtensionType DEF TypeInv, TypeOK
  <1>12. WorkerHolds'
    BY <1>1, <1>2, <1>5, <1>9 DEF WorkerHolds
  <1> QED
    BY <1>6, <1>11, <1>12, AgreementMeaningPrime DEF TypeInv

\* FinalizeSampleRequest only sets the state of requests.
LEMMA FinalizeType ==
    ASSUME TypeInv, NEW S,
           NEW state \in {"new", "enqueued", "ok", "timeout", "cancelled"}
    PROVE  Finalize(S, state) \in [SampleRequests -> SampleRecord]
  BY DEF TypeInv, TypeOK, Finalize, SampleRecord

\* The sample is in the response.
LEMMA WorkerSampledType ==
    ASSUME TypeInv, WorkerSampled
    PROVE  TypeInv'
  <1> DEFINE s == Head(worker.sampling)
  <1>1. /\ UNCHANGED <<table, buffer_waiters, queue, inserts, extension, memory,
                       client>>
        /\ worker.pc = "sampled" /\ mu' = "worker"
        /\ \/ /\ samples' = Finalize({s}, "ok")
              /\ worker' = [worker EXCEPT !.pc = "insert",
                                          !.sampling = Tail(worker.sampling),
                                          !.looped = FALSE]
           \/ /\ worker' = [worker EXCEPT !.pc = "sample"]
              /\ UNCHANGED samples
    BY DEF WorkerSampled
  <1>2. Tail(worker.sampling) \in Seq(SampleRequests \cup {None})
    BY <1>1, HeadTailProperties DEF TypeInv, TypeOK, WorkerHolds, WorkerRecord
  <1>3. worker' \in WorkerRecord /\ worker'.pc \in {"insert", "sample"}
    BY <1>1, <1>2 DEF TypeInv, TypeOK, WorkerRecord
  <1>4. samples' \in [SampleRequests -> SampleRecord]
    BY <1>1, FinalizeType DEF TypeInv, TypeOK
  <1>5. "worker" \in Threads
    BY DEF Threads
  <1>6. TypeOK'
    BY <1>1, <1>3, <1>4, <1>5 DEF TypeInv, TypeOK
  <1> QED
    BY <1>1, <1>3, <1>6, AgreementUnchanged DEF TypeInv, WorkerHolds

\* The steps of the worker under worker_mu_ that move requests about.
LEMMA WorkerQueueType ==
    ASSUME TypeInv,
           WorkerContinues \/ WorkerExpires \/ WorkerDrains
    PROVE  TypeInv'
  <1> DEFINE SR == SampleRequests \cup {None}
  <1>1. /\ worker.inserts \in Seq(InsertRequests)
        /\ worker.sampling \in Seq(SR)
        /\ queue.inserts \in Seq(InsertRequests)
        /\ queue.sampling \in Seq(SR)
        /\ worker.rate_limited \in BOOLEAN
        /\ worker \in WorkerRecord /\ queue \in QueueRecord
    BY DEF TypeInv, TypeOK, WorkerRecord, QueueRecord
  <1>2. << >> \in Seq(InsertRequests) /\ << >> \in Seq(SR)
    BY EmptySeq
  <1>3. UNCHANGED <<table, mu, buffer_waiters, inserts, samples, extension,
                    memory, client>>
        /\ worker.pc \in {"serve", "drain"}
    BY DEF WorkerContinues, WorkerExpires, WorkerDrains, Idle
  <1>4. /\ worker' \in WorkerRecord
        /\ worker'.pc \in {"insert", "terminate", "cancel"}
        /\ queue' \in QueueRecord
    <2>1. CASE WorkerContinues
      <3> DEFINE i == IF TakeInserts THEN queue.inserts ELSE worker.inserts
                 s == IF TakeSampling THEN queue.sampling ELSE worker.sampling
                 i2 == IF TakeInserts THEN << >> ELSE queue.inserts
                 s2 == IF TakeSampling THEN << >> ELSE queue.sampling
                 r == RateLimitedOnTake
      <3>1. worker' = [worker EXCEPT !.pc = "insert", !.progressed = FALSE,
                         !.inserts = i, !.sampling = s, !.rate_limited = r]
            /\ queue' = [queue EXCEPT !.inserts = i2, !.sampling = s2]
        BY <2>1 DEF WorkerContinues
      <3>2. /\ i \in Seq(InsertRequests) /\ i2 \in Seq(InsertRequests)
            /\ s \in Seq(SR) /\ s2 \in Seq(SR) /\ r \in BOOLEAN
        BY <1>1, <1>2 DEF RateLimitedOnTake
      <3> HIDE DEF i, s, i2, s2, r
      <3> QED
        BY <1>1, <3>1, <3>2 DEF WorkerRecord, QueueRecord
    <2>2. CASE WorkerExpires
      <3>1. /\ WithoutExpired(worker.sampling) \in Seq(SR)
            /\ WithoutExpired(queue.sampling) \in Seq(SR)
            /\ Expired \in SUBSET SampleRequests
        BY <1>1, WithoutExpiredType DEF Expired
      <3>2. /\ worker' = [worker EXCEPT !.pc = "terminate", !.terminate = Expired,
                            !.sampling = WithoutExpired(worker.sampling)]
            /\ queue' = [queue EXCEPT
                            !.sampling = WithoutExpired(queue.sampling)]
        BY <2>2 DEF WorkerExpires
      <3> QED
        BY <1>1, <3>1, <3>2 DEF WorkerRecord, QueueRecord
    <2>3. CASE WorkerDrains
      <3>1. /\ worker.inserts \o queue.inserts \in Seq(InsertRequests)
            /\ worker.sampling \o queue.sampling \in Seq(SR)
        BY <1>1, ConcatProperties
      <3> QED
        BY <1>1, <1>2, <2>3, <3>1 DEF WorkerDrains, WorkerRecord, QueueRecord
    <2> QED
      BY <2>1, <2>2, <2>3
  <1>5. TypeOK'
    BY <1>3, <1>4 DEF TypeInv, TypeOK
  <1> QED
    BY <1>3, <1>4, <1>5, AgreementUnchanged DEF TypeInv, WorkerHolds

\* The steps of the worker that answer requests outside the inner loop.
LEMMA WorkerAnswersType ==
    ASSUME TypeInv,
           WorkerSleeps \/ WorkerTerminates \/ WorkerCancels
    PROVE  TypeInv'
  <1> DEFINE SR == SampleRequests \cup {None}
  <1>1. /\ worker.sampling \in Seq(SR) /\ worker \in WorkerRecord
        /\ << >> \in Seq(SR) /\ << >> \in Seq(InsertRequests)
        /\ samples \in [SampleRequests -> SampleRecord]
        /\ inserts \in [InsertRequests -> InsertRecord]
    BY EmptySeq DEF TypeInv, TypeOK, WorkerRecord
  <1>2. UNCHANGED <<table, mu, buffer_waiters, queue, extension, memory, client>>
        /\ worker.pc \in {"serve", "terminate", "cancel"}
    BY DEF WorkerSleeps, WorkerTerminates, WorkerCancels, Idle
  <1>3. /\ worker' \in WorkerRecord
        /\ worker'.pc \in {"asleep", "insert", "exited"}
        /\ samples' \in [SampleRequests -> SampleRecord]
        /\ inserts' \in [InsertRequests -> InsertRecord]
    <2>1. CASE WorkerSleeps
      <3> DEFINE rest == IF HasPartialBatch THEN Tail(worker.sampling)
                         ELSE worker.sampling
                 state(s) == IF HasPartialBatch /\ s = Head(worker.sampling)
                             THEN "ok" ELSE samples[s].state
                 slept(s) == samples[s].slept \/ s \in Elements(rest)
      <3>1. rest \in Seq(SR)
        BY <1>1, HeadTailProperties DEF HasPartialBatch
      <3>2. /\ samples' = [s \in SampleRequests |->
                  [samples[s] EXCEPT !.state = state(s), !.slept = slept(s)]]
            /\ worker' = [worker EXCEPT !.pc = "asleep", !.sampling = rest,
                                        !.rate_limited = rest # << >>]
            /\ inserts' = inserts
        BY <2>1 DEF WorkerSleeps
      <3>3. \A s \in SampleRequests :
                /\ state(s) \in {"new", "enqueued", "ok", "timeout", "cancelled"}
                /\ slept(s) \in BOOLEAN
        BY <1>1 DEF SampleRecord
      <3>4. (rest # << >>) \in BOOLEAN
        OBVIOUS
      <3> HIDE DEF rest, state, slept
      <3>5. samples' \in [SampleRequests -> SampleRecord]
        BY <1>1, <3>2, <3>3 DEF SampleRecord
      <3>6. worker' \in WorkerRecord /\ worker'.pc = "asleep"
        BY <1>1, <3>1, <3>2, <3>4 DEF WorkerRecord
      <3> QED
        BY <1>1, <3>2, <3>5, <3>6
    <2>2. CASE WorkerTerminates
      <3>1. samples' \in [SampleRequests -> SampleRecord]
        BY <1>1, <2>2 DEF WorkerTerminates, SampleRecord
      <3>2. worker' \in WorkerRecord /\ worker'.pc = "insert"
        BY <1>1, <2>2 DEF WorkerTerminates, WorkerRecord
      <3> QED
        BY <1>1, <2>2, <3>1, <3>2 DEF WorkerTerminates
    <2>3. CASE WorkerCancels
      <3>1. samples' \in [SampleRequests -> SampleRecord]
        BY <2>3, FinalizeType DEF WorkerCancels
      <3>2. worker' \in WorkerRecord /\ worker'.pc = "exited"
        BY <1>1, <2>3 DEF WorkerCancels, WorkerRecord
      <3>3. inserts' \in [InsertRequests -> InsertRecord]
        BY <1>1, <2>3 DEF WorkerCancels, InsertRecord
      <3> QED
        BY <3>1, <3>2, <3>3
    <2> QED
      BY <2>1, <2>2, <2>3
  <1>4. TypeOK'
    BY <1>2, <1>3 DEF TypeInv, TypeOK
  <1> QED
    BY <1>2, <1>3, <1>4, AgreementUnchanged DEF TypeInv, WorkerHolds

\* The extension worker.
LEMMA ExtensionType ==
    ASSUME TypeInv, ExtensionWorker
    PROVE  TypeInv'
  <1>1. /\ extension \in ExtensionRecord /\ memory \in MemoryRecord
        /\ table \in TableRecord /\ extension.batch \in Seq(ExtensionRequest)
        /\ table.extension_requests \in Seq(ExtensionRequest)
        /\ << >> \in Seq(ExtensionRequest)
    BY EmptySeq DEF TypeInv, TypeOK, ExtensionRecord, TableRecord
  <1>2. UNCHANGED <<mu, worker, queue, inserts, samples, client>>
    BY DEF ExtensionWorker, ExtensionStarts, ExtensionHandsOff, ExtensionSleeps,
           ExtensionFetches, ExtensionProcesses
  <1>3. /\ extension' \in ExtensionRecord /\ memory' \in MemoryRecord
        /\ table' \in TableRecord /\ buffer_waiters' \subseteq Threads
        /\ table'.data = table.data
        /\ table'.sampler = table.sampler /\ table'.remover = table.remover
    <2> USE <1>1
    <2>1. CASE ExtensionStarts
      BY <2>1 DEF ExtensionStarts, ExtensionRecord, TypeInv, TypeOK
    <2>2. CASE ExtensionHandsOff
      <3>1. memory' \in MemoryRecord
        BY <2>2 DEF ExtensionHandsOff, MemoryRecord
      <3> QED
        BY <2>2, <3>1 DEF ExtensionHandsOff, ExtensionRecord, TypeInv, TypeOK
    <2>3. CASE ExtensionSleeps
      BY <2>3 DEF ExtensionSleeps, ExtensionRecord, TypeInv, TypeOK
    <2>4. CASE ExtensionFetches
      <3>1. /\ table' \in TableRecord /\ table'.data = table.data
            /\ table'.sampler = table.sampler /\ table'.remover = table.remover
        BY <2>4 DEF ExtensionFetches, TableRecord
      <3>2. extension' \in ExtensionRecord
        BY <2>4 DEF ExtensionFetches, ExtensionRecord
      <3> QED
        BY <2>4, <3>1, <3>2 DEF ExtensionFetches, TypeInv, TypeOK
    <2>5. CASE ExtensionProcesses
      <3>1. Releases(extension.batch) \in Nat
        BY ReleasesType
      <3>2. memory' \in MemoryRecord
        BY <2>5, <3>1 DEF ExtensionProcesses, MemoryRecord
      <3>3. Apply(extension.view, extension.batch) \in SUBSET Keys
        BY DEF Apply
      <3>4. extension' \in ExtensionRecord
        BY <2>5, <3>3 DEF ExtensionProcesses, ExtensionRecord
      <3> QED
        BY <2>5, <3>2, <3>4 DEF ExtensionProcesses, TypeInv, TypeOK
    <2> QED
      BY <2>1, <2>2, <2>3, <2>4, <2>5 DEF ExtensionWorker
  <1>4. TypeOK'
    BY <1>2, <1>3 DEF TypeInv, TypeOK
  <1>5. SelectorsMatchData'
    BY <1>2, <1>3, AgreementMeaning, AgreementMeaningPrime
       DEF TypeInv, SelectorsAgree, AgreeOn, Sound
  <1> QED
    BY <1>2, <1>4, <1>5 DEF TypeInv, WorkerHolds

\* MutateItems.
LEMMA MutateItemType ==
    ASSUME TypeInv, NEW c \in Clients, MutateItem(c)
    PROVE  TypeInv'
  <1> DEFINE e == Head(client[c].edits)
  <1>1. /\ UNCHANGED <<worker, queue, inserts, samples, memory>>
        /\ SignalExtension /\ client[c].edits # << >>
    BY DEF MutateItem
  <1>2. /\ client \in [Clients -> ClientRecord]
        /\ client[c].edits \in Seq(Edit) /\ table \in TableRecord
    BY DEF TypeInv, TypeOK, ClientRecord
  <1>3. Tail(client[c].edits) \in Seq(Edit) /\ e \in Edit
    BY <1>1, <1>2, HeadTailProperties
  <1>4. e.key \in Keys /\ e.priority \in Priorities
    BY <1>3 DEF Edit
  <1>5. /\ \/ table' = DeleteItem(table, e.key)
           \/ table' = UpdateItem(table, e.key, e.priority)
        /\ \/ /\ client' = [client EXCEPT ![c].edits = Tail(client[c].edits)]
              /\ mu' = c /\ buffer_waiters' = buffer_waiters
           \/ /\ client' = [client EXCEPT ![c].pc = "mutate_wait",
                                          ![c].edits = Tail(client[c].edits)]
              /\ Await(c)
           \/ /\ client' = [client EXCEPT ![c].pc = "done"]
              /\ mu' = "free" /\ buffer_waiters' = buffer_waiters
    BY DEF MutateItem
  <1> HIDE DEF e
  <1>6. table' \in TableRecord
    BY <1>2, <1>4, <1>5, DeleteItemType, UpdateItemType
  <1>7. SelectorsMatchData'
    <2>1. SelectorsAgree(table) => SelectorsAgree(table')
      BY <1>2, <1>4, <1>5, DeleteKeepsAgreement, UpdateKeepsAgreement
    <2> QED
      BY <1>1, <2>1, AgreementMeaning, AgreementMeaningPrime DEF TypeInv, Sound
  <1>8. c \in Threads
    BY DEF Threads
  <1>9. mu' \in Threads \cup {"free"} /\ buffer_waiters' \subseteq Threads
    BY <1>5, <1>8, AwaitType DEF TypeInv, TypeOK
  <1>10. client' \in [Clients -> ClientRecord]
    BY <1>2, <1>3, <1>5 DEF ClientRecord
  <1>11. TypeOK'
    BY <1>1, <1>6, <1>9, <1>10, SignalExtensionType DEF TypeInv, TypeOK
  <1> QED
    BY <1>1, <1>7, <1>11 DEF TypeInv, WorkerHolds

\* Reset and ResetSignals.
LEMMA ResetType ==
    ASSUME TypeInv, NEW c \in Clients, Reset(c) \/ ResetSignals(c)
    PROVE  TypeInv'
  <1>1. /\ table \in TableRecord /\ memory \in MemoryRecord
        /\ extension \in ExtensionRecord /\ client \in [Clients -> ClientRecord]
        /\ Size(table) \in Nat
    BY SizeType DEF TypeInv, TypeOK
  <1>2. CASE Reset(c)
    <2>1. UNCHANGED <<mu, buffer_waiters, worker, queue, inserts, samples>>
      BY <1>2 DEF Reset
    <2>2. table' \in TableRecord /\ SelectorsAgree(table')
      BY <1>1, <1>2, ClearTableFacts, ClearAgrees DEF Reset
    <2>3. extension' \in ExtensionRecord
      BY <1>1, <1>2 DEF Reset, ExtensionRecord
    <2>4. memory' \in MemoryRecord
      BY <1>1, <1>2 DEF Reset, MemoryRecord
    <2>5. client' \in [Clients -> ClientRecord]
      BY <1>1, <1>2 DEF Reset, ClientRecord
    <2>6. TypeOK'
      BY <2>1, <2>2, <2>3, <2>4, <2>5 DEF TypeInv, TypeOK
    <2> QED
      BY <2>1, <2>2, <2>6, AgreementMeaningPrime DEF TypeInv, WorkerHolds
  <1>3. CASE ResetSignals(c)
    <2>1. UNCHANGED <<table, mu, buffer_waiters, queue, inserts, samples,
                      extension>> /\ SignalWorker
      BY <1>3 DEF ResetSignals
    <2>2. memory' \in MemoryRecord
      <3>1. memory.freed + memory.shared \in Nat
        BY <1>1 DEF MemoryRecord
      <3>2. memory' = [memory EXCEPT !.freed = memory.freed + memory.shared,
                                     !.shared = 0]
        BY <1>3 DEF ResetSignals
      <3> QED
        BY <1>1, <3>1, <3>2 DEF MemoryRecord
    <2>3. client' \in [Clients -> ClientRecord]
      BY <1>1, <1>3 DEF ResetSignals, ClientRecord
    <2>4. /\ worker' \in WorkerRecord /\ WorkerHolds'
          /\ worker.pc = "failed" => worker'.pc = "failed"
      BY <2>1, SignalWorkerType
    <2>5. TypeOK'
      BY <2>1, <2>2, <2>3, <2>4 DEF TypeInv, TypeOK
    <2> QED
      BY <2>1, <2>4, <2>5, AgreementUnchanged DEF TypeInv
  <1> QED
    BY <1>2, <1>3

\* The other steps of a client.
LEMMA ClientLocalType ==
    ASSUME TypeInv, NEW c \in Clients,
           \/ StartCall(c) \/ MutateResumes(c) \/ MutateUnlocks(c)
           \/ MutateSignals(c) \/ Close(c) \/ DestroyStopsExtension(c)
           \/ DestroyJoins(c)
    PROVE  TypeInv'
  <1>1. /\ client \in [Clients -> ClientRecord] /\ queue \in QueueRecord
        /\ extension \in ExtensionRecord /\ c \in Threads
    BY DEF TypeInv, TypeOK, Threads
  <1>2. /\ UNCHANGED <<table, inserts, samples, memory>>
        /\ mu' \in {mu, "free", c}
        /\ buffer_waiters' \in {buffer_waiters, {}}
    BY DEF StartCall, MutateResumes, MutateUnlocks, MutateSignals, Close,
           DestroyStopsExtension, DestroyJoins
  <1>3. SignalWorker \/ UNCHANGED worker
    BY DEF StartCall, MutateResumes, MutateUnlocks, MutateSignals, Close,
           DestroyStopsExtension, DestroyJoins
  <1>4. /\ worker' \in WorkerRecord /\ WorkerHolds'
        /\ worker.pc = "failed" => worker'.pc = "failed"
    BY <1>3, SignalWorkerType DEF TypeInv, TypeOK, WorkerHolds
  <1>5. /\ client' \in [Clients -> ClientRecord]
        /\ queue' \in QueueRecord /\ extension' \in ExtensionRecord
    <2>1. CASE StartCall(c)
      <3>1. PICK call \in Calls :
                client' = [client EXCEPT ![c].pc = call.op,
                                         ![c].edits = call.edits]
        BY <2>1 DEF StartCall
      <3>2. call.op \in {"mutate", "reset", "close", "destroy"}
            /\ call.edits \in Seq(Edit)
        BY ThreadAssumption DEF Call
      <3>3. client' \in [Clients -> ClientRecord]
        BY <1>1, <3>1, <3>2 DEF ClientRecord
      <3> QED
        BY <1>1, <2>1, <3>3 DEF StartCall
    <2>2. CASE MutateResumes(c)
      BY <1>1, <2>2 DEF MutateResumes, ClientRecord
    <2>3. CASE MutateUnlocks(c)
      BY <1>1, <2>3 DEF MutateUnlocks, ClientRecord
    <2>4. CASE MutateSignals(c)
      BY <1>1, <2>4 DEF MutateSignals, ClientRecord
    <2>5. CASE Close(c)
      <3>1. queue' \in QueueRecord
        BY <1>1, <2>5 DEF Close, QueueRecord
      <3>2. client' \in [Clients -> ClientRecord]
        BY <1>1, <2>5 DEF Close, ClientRecord
      <3> QED
        BY <1>1, <2>5, <3>1, <3>2 DEF Close
    <2>6. CASE DestroyStopsExtension(c)
      <3>1. extension' \in ExtensionRecord
        BY <1>1, <2>6 DEF DestroyStopsExtension, ExtensionRecord
      <3>2. client' \in [Clients -> ClientRecord]
        BY <1>1, <2>6 DEF DestroyStopsExtension, ClientRecord
      <3> QED
        BY <1>1, <2>6, <3>1, <3>2 DEF DestroyStopsExtension
    <2>7. CASE DestroyJoins(c)
      BY <1>1, <2>7 DEF DestroyJoins, ClientRecord
    <2> QED
      BY <2>1, <2>2, <2>3, <2>4, <2>5, <2>6, <2>7
  <1>6. TypeOK'
    BY <1>1, <1>2, <1>4, <1>5 DEF TypeInv, TypeOK
  <1> QED
    BY <1>2, <1>4, <1>6, AgreementUnchanged DEF TypeInv

\* Every step keeps the types and the agreement of the selectors.
LEMMA TypeStep == TypeInv /\ [Next]_vars => TypeInv'
  <1> SUFFICES ASSUME TypeInv, [Next]_vars
               PROVE  TypeInv'
    OBVIOUS
  <1>1. CASE TableWorker
    <2>1. "worker" \in Threads
      BY DEF Threads
    <2> QED
      BY <1>1, <2>1, WorkerLocalType, WorkerInsertType, WorkerAssignType,
         WorkerEvictedType, WorkerRegisteredType, WorkerSampleType,
         WorkerSampledType, WorkerQueueType, WorkerAnswersType, WaitAgainType
         DEF TableWorker
  <1>2. CASE ExtensionWorker
    BY <1>2, ExtensionType
  <1>3. CASE \/ \E i \in InsertRequests :
                   InsertOrAssignAsync(i) \/ InsertOrAssignTimesOut(i)
             \/ \E s \in SampleRequests :
                   EnqueSampleRequest(s) \/ DeadlinePasses(s)
    BY <1>3, EnqueueType
  <1>4. ASSUME NEW c \in Clients, StartCall(c) \/ ClientStep(c)
        PROVE  TypeInv'
    <2>1. c \in Threads
      BY DEF Threads
    <2> QED
      BY <1>4, <2>1, MutateItemType, ResetType, ClientLocalType, WaitAgainType
         DEF ClientStep
  <1>5. CASE UNCHANGED vars
    BY <1>5, AgreementUnchanged DEF vars, TypeInv, TypeOK, WorkerHolds
  <1> QED
    BY <1>1, <1>2, <1>3, <1>4, <1>5 DEF Next

\* The table and its threads are type correct in every reachable state, and
\* data_, sampler_ and remover_ hold the same keys with the same priorities,
\* whatever inserts, evictions, samples, deletes, updates and resets interleave.
THEOREM TypeCorrect == Spec => []TypeInv
  BY InitType, TypeStep, PTL DEF Spec

\* Every variable has its type, in every reachable state.
THEOREM TypeSafety == Spec => []TypeOK
  <1>1. TypeInv => TypeOK
    BY DEF TypeInv
  <1> QED
    BY <1>1, TypeCorrect, PTL

\* The selectors never disagree with data_ (SelectorsMatchData).
THEOREM SelectorsSafety == Spec => []SelectorsMatchData
  <1>1. TypeInv => SelectorsMatchData
    BY DEF TypeInv
  <1> QED
    BY <1>1, TypeCorrect, PTL

-----------------------------------------------------------------------------
(* The limiter and the size of the table. *)

\* No client calls Reset.
NoResets == \A call \in Calls : call.op # "reset"

\* Without Reset the limiter's idea of the size is exact, except that it is one
\* too low in the window between the eviction of an item and the registration
\* of the insert it made room for.
ExactDrift ==
    NoResets =>
        /\ \A c \in Clients : client[c].pc # "reset"
        /\ worker.pc = "evicted" => Drift = -1
        /\ worker.pc \notin {"evicted", "failed"} => Drift = 0

\* The right to insert that the worker acquired before an eviction still holds
\* when the eviction has waited for background work.
RightToInsertKept == worker.pc = "evicted" => CanInsert(table.limiter, 1)

LimiterInv ==
    /\ SizeWithinBound
    /\ LimiterDriftBounded
    /\ ExactDrift
    /\ CursorWithinDiffs
    /\ RightToInsertKept

\* The limiter's part of CursorWithinDiffs.
CursorOk(l) ==
    /\ l.inserts - l.deletes <= MinSizeToSample \/ Cursor(l) <= MaxDiff
    /\ l.samples = 0 \/ Cursor(l) >= MinDiff

\* Each operation of the limiter keeps its cursor between the two bounds, under
\* the condition the worker has tested, and keeps the right to insert.
LEMMA LimiterSteps ==
    ASSUME NEW l \in Limiter
    PROVE  /\ CanInsert(l, 1) /\ CursorOk(l) => CursorOk(LimiterInsert(l))
           /\ CanSample(l, 1) /\ CursorOk(l) => CursorOk(CommitSample(l))
           /\ CursorOk(l) => CursorOk(LimiterDelete(l))
           /\ CanInsert(l, 1) => CanInsert(LimiterDelete(l), 1)
           /\ CursorOk(ResetLimiter) /\ CanInsert(ResetLimiter, 1)
  <1>1. /\ Cursor(l) \in Int
        /\ Cursor(LimiterInsert(l)) = Cursor(l) + SamplesPerInsert
        /\ Cursor(LimiterDelete(l)) = Cursor(l)
        /\ Cursor(CommitSample(l)) = Cursor(l) - Unit
    BY LimiterType, CursorMoves
  <1>2. /\ LimiterInsert(l) = [inserts |-> l.inserts + 1, samples |-> l.samples,
                               deletes |-> l.deletes]
        /\ LimiterDelete(l) = [inserts |-> l.inserts, samples |-> l.samples,
                               deletes |-> l.deletes + 1]
        /\ CommitSample(l) = [inserts |-> l.inserts, samples |-> l.samples + 1,
                              deletes |-> l.deletes]
    BY DEF Limiter, LimiterInsert, LimiterDelete, CommitSample
  <1>3. l.inserts \in Nat /\ l.samples \in Nat /\ l.deletes \in Nat
    BY DEF Limiter
  <1>4. CanInsert(l, 1) <=> \/ l.inserts + 1 - l.deletes <= MinSizeToSample
                            \/ Cursor(l) + SamplesPerInsert <= MaxDiff
    BY LimiterAssumption DEF CanInsert
  <1>5. CanSample(l, 1) <=> /\ l.inserts - l.deletes >= MinSizeToSample
                            /\ Cursor(l) - Unit >= MinDiff
    BY LimiterAssumption DEF CanSample
  <1>6. CanInsert(l, 1) /\ CursorOk(l) => CursorOk(LimiterInsert(l))
    BY <1>1, <1>2, <1>3, <1>4, LimiterAssumption DEF CursorOk
  <1>7. CanSample(l, 1) /\ CursorOk(l) => CursorOk(CommitSample(l))
    BY <1>1, <1>2, <1>3, <1>5, LimiterAssumption DEF CursorOk
  <1>8. CursorOk(l) => CursorOk(LimiterDelete(l))
    BY <1>1, <1>2, <1>3, LimiterAssumption DEF CursorOk
  <1>9. CanInsert(l, 1) => CanInsert(LimiterDelete(l), 1)
    BY <1>1, <1>2, <1>3, <1>4, LimiterAssumption DEF CanInsert
  <1>10. CursorOk(ResetLimiter) /\ CanInsert(ResetLimiter, 1)
    BY LimiterAssumption DEF ResetLimiter, CursorOk, CanInsert
  <1> QED
    BY <1>6, <1>7, <1>8, <1>9, <1>10

\* The counters after each operation.
LEMMA LimiterCounters ==
    ASSUME NEW l \in Limiter
    PROVE  /\ l.inserts \in Nat /\ l.deletes \in Nat
           /\ LimiterInsert(l).inserts = l.inserts + 1
           /\ LimiterInsert(l).deletes = l.deletes
           /\ LimiterDelete(l).inserts = l.inserts
           /\ LimiterDelete(l).deletes = l.deletes + 1
           /\ CommitSample(l).inserts = l.inserts
           /\ CommitSample(l).deletes = l.deletes
           /\ ResetLimiter.inserts = 0 /\ ResetLimiter.deletes = 0
  BY DEF Limiter, LimiterInsert, LimiterDelete, CommitSample, ResetLimiter

LEMMA InitLimiter == Init => LimiterInv
  <1> SUFFICES ASSUME Init PROVE LimiterInv
    OBVIOUS
  <1>1. table = EmptyTable /\ worker.pc = "insert"
        /\ \A c \in Clients : client[c].pc = "idle"
    BY DEF Init
  <1>2. table.limiter = ResetLimiter /\ \A k \in Keys : table.data[k] = None
    BY <1>1 DEF EmptyTable
  <1>3. Size(table) = 0
    BY <1>1, <1>2, EmptyTableType, SizeZero
  <1>4. Drift = 0
    BY <1>2, <1>3 DEF Drift, ResetLimiter
  <1>5. ResetLimiter \in Limiter
    BY DEF ResetLimiter, Limiter
  <1>6. CursorWithinDiffs
    BY <1>2, <1>5, LimiterSteps DEF CursorOk, CursorWithinDiffs
  <1>7. SizeWithinBound
    BY <1>3, TableAssumption DEF SizeWithinBound
  <1> QED
    BY <1>1, <1>4, <1>6, <1>7
       DEF LimiterInv, LimiterDriftBounded, ExactDrift, RightToInsertKept

\* A step that leaves data_ and the limiter alone, and that neither enters nor
\* leaves the eviction window.
LEMMA LimiterUnchanged ==
    ASSUME LimiterInv,
           table'.data = table.data, table'.limiter = table.limiter,
           \/ worker'.pc = worker.pc
           \/ /\ worker.pc \notin {"evicted", "failed"}
              /\ worker'.pc \notin {"evicted", "failed"},
           NoResets => \A c \in Clients : client'[c].pc # "reset"
    PROVE  LimiterInv'
  <1>1. Size(table') = Size(table)
    BY SizeOfSame
  <1>2. Drift' = Drift
    BY <1>1 DEF Drift
  <1> QED
    BY <1>1, <1>2
       DEF LimiterInv, SizeWithinBound, Sound, LimiterDriftBounded, ExactDrift,
           CursorWithinDiffs, RightToInsertKept

\* What a step that changes the table has to show.
LEMMA LimiterChanged ==
    ASSUME Size(table') \in Nat,
           worker'.pc # "failed" => Size(table') <= MaxSize,
           LimiterDriftBounded', ExactDrift',
           CursorOk(table'.limiter),
           worker'.pc = "evicted" => CanInsert(table'.limiter, 1)
    PROVE  LimiterInv'
  BY DEF LimiterInv, SizeWithinBound, Sound, CursorWithinDiffs, CursorOk,
         RightToInsertKept

\* InsertOrAssignInternal for a new key.
LEMMA WorkerInsertLimiter ==
    ASSUME TypeInv, LimiterInv, WorkerInsert
    PROVE  LimiterInv'
  <1> DEFINE i == inserts[Head(worker.inserts)]
             t == InsertItem(table, i.key, i.priority)
             x == [priority |-> i.priority, times_sampled |-> 0]
             l == table.limiter
  <1>1. /\ worker.pc = "insert" /\ client' = client /\ worker.inserts # << >>
        /\ CanInsert(l, 1) /\ table.data[i.key] = None
        /\ worker \in WorkerRecord /\ table \in TableRecord /\ l \in Limiter
    BY DEF WorkerInsert, TypeInv, TypeOK, TableRecord
  <1>2. i.key \in Keys /\ i.priority \in Priorities
    BY <1>1, HeadInsert
  <1>3. \/ /\ table' = t
           /\ worker' = [worker EXCEPT !.pc = "failed"]
        \/ /\ InsertOk(table, i.key, i.priority) /\ ~MustEvict(t)
           /\ table' = RegisterInsert(t)
           /\ worker' = [worker EXCEPT !.pc = "registered"]
        \/ /\ InsertOk(table, i.key, i.priority) /\ MustEvict(t)
           /\ \E k \in Known(t.remover) : table' = DeleteItem(t, k)
           /\ worker' = [worker EXCEPT !.pc = "evicted"]
    BY DEF WorkerInsert
  <1> HIDE DEF i
  <1>4. /\ t \in TableRecord /\ t.limiter = l
        /\ t.data = [table.data EXCEPT ![i.key] = x]
    BY <1>1, <1>2, InsertItemFacts, ZenonT(40)
  <1>5. InsertOk(table, i.key, i.priority) => SelectorsAgree(t)
    BY <1>1, <1>2, AgreementMeaning, InsertKeepsAgreement DEF TypeInv, Sound
  <1>6. x \in Item
    BY <1>2 DEF Item
  <1>7. CursorOk(l)
    BY DEF LimiterInv, CursorWithinDiffs, CursorOk
  <1>8. Drift = l.inserts - l.deletes - Size(table)
    BY DEF Drift
  <1>9. Drift \in {0, 1} /\ Size(table) <= MaxSize
        /\ (NoResets => Drift = 0 /\ \A c \in Clients : client[c].pc # "reset")
    BY <1>1 DEF LimiterInv, LimiterDriftBounded, SizeWithinBound, Sound, ExactDrift
  <1> HIDE DEF t, x, l
  <1>10. Size(t) = Size(table) + 1
    BY <1>1, <1>2, <1>4, <1>6, SizeOfInsert
  <1>11. Size(table) \in Nat /\ MaxSize \in Nat
    BY <1>1, SizeType, TableAssumption
  <1>12. Drift' = table'.limiter.inserts - table'.limiter.deletes - Size(table')
    BY DEF Drift
  <1>13. CASE table' = t /\ worker' = [worker EXCEPT !.pc = "failed"]
    <2>1. worker'.pc = "failed"
      BY <1>1, <1>13 DEF WorkerRecord
    <2>2. Drift' = Drift - 1
      BY <1>1, <1>4, <1>8, <1>10, <1>11, <1>12, <1>13, LimiterCounters, SMTT(30)
    <2>3. LimiterDriftBounded' /\ ExactDrift'
      BY <1>1, <1>9, <2>1, <2>2 DEF LimiterDriftBounded, ExactDrift
    <2> QED
      BY <1>4, <1>7, <1>10, <1>11, <1>13, <2>1, <2>3, LimiterChanged
  <1>14. CASE /\ ~MustEvict(t) /\ table' = RegisterInsert(t)
              /\ worker' = [worker EXCEPT !.pc = "registered"]
    <2>1. worker'.pc = "registered"
      BY <1>1, <1>14 DEF WorkerRecord
    <2>2. table'.data = t.data /\ table'.limiter = LimiterInsert(l)
      BY <1>4, <1>14, RegisterInsertFacts
    <2>3. Size(table') = Size(t)
      BY <2>2, SizeOfSame
    <2>4. Drift' = Drift
      BY <1>1, <1>8, <1>10, <1>11, <1>12, <2>2, <2>3, LimiterCounters
    <2>5. LimiterDriftBounded' /\ ExactDrift'
      BY <1>1, <1>9, <2>1, <2>4 DEF LimiterDriftBounded, ExactDrift
    <2>6. CursorOk(table'.limiter)
      BY <1>1, <1>7, <2>2, LimiterSteps
    <2>7. Size(table') \in Nat /\ Size(table') <= MaxSize
      BY <1>10, <1>11, <1>14, <2>3 DEF MustEvict
    <2> QED
      BY <2>1, <2>5, <2>6, <2>7, LimiterChanged
  <1>15. ASSUME InsertOk(table, i.key, i.priority),
                NEW k \in Known(t.remover), table' = DeleteItem(t, k),
                worker' = [worker EXCEPT !.pc = "evicted"]
         PROVE  LimiterInv'
    <2>1. worker'.pc = "evicted"
      BY <1>1, <1>15 DEF WorkerRecord
    <2>2. k \in Keys /\ t.data[k] # None
      BY <1>5, <1>15 DEF Known, SelectorsAgree, AgreeOn
    <2>3. /\ table' \in TableRecord /\ table'.data = [t.data EXCEPT ![k] = None]
          /\ table'.limiter = LimiterDelete(l)
      BY <1>4, <1>15, <2>2, DeleteItemData
    <2>4. Size(table') = Size(t) - 1
      BY <1>4, <2>2, <2>3, SizeOfDelete
    <2>5. Drift' = Drift - 1
      BY <1>1, <1>8, <1>10, <1>11, <1>12, <2>3, <2>4, LimiterCounters, SMTT(30)
    <2>6. LimiterDriftBounded' /\ ExactDrift'
      BY <1>1, <1>9, <2>1, <2>5 DEF LimiterDriftBounded, ExactDrift
    <2>7. CursorOk(table'.limiter) /\ CanInsert(table'.limiter, 1)
      BY <1>1, <1>7, <2>3, LimiterSteps
    <2>8. Size(table') \in Nat /\ Size(table') <= MaxSize
      BY <1>9, <1>10, <1>11, <2>4
    <2> QED
      BY <2>6, <2>7, <2>8, LimiterChanged
  <1> QED
    BY <1>3, <1>13, <1>14, <1>15

\* InsertOrAssignInternal for a known key.
LEMMA WorkerAssignLimiter ==
    ASSUME TypeInv, LimiterInv, WorkerAssign
    PROVE  LimiterInv'
  <1> DEFINE k == inserts[Head(worker.inserts)].key
             p == inserts[Head(worker.inserts)].priority
  <1>1. /\ worker.pc = "insert" /\ client' = client /\ worker.inserts # << >>
        /\ table' = UpdateItem(table, k, p)
        /\ \/ worker' = [worker EXCEPT !.pc = "failed"]
           \/ worker' = [worker EXCEPT !.pc = "updated"]
        /\ worker \in WorkerRecord /\ table \in TableRecord
    BY DEF WorkerAssign, TypeInv, TypeOK
  <1>2. k \in Keys /\ p \in Priorities
    BY <1>1, HeadInsert
  <1> HIDE DEF k, p
  <1>3. Size(table') = Size(table) /\ table'.limiter = table.limiter
    BY <1>1, <1>2, UpdateSize
  <1>4. worker'.pc \in {"failed", "updated"}
    BY <1>1 DEF WorkerRecord
  <1>5. Drift' = Drift
    BY <1>3 DEF Drift
  <1>6. Size(table) \in Nat
    BY <1>1, SizeType
  <1> QED
    BY <1>1, <1>3, <1>4, <1>5, <1>6
       DEF LimiterInv, SizeWithinBound, Sound, LimiterDriftBounded, ExactDrift,
           CursorWithinDiffs, RightToInsertKept

\* The insert is registered after an eviction: the right to it was kept.
LEMMA WorkerEvictedLimiter ==
    ASSUME TypeInv, LimiterInv, WorkerEvicted
    PROVE  LimiterInv'
  <1> DEFINE l == table.limiter
  <1>1. /\ worker.pc = "evicted" /\ client' = client
        /\ table' = RegisterInsert(table)
        /\ worker' = [worker EXCEPT !.pc = "registered"]
        /\ worker \in WorkerRecord /\ table \in TableRecord /\ l \in Limiter
    BY DEF WorkerEvicted, TypeInv, TypeOK, TableRecord
  <1>2. table'.data = table.data /\ table'.limiter = LimiterInsert(l)
    BY <1>1, RegisterInsertFacts
  <1>3. Size(table') = Size(table) /\ Size(table) \in Nat
    BY <1>1, <1>2, SizeOfSame, SizeType
  <1>4. worker'.pc = "registered"
    BY <1>1 DEF WorkerRecord
  <1>5. Drift' = Drift + 1
    BY <1>1, <1>2, <1>3, LimiterCounters DEF Drift
  <1>6. LimiterDriftBounded' /\ ExactDrift'
    BY <1>1, <1>4, <1>5 DEF LimiterInv, LimiterDriftBounded, ExactDrift
  <1>7. CursorOk(l) /\ CanInsert(l, 1) /\ Size(table) <= MaxSize
    BY <1>1 DEF LimiterInv, CursorWithinDiffs, CursorOk, RightToInsertKept,
                SizeWithinBound, Sound
  <1>8. CursorOk(table'.limiter)
    BY <1>1, <1>2, <1>7, LimiterSteps
  <1> QED
    BY <1>3, <1>4, <1>6, <1>7, <1>8, LimiterChanged

\* UpdateItem has returned.
LEMMA WorkerUpdatedLimiter ==
    ASSUME TypeInv, LimiterInv, WorkerUpdated
    PROVE  LimiterInv'
  <1> DEFINE k == inserts[Head(worker.inserts)].key
  <1>1. /\ worker.pc = "updated" /\ client' = client
        /\ table' = ExtensionOperation(table, "release", k)
        /\ worker' = [worker EXCEPT !.pc = "registered"]
        /\ worker \in WorkerRecord /\ table \in TableRecord
    BY DEF WorkerUpdated, TypeInv, TypeOK
  <1>2. worker.inserts # << >>
    BY <1>1 DEF TypeInv, WorkerHolds
  <1>3. k \in Keys
    BY <1>2, HeadInsert
  <1> HIDE DEF k
  <1>4. table'.data = table.data /\ table'.limiter = table.limiter
    BY <1>1, <1>3, ExtensionOperationFacts
  <1>5. worker'.pc = "registered"
    BY <1>1 DEF WorkerRecord
  <1>6. NoResets => \A c \in Clients : client'[c].pc # "reset"
    BY <1>1 DEF LimiterInv, ExactDrift
  <1> QED
    BY <1>1, <1>4, <1>5, <1>6, LimiterUnchanged

\* SampleInternal.
LEMMA WorkerSampleLimiter ==
    ASSUME TypeInv, LimiterInv, WorkerSample
    PROVE  LimiterInv'
  <1> DEFINE l == table.limiter
  <1>1. /\ worker.pc = "sample" /\ client' = client /\ CanSample(l, 1)
        /\ \/ table' = table /\ worker' = [worker EXCEPT !.pc = "crashed"]
           \/ /\ \E k \in Known(table.sampler) : table' = SampleItem(table, k)
              /\ worker'.pc = "sampled"
        /\ worker \in WorkerRecord /\ table \in TableRecord /\ l \in Limiter
        /\ SelectorsAgree(table)
    BY AgreementMeaning
       DEF WorkerSample, TypeInv, TypeOK, TableRecord, WorkerRecord, Sound
  <1>2. NoResets => \A c \in Clients : client'[c].pc # "reset"
    BY <1>1 DEF LimiterInv, ExactDrift
  <1>3. CASE table' = table /\ worker' = [worker EXCEPT !.pc = "crashed"]
    <2>1. worker'.pc = "crashed"
      BY <1>1, <1>3 DEF WorkerRecord
    <2> QED
      BY <1>1, <1>2, <1>3, <2>1, LimiterUnchanged
  <1>4. ASSUME NEW k \in Known(table.sampler), table' = SampleItem(table, k),
               worker'.pc = "sampled"
        PROVE  LimiterInv'
    <2>1. /\ k \in Keys /\ table.data[k] # None
          /\ table.sampler[k] # None /\ table.remover[k] # None
      BY <1>1 DEF Known, SelectorsAgree, AgreeOn
    <2>2. table' \in TableRecord
      BY <1>1, <1>4, <2>1, SampleItemFacts
    <2>3. \/ Size(table') = Size(table) /\ table'.limiter = CommitSample(l)
          \/ /\ Size(table') = Size(table) - 1
             /\ table'.limiter = LimiterDelete(CommitSample(l))
      BY <1>1, <1>4, <2>1, SampleSize
    <2>4. Size(table) \in Nat /\ Size(table') \in Nat
      BY <1>1, <2>2, SizeType
    <2>5. CommitSample(l) \in Limiter
      BY <1>1, LimiterType
    <2>6. CursorOk(l)
      BY DEF LimiterInv, CursorWithinDiffs, CursorOk
    <2>7. CursorOk(table'.limiter)
      BY <1>1, <2>3, <2>5, <2>6, LimiterSteps
    <2>8. Drift' = Drift
      <3> HIDE DEF l
      <3>1. /\ l.inserts \in Nat /\ l.deletes \in Nat
            /\ CommitSample(l).inserts = l.inserts
            /\ CommitSample(l).deletes = l.deletes
            /\ LimiterDelete(CommitSample(l)).inserts = l.inserts
            /\ LimiterDelete(CommitSample(l)).deletes = l.deletes + 1
        BY <1>1, <2>5, LimiterCounters
      <3>2. Drift = l.inserts - l.deletes - Size(table)
        BY DEF Drift, l
      <3> QED
        BY <2>3, <2>4, <3>1, <3>2 DEF Drift
    <2>9. Size(table') <= MaxSize
      BY <1>1, <2>3, <2>4, TableAssumption DEF LimiterInv, SizeWithinBound, Sound
    <2>10. LimiterDriftBounded' /\ ExactDrift'
      BY <1>1, <1>2, <1>4, <2>8 DEF LimiterInv, LimiterDriftBounded, ExactDrift
    <2> QED
      BY <1>4, <2>4, <2>7, <2>9, <2>10, LimiterChanged
  <1> QED
    BY <1>1, <1>3, <1>4

\* A delete or update of MutateItems, which may come into an eviction window.
LEMMA MutateItemLimiter ==
    ASSUME TypeInv, LimiterInv, NEW c \in Clients, MutateItem(c)
    PROVE  LimiterInv'
  <1> DEFINE e == Head(client[c].edits)
             l == table.limiter
  <1>1. /\ worker' = worker /\ client[c].edits # << >>
        /\ client \in [Clients -> ClientRecord]
        /\ client[c].pc = "mutate" /\ client[c].edits \in Seq(Edit)
        /\ table \in TableRecord /\ l \in Limiter
        /\ \/ table' = DeleteItem(table, e.key)
           \/ table' = UpdateItem(table, e.key, e.priority)
    BY DEF MutateItem, TypeInv, TypeOK, ClientRecord, TableRecord
  <1>2. \/ client' = [client EXCEPT ![c].edits = Tail(client[c].edits)]
        \/ client' = [client EXCEPT ![c].pc = "mutate_wait",
                                    ![c].edits = Tail(client[c].edits)]
        \/ client' = [client EXCEPT ![c].pc = "done"]
    BY DEF MutateItem
  <1>3. e \in Edit
    BY <1>1, HeadTailProperties
  <1>4. e.key \in Keys /\ e.priority \in Priorities
    BY <1>3 DEF Edit
  <1>5. \A d \in Clients : client'[d].pc = "reset" => client[d].pc = "reset"
    BY <1>1, <1>2 DEF ClientRecord
  <1> HIDE DEF e
  <1>6. table' \in TableRecord
    BY <1>1, <1>4, DeleteItemType, UpdateItemType
  <1>7. \/ Size(table') = Size(table) /\ table'.limiter = l
        \/ Size(table') = Size(table) - 1 /\ table'.limiter = LimiterDelete(l)
    <2>1. CASE table' = DeleteItem(table, e.key)
      BY <1>1, <1>4, <2>1, DeleteSize
    <2>2. CASE table' = UpdateItem(table, e.key, e.priority)
      BY <1>1, <1>4, <2>2, UpdateSize
    <2> QED
      BY <1>1, <2>1, <2>2
  <1>8. Size(table) \in Nat /\ Size(table') \in Nat
    BY <1>1, <1>6, SizeType
  <1>9. CursorOk(l) /\ (worker.pc = "evicted" => CanInsert(l, 1))
    BY DEF LimiterInv, CursorWithinDiffs, CursorOk, RightToInsertKept
  <1>10. /\ CursorOk(table'.limiter)
         /\ worker'.pc = "evicted" => CanInsert(table'.limiter, 1)
    BY <1>1, <1>7, <1>9, LimiterSteps
  <1>11. Drift' = Drift
    <2>1. /\ l.inserts \in Nat /\ l.deletes \in Nat
          /\ LimiterDelete(l).inserts = l.inserts
          /\ LimiterDelete(l).deletes = l.deletes + 1
      BY <1>1, LimiterCounters
    <2>2. Drift = l.inserts - l.deletes - Size(table)
      BY DEF Drift
    <2> HIDE DEF l
    <2> QED
      BY <1>7, <1>8, <2>1, <2>2 DEF Drift
  <1>12. worker'.pc # "failed" => Size(table') <= MaxSize
    BY <1>1, <1>7, <1>8, TableAssumption DEF LimiterInv, SizeWithinBound, Sound
  <1>13. LimiterDriftBounded' /\ ExactDrift'
    BY <1>1, <1>5, <1>11 DEF LimiterInv, LimiterDriftBounded, ExactDrift
  <1> QED
    BY <1>8, <1>10, <1>12, <1>13, LimiterChanged

\* Reset, which may come into an eviction window too.
LEMMA ResetClearsLimiter ==
    ASSUME TypeInv, LimiterInv, NEW c \in Clients, Reset(c)
    PROVE  LimiterInv'
  <1>1. /\ client[c].pc = "reset" /\ worker' = worker
        /\ table' = ClearTable(table) /\ table \in TableRecord
    BY DEF Reset, TypeInv, TypeOK
  <1>2. /\ table' \in TableRecord /\ table'.limiter = ResetLimiter
        /\ \A k \in Keys : table'.data[k] = None
    BY <1>1, ClearTableFacts
  <1>3. Size(table') = 0
    BY <1>2, SizeZero
  <1>4. Drift' = 0
    BY <1>2, <1>3 DEF Drift, ResetLimiter
  <1>5. ~NoResets
    BY <1>1 DEF LimiterInv, ExactDrift
  <1>6. ResetLimiter \in Limiter
    BY DEF ResetLimiter, Limiter
  <1>7. CursorOk(table'.limiter) /\ CanInsert(table'.limiter, 1)
    BY <1>2, <1>6, LimiterSteps
  <1>8. LimiterDriftBounded' /\ ExactDrift'
    BY <1>4, <1>5 DEF LimiterDriftBounded, ExactDrift, NoResets
  <1> QED
    BY <1>3, <1>7, <1>8, TableAssumption, LimiterChanged

\* SignalWorker neither enters nor leaves the eviction window.
LEMMA SignalKeepsWindow ==
    ASSUME worker \in WorkerRecord, SignalWorker
    PROVE  \/ worker'.pc = worker.pc
           \/ /\ worker.pc \notin {"evicted", "failed"}
              /\ worker'.pc \notin {"evicted", "failed"}
  BY DEF SignalWorker, WorkerRecord

\* The steps of the worker that do not touch data_ or the limiter.
LEMMA WorkerQuietLimiter ==
    ASSUME TypeInv, LimiterInv,
           \/ WorkerSkipInsert \/ WorkerRegistered \/ WorkerSampled
           \/ WorkerEndLoop \/ WorkerStops \/ WorkerContinues \/ WorkerExpires
           \/ WorkerSleeps \/ WorkerWakesOnDeadline \/ WorkerTerminates
           \/ WorkerDrains \/ WorkerCancels \/ WaitAgain("worker")
    PROVE  LimiterInv'
  <1>1. worker \in WorkerRecord
    BY DEF TypeInv, TypeOK
  <1>2. table' = table /\ client' = client
    BY DEF WorkerSkipInsert, WorkerRegistered, WorkerSampled, WorkerEndLoop,
           WorkerStops, WorkerContinues, WorkerExpires, WorkerSleeps,
           WorkerWakesOnDeadline, WorkerTerminates, WorkerDrains,
           WorkerCancels, WaitAgain
  <1>3. \/ worker'.pc = worker.pc
        \/ /\ worker.pc \notin {"evicted", "failed"}
           /\ worker'.pc \notin {"evicted", "failed"}
    <2>1. CASE WorkerSkipInsert \/ WorkerStops \/ WorkerWakesOnDeadline
               \/ WaitAgain("worker")
      BY <1>1, <2>1
         DEF WorkerRecord, WorkerSkipInsert, WorkerStops, WorkerWakesOnDeadline,
             WaitAgain
    <2>2. CASE WorkerRegistered
      BY <1>1, <2>2 DEF WorkerRecord, WorkerRegistered
    <2>3. CASE WorkerSampled
      BY <1>1, <2>3 DEF WorkerRecord, WorkerSampled
    <2>4. CASE WorkerEndLoop
      BY <1>1, <2>4 DEF WorkerRecord, WorkerEndLoop
    <2>5. CASE WorkerContinues
      BY <1>1, <2>5 DEF WorkerRecord, WorkerContinues
    <2>6. CASE WorkerExpires
      BY <1>1, <2>6 DEF WorkerRecord, WorkerExpires, Idle
    <2>7. CASE WorkerSleeps
      BY <1>1, <2>7 DEF WorkerRecord, WorkerSleeps, Idle
    <2>8. CASE WorkerTerminates \/ WorkerDrains \/ WorkerCancels
      BY <1>1, <2>8
         DEF WorkerRecord, WorkerTerminates, WorkerDrains, WorkerCancels
    <2> QED
      BY <2>1, <2>2, <2>3, <2>4, <2>5, <2>6, <2>7, <2>8
  <1>4. NoResets => \A c \in Clients : client'[c].pc # "reset"
    BY <1>2 DEF LimiterInv, ExactDrift
  <1> QED
    BY <1>2, <1>3, <1>4, LimiterUnchanged

\* The extension worker, and the clients that enqueue.
LEMMA OthersQuietLimiter ==
    ASSUME TypeInv, LimiterInv,
           \/ ExtensionWorker
           \/ \E i \in InsertRequests :
                 InsertOrAssignAsync(i) \/ InsertOrAssignTimesOut(i)
           \/ \E s \in SampleRequests :
                 EnqueSampleRequest(s) \/ DeadlinePasses(s)
    PROVE  LimiterInv'
  <1>1. worker \in WorkerRecord /\ table \in TableRecord
    BY DEF TypeInv, TypeOK
  <1>2. /\ table' = table
           \/ table' = [table EXCEPT !.extension_requests = << >>]
        /\ client' = client
        /\ worker' = worker \/ SignalWorker
    BY DEF ExtensionWorker, ExtensionStarts, ExtensionHandsOff, ExtensionSleeps,
           ExtensionFetches, ExtensionProcesses, InsertOrAssignAsync,
           InsertOrAssignTimesOut, EnqueSampleRequest, DeadlinePasses
  <1>3. table'.data = table.data /\ table'.limiter = table.limiter
    BY <1>1, <1>2 DEF TableRecord
  <1>4. NoResets => \A c \in Clients : client'[c].pc # "reset"
    BY <1>2 DEF LimiterInv, ExactDrift
  <1>5. \/ worker'.pc = worker.pc
        \/ /\ worker.pc \notin {"evicted", "failed"}
           /\ worker'.pc \notin {"evicted", "failed"}
    BY <1>1, <1>2, SignalKeepsWindow
  <1> QED
    BY <1>3, <1>4, <1>5, LimiterUnchanged

\* The steps of the calls that do not touch data_ or the limiter.
LEMMA ClientQuietLimiter ==
    ASSUME TypeInv, LimiterInv, NEW c \in Clients,
           \/ StartCall(c) \/ MutateResumes(c) \/ MutateUnlocks(c)
           \/ MutateSignals(c) \/ ResetSignals(c) \/ Close(c)
           \/ DestroyStopsExtension(c) \/ DestroyJoins(c) \/ WaitAgain(c)
    PROVE  LimiterInv'
  <1>1. worker \in WorkerRecord /\ client \in [Clients -> ClientRecord]
    BY DEF TypeInv, TypeOK
  <1>2. table' = table /\ (worker' = worker \/ SignalWorker)
    BY DEF StartCall, MutateResumes, MutateUnlocks, MutateSignals, ResetSignals,
           Close, DestroyStopsExtension, DestroyJoins, WaitAgain
  <1>3. NoResets => \A d \in Clients : client'[d].pc # "reset"
    <2> SUFFICES ASSUME NoResets, NEW d \in Clients
                 PROVE  client'[d].pc # "reset"
      OBVIOUS
    <2>1. client[d].pc # "reset"
      BY DEF LimiterInv, ExactDrift
    <2>2. CASE StartCall(c)
      <3>1. PICK call \in Calls :
               client' = [client EXCEPT ![c].pc = call.op,
                                        ![c].edits = call.edits]
        BY <2>2 DEF StartCall
      <3>2. call.op # "reset"
        BY DEF NoResets
      <3> QED
        BY <1>1, <2>1, <3>1, <3>2 DEF ClientRecord
    <2>3. CASE MutateResumes(c) \/ MutateUnlocks(c) \/ MutateSignals(c)
               \/ ResetSignals(c)
      BY <1>1, <2>1, <2>3
         DEF MutateResumes, MutateUnlocks, MutateSignals, ResetSignals,
             ClientRecord
    <2>4. CASE Close(c) \/ DestroyStopsExtension(c) \/ DestroyJoins(c)
               \/ WaitAgain(c)
      BY <1>1, <2>1, <2>4
         DEF Close, DestroyStopsExtension, DestroyJoins, WaitAgain, ClientRecord
    <2> QED
      BY <2>2, <2>3, <2>4
  <1>4. \/ worker'.pc = worker.pc
        \/ /\ worker.pc \notin {"evicted", "failed"}
           /\ worker'.pc \notin {"evicted", "failed"}
    BY <1>1, <1>2, SignalKeepsWindow
  <1> QED
    BY <1>2, <1>3, <1>4, LimiterUnchanged

\* Every step keeps the limiter and the size of the table in line.
LEMMA LimiterStep == TypeInv /\ LimiterInv /\ [Next]_vars => LimiterInv'
  <1> SUFFICES ASSUME TypeInv, LimiterInv, [Next]_vars
               PROVE  LimiterInv'
    OBVIOUS
  <1>1. CASE TableWorker
    BY <1>1, WorkerInsertLimiter, WorkerAssignLimiter, WorkerEvictedLimiter,
       WorkerUpdatedLimiter, WorkerSampleLimiter, WorkerQuietLimiter
       DEF TableWorker
  <1>2. CASE \/ ExtensionWorker
             \/ \E i \in InsertRequests :
                   InsertOrAssignAsync(i) \/ InsertOrAssignTimesOut(i)
             \/ \E s \in SampleRequests :
                   EnqueSampleRequest(s) \/ DeadlinePasses(s)
    BY <1>2, OthersQuietLimiter
  <1>3. ASSUME NEW c \in Clients, StartCall(c) \/ ClientStep(c)
        PROVE  LimiterInv'
    BY <1>3, MutateItemLimiter, ResetClearsLimiter, ClientQuietLimiter
       DEF ClientStep
  <1>4. CASE UNCHANGED vars
    <2>1. table' = table /\ worker' = worker /\ client' = client
      BY <1>4 DEF vars
    <2>2. NoResets => \A c \in Clients : client'[c].pc # "reset"
      BY <2>1 DEF LimiterInv, ExactDrift
    <2> QED
      BY <2>1, <2>2, LimiterUnchanged
  <1> QED
    BY <1>1, <1>2, <1>3, <1>4 DEF Next

\* TypeInv and LimiterInv together are inductive.
THEOREM LimiterCorrect == Spec => [](TypeInv /\ LimiterInv)
  BY InitType, InitLimiter, TypeStep, LimiterStep, PTL DEF Spec

\* The table never holds more than max_size_ items.
THEOREM SizeSafety == Spec => []SizeWithinBound
  <1>1. LimiterInv => SizeWithinBound
    BY DEF LimiterInv
  <1> QED
    BY <1>1, LimiterCorrect, PTL

\* The limiter's idea of the size is never off by more than one.
THEOREM DriftSafety == Spec => []LimiterDriftBounded
  <1>1. LimiterInv => LimiterDriftBounded
    BY DEF LimiterInv
  <1> QED
    BY <1>1, LimiterCorrect, PTL

\* The limiter keeps the cursor between min_diff and max_diff, although the
\* right to insert is used after mu_ has been released and taken again.
THEOREM CursorSafety == Spec => []CursorWithinDiffs
  <1>1. LimiterInv => CursorWithinDiffs
    BY DEF LimiterInv
  <1> QED
    BY <1>1, LimiterCorrect, PTL

\* With the error buffer that SampleToInsertRatio insists on, inserts and
\* samples are never blocked at the same time.
THEOREM ProgressSafety == Spec => []NeverBothBlocked
  <1>1. TypeInv => NeverBothBlocked
    <2> SUFFICES ASSUME TypeInv, WideBuffer
                 PROVE  CanInsert(table.limiter, 1) \/ CanSample(table.limiter, 1)
      BY DEF NeverBothBlocked
    <2>1. table.limiter \in Limiter
      BY DEF TypeInv, TypeOK, TableRecord
    <2> QED
      BY <2>1, LimiterNeverBlocksBoth
  <1> QED
    BY <1>1, TypeCorrect, PTL

\* The table never samples when it is empty.
LEMMA CrashStep ==
    ASSUME NoResets \/ MinSizeToSample >= 2
    PROVE  TypeInv /\ LimiterInv /\ NeverSamplesEmptyTable /\ [Next]_vars
             => NeverSamplesEmptyTable'
  <1> SUFFICES ASSUME TypeInv, LimiterInv, NeverSamplesEmptyTable, [Next]_vars,
                      worker'.pc = "crashed"
               PROVE  FALSE
    BY DEF NeverSamplesEmptyTable
  <1>1. worker \in WorkerRecord /\ table \in TableRecord /\ worker.pc # "crashed"
    BY DEF TypeInv, TypeOK, NeverSamplesEmptyTable
  <1>2. WorkerSample
    <2>1. CASE TableWorker
      <3>1. CASE WorkerInsert
        BY <1>1, <3>1 DEF WorkerInsert, WorkerRecord
      <3>2. CASE \/ WorkerSkipInsert \/ WorkerAssign \/ WorkerEvicted
                 \/ WorkerUpdated \/ WorkerRegistered \/ WorkerStops
                 \/ WorkerWakesOnDeadline
        BY <1>1, <3>2
           DEF WorkerSkipInsert, WorkerAssign, WorkerEvicted, WorkerUpdated,
               WorkerRegistered, WorkerStops, WorkerWakesOnDeadline, WorkerRecord
      <3>3. CASE WorkerSampled
        BY <1>1, <3>3 DEF WorkerSampled, WorkerRecord
      <3>4. CASE WorkerEndLoop
        BY <1>1, <3>4 DEF WorkerEndLoop, WorkerRecord
      <3>5. CASE WorkerContinues
        BY <1>1, <3>5 DEF WorkerContinues, WorkerRecord
      <3>6. CASE WorkerExpires
        BY <1>1, <3>6 DEF WorkerExpires, WorkerRecord
      <3>7. CASE WorkerSleeps
        BY <1>1, <3>7 DEF WorkerSleeps, WorkerRecord
      <3>8. CASE WorkerTerminates \/ WorkerDrains \/ WorkerCancels
        BY <1>1, <3>8
           DEF WorkerTerminates, WorkerDrains, WorkerCancels, WorkerRecord
      <3>9. CASE WaitAgain("worker")
        BY <1>1, <3>9 DEF WaitAgain
      <3> QED
        BY <2>1, <3>1, <3>2, <3>3, <3>4, <3>5, <3>6, <3>7, <3>8, <3>9
           DEF TableWorker
    <2>2. SignalWorker \/ worker' = worker => worker'.pc # "crashed"
      BY <1>1 DEF SignalWorker, WorkerRecord
    <2>3. CASE ExtensionWorker
      BY <2>2, <2>3
         DEF ExtensionWorker, ExtensionStarts, ExtensionHandsOff,
             ExtensionSleeps, ExtensionFetches, ExtensionProcesses
    <2>4. CASE \/ \E i \in InsertRequests :
                     InsertOrAssignAsync(i) \/ InsertOrAssignTimesOut(i)
               \/ \E s \in SampleRequests :
                     EnqueSampleRequest(s) \/ DeadlinePasses(s)
      BY <2>2, <2>4
         DEF InsertOrAssignAsync, InsertOrAssignTimesOut, EnqueSampleRequest,
             DeadlinePasses
    <2>5. ASSUME NEW c \in Clients, StartCall(c) \/ ClientStep(c)
          PROVE  FALSE
      <3>1. SignalWorker \/ worker' = worker
        BY <2>5
           DEF StartCall, ClientStep, MutateItem, MutateResumes, MutateUnlocks,
               MutateSignals, Reset, ResetSignals, Close,
               DestroyStopsExtension, DestroyJoins, WaitAgain
      <3> QED
        BY <2>2, <3>1
    <2>6. CASE UNCHANGED vars
      BY <2>2, <2>6 DEF vars
    <2> QED
      BY <2>1, <2>3, <2>4, <2>5, <2>6 DEF Next
  <1>3. worker.pc = "sample" /\ CanSample(table.limiter, 1)
    BY <1>2 DEF WorkerSample
  <1>4. Known(table.sampler) = {}
    BY <1>1, <1>2 DEF WorkerSample, WorkerRecord
  <1>5. SelectorsAgree(table)
    BY <1>3, AgreementMeaning DEF TypeInv, Sound
  <1>6. \A k \in Keys : table.data[k] = None
    BY <1>4, <1>5 DEF Known, SelectorsAgree, AgreeOn
  <1>7. Size(table) = 0
    BY <1>1, <1>6, SizeZero
  <1>8. Drift = table.limiter.inserts - table.limiter.deletes
    BY <1>1, <1>7 DEF Drift, TableRecord, Limiter
  <1>9. Drift >= MinSizeToSample
    BY <1>3, <1>8 DEF CanSample
  <1>10. /\ NoResets => Drift = 0
         /\ Drift \in {0, 1}
    BY <1>3 DEF LimiterInv, LimiterDriftBounded, ExactDrift
  <1> QED
    BY <1>9, <1>10, LimiterAssumption

\* The REVERB_CHECK in the selectors' Sample() never fails, for a table that is
\* never reset or whose min_size_to_sample is at least 2.
THEOREM SampleSafety ==
    ASSUME NoResets \/ MinSizeToSample >= 2
    PROVE  Spec => []NeverSamplesEmptyTable
  <1>1. Init => NeverSamplesEmptyTable
    BY DEF Init, NeverSamplesEmptyTable
  <1>2. TypeInv /\ LimiterInv /\ NeverSamplesEmptyTable /\ [Next]_vars
             => NeverSamplesEmptyTable'
    BY CrashStep
  <1> QED
    BY <1>1, <1>2, LimiterCorrect, PTL DEF Spec

-----------------------------------------------------------------------------
(* How a step may change the table. *)

\* The table r holds what t holds, whatever its limiter has counted besides
\* samples and whatever the extension worker is still to be told.
SameData(t, r) ==
    /\ r.data = t.data
    /\ r.num_unique_samples = t.num_unique_samples
    /\ r.episode_refs = t.episode_refs
    /\ r.limiter.samples = t.limiter.samples

\* All three structures hold k.
Held(t, k) == t.data[k] # None /\ t.sampler[k] # None /\ t.remover[k] # None

Changed(t, r, sound) ==
    \/ r \in TableRecord /\ SameData(t, r)
    \/ \E k \in Keys, p \in Priorities :
          /\ t.data[k] = None
          /\ InsertOk(t, k, p) \/ ~sound
          /\ r = InsertItem(t, k, p)
    \/ \E k \in Keys, p \in Priorities :
          /\ t.data[k] = None
          /\ InsertOk(t, k, p)
          /\ r = RegisterInsert(InsertItem(t, k, p))
    \/ \E k, j \in Keys, p \in Priorities :
          /\ t.data[k] = None
          /\ InsertOk(t, k, p)
          /\ Held(InsertItem(t, k, p), j)
          /\ r = DeleteItem(InsertItem(t, k, p), j)
    \/ \E k \in Keys, p \in Priorities : r = UpdateItem(t, k, p)
    \/ \E k \in Keys : Held(t, k) /\ r = SampleItem(t, k)
    \/ \E k \in Keys : /\ Held(t, k) \/ t.data[k] = None \/ ~sound
                       /\ r = DeleteItem(t, k)
    \/ r = ClearTable(t)

\* RegisterInsert and ExtensionOperation keep the data.
LEMMA RegisterData ==
    ASSUME NEW t \in TableRecord
    PROVE  RegisterInsert(t) \in TableRecord /\ SameData(t, RegisterInsert(t))
  <1> DEFINE l == LimiterInsert(t.limiter)
  <1>1. l \in Limiter /\ l.samples = t.limiter.samples
    BY LimiterType DEF TableRecord, LimiterInsert, Limiter
  <1> HIDE DEF l
  <1>2. LET r == [t EXCEPT !.limiter = l]
        IN /\ r \in TableRecord
           /\ r.data = t.data
           /\ r.num_unique_samples = t.num_unique_samples
           /\ r.episode_refs = t.episode_refs
           /\ r.limiter = l
    BY <1>1 DEF TableRecord
  <1> QED
    BY <1>1, <1>2 DEF RegisterInsert, SameData, l

LEMMA OperationData ==
    ASSUME NEW t \in TableRecord, NEW k \in Keys,
           NEW type \in {"insert", "sample", "update", "delete", "release"}
    PROVE  /\ ExtensionOperation(t, type, k) \in TableRecord
           /\ SameData(t, ExtensionOperation(t, type, k))
  BY ExtensionOperationFacts DEF SameData

\* What the selectors agree on is held.
LEMMA AgreedIsHeld ==
    ASSUME NEW t, SelectorsAgree(t), NEW k \in Keys,
           t.data[k] # None \/ t.sampler[k] # None \/ t.remover[k] # None
    PROVE  Held(t, k)
  BY DEF SelectorsAgree, AgreeOn, Held

\* The steps of the worker that insert, assign and sample.
LEMMA WorkerChanges ==
    ASSUME TypeInv,
           \/ WorkerInsert \/ WorkerAssign \/ WorkerEvicted \/ WorkerUpdated
           \/ WorkerSample
    PROVE  Changed(table, table', Sound') /\ Sound
  <1>1. table \in TableRecord /\ worker \in WorkerRecord
    BY DEF TypeInv, TypeOK
  <1>2. worker.pc \in {"insert", "evicted", "updated", "sample"}
    BY DEF WorkerInsert, WorkerAssign, WorkerEvicted, WorkerUpdated,
           WorkerSample
  <1>3. Sound /\ SelectorsAgree(table)
    BY <1>2, AgreementMeaning DEF TypeInv, Sound
  <1>4. CASE WorkerInsert
    <2> DEFINE k == inserts[Head(worker.inserts)].key
               p == inserts[Head(worker.inserts)].priority
               t == InsertItem(table, k, p)
    <2>1. k \in Keys /\ p \in Priorities
      BY <1>4, HeadInsert DEF WorkerInsert
    <2>2. table.data[k] = None
      BY <1>4 DEF WorkerInsert
    <2>3. \/ worker' = [worker EXCEPT !.pc = "failed"] /\ table' = t
          \/ InsertOk(table, k, p) /\ table' = RegisterInsert(t)
          \/ /\ InsertOk(table, k, p)
             /\ \E j \in Known(t.remover) : table' = DeleteItem(t, j)
      BY <1>4 DEF WorkerInsert
    <2> HIDE DEF k, p
    <2>4. CASE worker' = [worker EXCEPT !.pc = "failed"] /\ table' = t
      <3>1. ~Sound'
        BY <1>1, <2>4 DEF Sound, WorkerRecord
      <3> QED
        BY <1>3, <2>1, <2>2, <2>4, <3>1 DEF Changed
    <2>5. CASE InsertOk(table, k, p) /\ table' = RegisterInsert(t)
      BY <1>3, <2>1, <2>2, <2>5 DEF Changed
    <2>6. ASSUME InsertOk(table, k, p),
                 NEW j \in Known(t.remover), table' = DeleteItem(t, j)
          PROVE  Changed(table, table', Sound')
      <3>1. SelectorsAgree(t)
        BY <1>1, <1>3, <2>1, <2>6, InsertKeepsAgreement
      <3>2. j \in Keys /\ t.remover[j] # None
        BY DEF Known
      <3>3. Held(t, j)
        BY <3>1, <3>2, AgreedIsHeld
      <3> QED
        BY <2>1, <2>2, <2>6, <3>2, <3>3 DEF Changed
    <2> QED
      BY <1>3, <2>3, <2>4, <2>5, <2>6
  <1>5. CASE WorkerAssign
    <2> DEFINE k == inserts[Head(worker.inserts)].key
               p == inserts[Head(worker.inserts)].priority
    <2>1. k \in Keys /\ p \in Priorities
      BY <1>5, HeadInsert DEF WorkerAssign
    <2>2. table' = UpdateItem(table, k, p)
      BY <1>5 DEF WorkerAssign
    <2> QED
      BY <1>3, <2>1, <2>2 DEF Changed
  <1>6. CASE WorkerEvicted
    <2>1. table' = RegisterInsert(table)
      BY <1>6 DEF WorkerEvicted
    <2> QED
      BY <1>1, <1>3, <2>1, RegisterData DEF Changed
  <1>7. CASE WorkerUpdated
    <2> DEFINE k == inserts[Head(worker.inserts)].key
    <2>1. worker.inserts # << >>
      BY <1>7 DEF WorkerUpdated, TypeInv, WorkerHolds
    <2>2. k \in Keys
      BY <2>1, HeadInsert
    <2>3. table' = ExtensionOperation(table, "release", k)
      BY <1>7 DEF WorkerUpdated
    <2> QED
      BY <1>1, <1>3, <2>2, <2>3, OperationData DEF Changed
  <1>8. CASE WorkerSample
    <2>1. CASE table' = table
      BY <1>1, <1>3, <2>1 DEF Changed, SameData
    <2>2. ASSUME NEW k \in Known(table.sampler), table' = SampleItem(table, k)
          PROVE  Changed(table, table', Sound')
      <3>1. k \in Keys /\ table.sampler[k] # None
        BY DEF Known
      <3>2. Held(table, k)
        BY <1>3, <3>1, AgreedIsHeld
      <3> QED
        BY <2>2, <3>1, <3>2 DEF Changed
    <2> QED
      BY <1>3, <1>8, <2>1, <2>2 DEF WorkerSample
  <1> QED
    BY <1>4, <1>5, <1>6, <1>7, <1>8

\* The other steps.
LEMMA OtherChanges ==
    ASSUME TypeInv, [Next]_vars,
           ~(\/ WorkerInsert \/ WorkerAssign \/ WorkerEvicted \/ WorkerUpdated
             \/ WorkerSample)
    PROVE  Changed(table, table', Sound') /\ (Sound' => Sound)
  <1>1. table \in TableRecord /\ worker \in WorkerRecord
    BY DEF TypeInv, TypeOK
  <1>2. CASE UNCHANGED <<table, worker>>
    BY <1>1, <1>2 DEF Changed, SameData, Sound
  <1>3. CASE TableWorker
    <2>1. table' = table
      BY <1>3 DEF TableWorker, WorkerSkipInsert, WorkerRegistered,
             WorkerSampled, WorkerEndLoop, WorkerStops, WorkerContinues,
             WorkerExpires, WorkerSleeps, WorkerWakesOnDeadline,
             WorkerTerminates, WorkerDrains, WorkerCancels, WaitAgain
    <2>2. Sound
      BY <1>3 DEF TableWorker, WorkerSkipInsert, WorkerRegistered,
             WorkerSampled, WorkerEndLoop, WorkerStops, WorkerContinues,
             WorkerExpires, WorkerSleeps, WorkerWakesOnDeadline,
             WorkerTerminates, WorkerDrains, WorkerCancels, Sound, Idle
    <2> QED
      BY <1>1, <2>1, <2>2 DEF Changed, SameData
  <1>4. CASE \/ ExtensionWorker
             \/ \E i \in InsertRequests :
                   InsertOrAssignAsync(i) \/ InsertOrAssignTimesOut(i)
             \/ \E s \in SampleRequests :
                   EnqueSampleRequest(s) \/ DeadlinePasses(s)
    <2>1. /\ table' = table
             \/ table' = [table EXCEPT !.extension_requests = << >>]
          /\ worker' = worker \/ SignalWorker
      BY <1>4 DEF ExtensionWorker, ExtensionStarts, ExtensionHandsOff,
             ExtensionSleeps, ExtensionFetches, ExtensionProcesses,
             InsertOrAssignAsync, InsertOrAssignTimesOut, EnqueSampleRequest,
             DeadlinePasses
    <2>2. << >> \in Seq(ExtensionRequest)
      BY EmptySeq
    <2>3. table' \in TableRecord /\ SameData(table, table')
      BY <1>1, <2>1, <2>2 DEF TableRecord, SameData
    <2>4. Sound' => Sound
      BY <1>1, <2>1 DEF SignalWorker, Sound, WorkerRecord
    <2> QED
      BY <2>3, <2>4 DEF Changed
  <1>5. ASSUME NEW c \in Clients, StartCall(c) \/ ClientStep(c)
        PROVE  Changed(table, table', Sound') /\ (Sound' => Sound)
    <2>1. Sound' => Sound
      BY <1>1, <1>5
         DEF StartCall, ClientStep, MutateItem, MutateResumes, MutateUnlocks,
             MutateSignals, Reset, ResetSignals, Close, DestroyStopsExtension,
             DestroyJoins, WaitAgain, SignalWorker, Sound, WorkerRecord
    <2>2. CASE MutateItem(c)
      <3> DEFINE e == Head(client[c].edits)
      <3>1. client[c].edits # << >> /\ client[c].edits \in Seq(Edit)
        BY <2>2 DEF MutateItem, TypeInv, TypeOK, ClientRecord
      <3>2. e \in Edit
        BY <3>1, HeadTailProperties
      <3>3. e.key \in Keys /\ e.priority \in Priorities
        BY <3>2 DEF Edit
      <3>4. \/ table' = DeleteItem(table, e.key)
            \/ table' = UpdateItem(table, e.key, e.priority)
        BY <2>2 DEF MutateItem
      <3> HIDE DEF e
      <3>5. CASE table' = UpdateItem(table, e.key, e.priority)
        BY <2>1, <3>3, <3>5 DEF Changed
      <3>6. CASE table' = DeleteItem(table, e.key)
        <4>1. Held(table, e.key) \/ table.data[e.key] = None \/ ~Sound'
          BY <2>1, <3>3, AgreementMeaning, AgreedIsHeld DEF TypeInv
        <4> QED
          BY <2>1, <3>3, <3>6, <4>1 DEF Changed
      <3> QED
        BY <3>4, <3>5, <3>6
    <2>3. CASE Reset(c)
      <3>1. table' = ClearTable(table)
        BY <2>3 DEF Reset
      <3> QED
        BY <2>1, <3>1 DEF Changed
    <2>4. CASE UNCHANGED table
      BY <1>1, <2>1, <2>4 DEF Changed, SameData
    <2> QED
      BY <1>5, <2>2, <2>3, <2>4
         DEF StartCall, ClientStep, MutateResumes, MutateUnlocks, MutateSignals,
             ResetSignals, Close, DestroyStopsExtension, DestroyJoins, WaitAgain
  <1> QED
    BY <1>2, <1>3, <1>4, <1>5 DEF Next, vars

LEMMA TableSteps ==
    ASSUME TypeInv, [Next]_vars
    PROVE  Changed(table, table', Sound') /\ (Sound' => Sound)
  BY WorkerChanges, OtherChanges

-----------------------------------------------------------------------------
(* How often items were sampled. *)

\* The items of t that have been sampled.
SampledKeys(t) == {k \in Present(t) : t.data[k].times_sampled > 0}

\* What SamplesRespectLimit says of a table.
Limited(t) ==
    /\ MaxTimesSampled > 0 =>
          \A k \in Present(t) : t.data[k].times_sampled < MaxTimesSampled
    /\ Cardinality(SampledKeys(t)) <= t.num_unique_samples
    /\ t.num_unique_samples <= t.limiter.samples

LEMMA LimitMeaning ==
    /\ SamplesRespectLimit <=> Limited(table)
    /\ SamplesRespectLimit' <=> Limited(table')
  BY DEF SamplesRespectLimit, Limited, SampledKeys, Present

\* The numbers that Limited compares.
LEMMA LimitNumbers ==
    ASSUME NEW t \in TableRecord
    PROVE  /\ IsFiniteSet(SampledKeys(t))
           /\ Cardinality(SampledKeys(t)) \in Nat
           /\ t.num_unique_samples \in Nat /\ t.limiter.samples \in Nat
           /\ t.limiter \in Limiter
           /\ \A k \in Present(t) : /\ k \in Keys /\ t.data[k] \in Item
                                   /\ t.data[k].times_sampled \in Nat
  <1>1. SampledKeys(t) \in SUBSET Keys
    BY DEF SampledKeys, Present
  <1>2. IsFiniteSet(SampledKeys(t))
    BY <1>1, TableAssumption, FS_Subset
  <1>3. Cardinality(SampledKeys(t)) \in Nat
    BY <1>2, FS_CardinalityType
  <1>4. /\ t.num_unique_samples \in Nat /\ t.limiter.samples \in Nat
        /\ t.limiter \in Limiter
    BY DEF TableRecord, Limiter
  <1>5. \A k \in Present(t) : k \in Keys /\ t.data[k] \in Item
    BY DEF TableRecord, Present
  <1> QED
    BY <1>2, <1>3, <1>4, <1>5 DEF Item

LEMMA SameLimited ==
    ASSUME NEW t, NEW r, Limited(t), SameData(t, r)
    PROVE  Limited(r)
  BY DEF Limited, SameData, SampledKeys, Present

\* An entry of data_ changes.
LEMMA ChangeLimited ==
    ASSUME NEW t \in TableRecord, NEW r \in TableRecord, NEW k \in Keys,
           NEW x \in Item \cup {None},
           r.data = [t.data EXCEPT ![k] = x], Limited(t),
           x # None /\ MaxTimesSampled > 0 => x.times_sampled < MaxTimesSampled,
           \/ /\ x = None \/ x.times_sampled = 0 \/ k \in SampledKeys(t)
              /\ r.num_unique_samples >= t.num_unique_samples
           \/ r.num_unique_samples = t.num_unique_samples + 1,
           r.num_unique_samples <= r.limiter.samples
    PROVE  Limited(r)
  <1>1. \A j \in Keys : r.data[j] = IF j = k THEN x ELSE t.data[j]
    BY DEF TableRecord
  <1>2. MaxTimesSampled > 0 =>
          \A j \in Present(r) : r.data[j].times_sampled < MaxTimesSampled
    BY <1>1 DEF Limited, Present
  <1>3. SampledKeys(r) \subseteq SampledKeys(t) \cup {k}
    BY <1>1 DEF SampledKeys, Present
  <1>4. /\ IsFiniteSet(SampledKeys(t)) /\ IsFiniteSet(SampledKeys(t) \cup {k})
        /\ Cardinality(SampledKeys(t)) \in Nat
        /\ Cardinality(SampledKeys(t) \cup {k}) <= Cardinality(SampledKeys(t)) + 1
    <2>1. IsFiniteSet(SampledKeys(t)) /\ Cardinality(SampledKeys(t)) \in Nat
      BY LimitNumbers
    <2>2. /\ IsFiniteSet(SampledKeys(t) \cup {k})
          /\ Cardinality(SampledKeys(t) \cup {k}) =
                IF k \in SampledKeys(t) THEN Cardinality(SampledKeys(t))
                ELSE Cardinality(SampledKeys(t)) + 1
      BY <2>1, FS_AddElement
    <2> QED
      BY <2>1, <2>2
  <1>5. Cardinality(SampledKeys(r)) \in Nat /\ r.num_unique_samples \in Nat
        /\ t.num_unique_samples \in Nat
        /\ Cardinality(SampledKeys(t) \cup {k}) \in Nat
    BY <1>4, LimitNumbers, FS_CardinalityType
  <1>6. Cardinality(SampledKeys(t)) <= t.num_unique_samples
    BY DEF Limited
  <1>7. CASE r.num_unique_samples = t.num_unique_samples + 1
    <2>1. Cardinality(SampledKeys(r)) <= Cardinality(SampledKeys(t) \cup {k})
      BY <1>3, <1>4, FS_Subset
    <2>2. Cardinality(SampledKeys(r)) <= r.num_unique_samples
      BY <1>4, <1>5, <1>6, <1>7, <2>1
    <2> QED
      BY <1>2, <2>2 DEF Limited
  <1>8. CASE /\ x = None \/ x.times_sampled = 0 \/ k \in SampledKeys(t)
             /\ r.num_unique_samples >= t.num_unique_samples
    <2>1. SampledKeys(r) \subseteq SampledKeys(t)
      BY <1>1, <1>3, <1>8 DEF SampledKeys, Present
    <2>2. Cardinality(SampledKeys(r)) <= Cardinality(SampledKeys(t))
      BY <1>4, <2>1, FS_Subset
    <2>3. Cardinality(SampledKeys(r)) <= r.num_unique_samples
      BY <1>4, <1>5, <1>6, <1>8, <2>2
    <2> QED
      BY <1>2, <2>3 DEF Limited
  <1> QED
    BY <1>7, <1>8

\* A new item has not been sampled.
LEMMA InsertLimited ==
    ASSUME NEW t \in TableRecord, NEW k \in Keys, NEW p \in Priorities, Limited(t)
    PROVE  Limited(InsertItem(t, k, p))
  <1> DEFINE r == InsertItem(t, k, p)
             x == [priority |-> p, times_sampled |-> 0]
  <1>1. /\ r \in TableRecord /\ r.limiter = t.limiter
        /\ r.num_unique_samples = t.num_unique_samples
    BY InsertItemFacts, ZenonT(40)
  <1>2. r.data = [t.data EXCEPT ![k] = x]
    BY InsertItemData
  <1>3. x \in Item /\ x.times_sampled = 0
    BY DEF Item
  <1>4. MaxTimesSampled > 0 => x.times_sampled < MaxTimesSampled
    BY <1>3
  <1>5. /\ t.num_unique_samples \in Nat
        /\ t.num_unique_samples <= t.limiter.samples
    BY LimitNumbers DEF Limited
  <1> HIDE DEF r, x
  <1>6. /\ r.num_unique_samples >= t.num_unique_samples
        /\ r.num_unique_samples <= r.limiter.samples
    BY <1>1, <1>5
  <1>7. Limited(r)
    BY <1>1, <1>2, <1>3, <1>4, <1>6, ChangeLimited
  <1> QED
    BY <1>7 DEF r

\* A deleted item no longer counts.
LEMMA DeleteLimited ==
    ASSUME NEW t \in TableRecord, NEW k \in Keys, Limited(t)
    PROVE  Limited(DeleteItem(t, k))
  <1>1. CASE t.data[k] = None
    BY <1>1, DeleteItemMissing
  <1>2. CASE t.data[k] # None
    <2> DEFINE r == DeleteItem(t, k)
    <2>1. /\ r \in TableRecord
          /\ r.data = [t.data EXCEPT ![k] = None]
          /\ r.limiter = LimiterDelete(t.limiter)
          /\ r.num_unique_samples = t.num_unique_samples
      BY <1>2, DeleteItemData
    <2> HIDE DEF r
    <2>2. r.limiter.samples = t.limiter.samples
      BY <2>1, LimitNumbers DEF LimiterDelete, Limiter
    <2>3. /\ t.num_unique_samples \in Nat
          /\ t.num_unique_samples <= t.limiter.samples
      BY LimitNumbers DEF Limited
    <2>4. /\ r.num_unique_samples >= t.num_unique_samples
          /\ r.num_unique_samples <= r.limiter.samples
      BY <2>1, <2>2, <2>3
    <2>5. Limited(r)
      BY <2>1, <2>4, ChangeLimited
    <2> QED
      BY <2>5 DEF r
  <1> QED
    BY <1>1, <1>2

\* A new priority does not change how often an item was sampled.
LEMMA UpdateLimited ==
    ASSUME NEW t \in TableRecord, NEW k \in Keys, NEW p \in Priorities, Limited(t)
    PROVE  Limited(UpdateItem(t, k, p))
  <1>1. CASE t.data[k] = None
    BY <1>1 DEF UpdateItem
  <1>2. CASE t.data[k] # None
    <2> DEFINE r == UpdateItem(t, k, p)
               x == [priority |-> p, times_sampled |-> t.data[k].times_sampled]
    <2>1. /\ r.data = [t.data EXCEPT ![k] = x]
          /\ r.sampler = t.sampler \/ r.sampler = [t.sampler EXCEPT ![k] = p]
          /\ r.remover = t.remover \/ r.remover = [t.remover EXCEPT ![k] = p]
          /\ UpdateOk(t, k, p) => /\ r.sampler = [t.sampler EXCEPT ![k] = p]
                                  /\ r.remover = [t.remover EXCEPT ![k] = p]
      BY <1>2, UpdateItemFacts
    <2>2. /\ r \in TableRecord /\ r.limiter = t.limiter
          /\ r.num_unique_samples = t.num_unique_samples
      BY <1>2, UpdateItemFacts
    <2>3. k \in Present(t) /\ t.data[k].times_sampled \in Nat
      BY <1>2, LimitNumbers DEF Present
    <2>4. x \in Item /\ x.times_sampled = t.data[k].times_sampled
      BY <2>3 DEF Item
    <2>5. MaxTimesSampled > 0 => x.times_sampled < MaxTimesSampled
      BY <2>3, <2>4 DEF Limited
    <2>6. x.times_sampled = 0 \/ k \in SampledKeys(t)
      BY <2>3, <2>4 DEF SampledKeys
    <2>7. /\ t.num_unique_samples \in Nat
          /\ t.num_unique_samples <= t.limiter.samples
      BY LimitNumbers DEF Limited
    <2> HIDE DEF r, x
    <2>8. /\ r.num_unique_samples >= t.num_unique_samples
          /\ r.num_unique_samples <= r.limiter.samples
      BY <2>2, <2>7
    <2>9. Limited(r)
      BY <2>1, <2>2, <2>4, <2>5, <2>6, <2>8, ChangeLimited
    <2> QED
      BY <2>9 DEF r
  <1> QED
    BY <1>1, <1>2

\* A sample is counted; the item goes when it has been sampled often enough.
LEMMA SampleLimited ==
    ASSUME NEW t \in TableRecord, NEW k \in Keys, Held(t, k), Limited(t)
    PROVE  Limited(SampleItem(t, k))
  <1> DEFINE r == SampleItem(t, k)
             n == t.data[k].times_sampled + 1
             x == [priority |-> t.data[k].priority, times_sampled |-> n]
             m == IF t.data[k].times_sampled = 0 THEN t.num_unique_samples + 1
                  ELSE t.num_unique_samples
  <1>1. /\ r \in TableRecord
        /\ r.num_unique_samples = m
        /\ \/ /\ n # MaxTimesSampled
              /\ r.data = [t.data EXCEPT ![k] = x]
              /\ r.sampler = t.sampler
              /\ r.remover = t.remover
              /\ r.limiter = CommitSample(t.limiter)
           \/ /\ r.data = [t.data EXCEPT ![k] = None]
              /\ r.sampler = [t.sampler EXCEPT ![k] = None]
              /\ r.remover = [t.remover EXCEPT ![k] = None]
              /\ r.limiter = LimiterDelete(CommitSample(t.limiter))
    BY SampleItemFacts DEF Held
  <1>2. /\ k \in Present(t) /\ t.data[k] \in Item
        /\ t.data[k].times_sampled \in Nat
    BY LimitNumbers DEF Present, Held
  <1>3. x \in Item /\ x.times_sampled = n /\ n \in Nat
    BY <1>2 DEF Item
  <1>4. /\ t.num_unique_samples \in Nat /\ t.limiter.samples \in Nat
        /\ t.num_unique_samples <= t.limiter.samples /\ t.limiter \in Limiter
    BY LimitNumbers DEF Limited
  <1>5. \/ t.data[k].times_sampled = 0 /\ m = t.num_unique_samples + 1
        \/ k \in SampledKeys(t) /\ m = t.num_unique_samples
    BY <1>2 DEF SampledKeys
  <1>6. /\ CommitSample(t.limiter) \in Limiter
        /\ CommitSample(t.limiter).samples = t.limiter.samples + 1
    BY <1>4, LimiterType DEF CommitSample, Limiter
  <1>7. MaxTimesSampled > 0 => t.data[k].times_sampled < MaxTimesSampled
    BY <1>2 DEF Limited
  <1>8. MaxTimesSampled > 0 /\ n # MaxTimesSampled => n < MaxTimesSampled
    BY <1>2, <1>7, TableAssumption
  <1>9. m >= t.num_unique_samples /\ m <= t.limiter.samples + 1
    BY <1>4, <1>5
  <1> HIDE DEF r, n, x, m
  <1>10. CASE /\ n # MaxTimesSampled
              /\ r.data = [t.data EXCEPT ![k] = x]
              /\ r.limiter = CommitSample(t.limiter)
    <2>1. MaxTimesSampled > 0 => x.times_sampled < MaxTimesSampled
      BY <1>3, <1>8, <1>10
    <2>2. r.num_unique_samples <= r.limiter.samples
      BY <1>1, <1>6, <1>9, <1>10
    <2>3. Limited(r)
      BY <1>1, <1>3, <1>5, <1>9, <1>10, <2>1, <2>2, ChangeLimited
    <2> QED
      BY <2>3 DEF r
  <1>11. CASE /\ r.data = [t.data EXCEPT ![k] = None]
              /\ r.limiter = LimiterDelete(CommitSample(t.limiter))
    <2>1. r.limiter.samples = t.limiter.samples + 1
      BY <1>6, <1>11 DEF LimiterDelete, Limiter
    <2>2. r.num_unique_samples <= r.limiter.samples
      BY <1>1, <1>9, <2>1
    <2>3. Limited(r)
      BY <1>1, <1>9, <1>11, <2>2, ChangeLimited
    <2> QED
      BY <2>3 DEF r
  <1> QED
    BY <1>1, <1>10, <1>11

\* An empty table has nothing to count.
LEMMA EmptyLimited ==
    ASSUME NEW t \in TableRecord, \A k \in Keys : t.data[k] = None,
           t.limiter = ResetLimiter, t.num_unique_samples = 0
    PROVE  Limited(t)
  <1>1. Present(t) = {} /\ SampledKeys(t) = {}
    BY DEF Present, SampledKeys
  <1>2. Cardinality(SampledKeys(t)) = 0
    BY <1>1, FS_EmptySet
  <1>3. t.limiter.samples = 0
    BY DEF ResetLimiter
  <1> QED
    BY <1>1, <1>2, <1>3 DEF Limited

LEMMA LimitStep ==
    TypeInv /\ SamplesRespectLimit /\ [Next]_vars => SamplesRespectLimit'
  <1> SUFFICES ASSUME TypeInv, Limited(table), [Next]_vars
               PROVE  Limited(table')
    BY LimitMeaning
  <1>1. table \in TableRecord /\ Changed(table, table', Sound')
    BY TableSteps DEF TypeInv, TypeOK
  <1>2. CASE SameData(table, table')
    BY <1>2, SameLimited
  <1>3. ASSUME NEW k \in Keys, NEW p \in Priorities
        PROVE  /\ InsertItem(table, k, p) \in TableRecord
               /\ Limited(InsertItem(table, k, p))
               /\ Limited(RegisterInsert(InsertItem(table, k, p)))
    <2>1. InsertItem(table, k, p) \in TableRecord
      BY <1>1, InsertItemFacts
    <2>2. Limited(InsertItem(table, k, p))
      BY <1>1, InsertLimited
    <2> QED
      BY <2>1, <2>2, RegisterData, SameLimited
  <1>4. ASSUME NEW k \in Keys, NEW j \in Keys, NEW p \in Priorities
        PROVE  Limited(DeleteItem(InsertItem(table, k, p), j))
    BY <1>3, DeleteLimited
  <1>5. ASSUME NEW k \in Keys, NEW p \in Priorities
        PROVE  Limited(UpdateItem(table, k, p))
    BY <1>1, UpdateLimited
  <1>6. ASSUME NEW k \in Keys
        PROVE  /\ Limited(DeleteItem(table, k))
               /\ Held(table, k) => Limited(SampleItem(table, k))
    BY <1>1, DeleteLimited, SampleLimited
  <1>7. Limited(ClearTable(table))
    BY <1>1, ClearTableFacts, EmptyLimited
  <1> QED
    BY <1>1, <1>2, <1>3, <1>4, <1>5, <1>6, <1>7 DEF Changed

\* No item stays in the table, and so none is sampled again, once it has been
\* sampled max_times_sampled_ times, whatever inserts, evictions, updates and
\* deletes come in between; and num_unique_samples_ lies between the sampled
\* items still there and the samples that the limiter has committed
\* (SampleInternal, DeleteItem, UpdateItem, Reset).
THEOREM LimitSafety == Spec => []SamplesRespectLimit
  <1>1. Init => SamplesRespectLimit
    <2>1. Init => table = EmptyTable
      BY DEF Init
    <2>2. /\ \A k \in Keys : EmptyTable.data[k] = None
          /\ EmptyTable.limiter = ResetLimiter
          /\ EmptyTable.num_unique_samples = 0
      BY DEF EmptyTable
    <2>3. Limited(EmptyTable)
      BY <2>2, EmptyTableType, EmptyLimited
    <2> QED
      BY <2>1, <2>3, LimitMeaning
  <1> QED
    BY <1>1, TypeCorrect, LimitStep, PTL DEF Spec

-----------------------------------------------------------------------------
(* The chunks of each episode. *)

\* What EpisodeRefsExact says of a table.
RefsExact(t) ==
    \A e \in Episodes : t.episode_refs[e] = Cardinality(HeldChunks(t, e))

LEMMA RefsMeaning ==
    /\ EpisodeRefsExact <=> (Sound => RefsExact(table))
    /\ EpisodeRefsExact' <=> (Sound' => RefsExact(table'))
  BY DEF EpisodeRefsExact, RefsExact, HeldChunks, Present

\* An item holds as many chunks as ChunkCount says.
LEMMA ChunksCounted ==
    ASSUME NEW k \in Keys, NEW e \in Episodes
    PROVE  /\ IsFiniteSet(Chunks(k, e))
           /\ Cardinality(Chunks(k, e)) = ChunkCount[k][e]
           /\ ChunkCount[k][e] \in Nat
  <1> DEFINE c == ChunkCount[k][e]
             f == [n \in 1 .. c |-> <<k, n>>]
  <1>1. c \in Nat
    BY TableAssumption
  <1>2. IsFiniteSet(1 .. c) /\ Cardinality(1 .. c) = c
    <2> HIDE DEF c
    <2>1. 1 \in Int /\ c \in Int
      BY <1>1
    <2>2. /\ IsFiniteSet(1 .. c)
          /\ Cardinality(1 .. c) = IF 1 > c THEN 0 ELSE c - 1 + 1
      BY <2>1, FS_Interval
    <2> QED
      BY <1>1, <2>2
  <1>3. ExistsBijection(1 .. c, Chunks(k, e))
    <2>1. f \in [1 .. c -> Chunks(k, e)]
      BY DEF Chunks
    <2>2. \A m, n \in 1 .. c : f[m] = f[n] => m = n
      OBVIOUS
    <2>3. \A x \in Chunks(k, e) : \E n \in 1 .. c : f[n] = x
      BY DEF Chunks
    <2>4. f \in Bijection(1 .. c, Chunks(k, e))
      BY <2>1, <2>2, <2>3 DEF Bijection, Injection, Surjection, IsInjective
    <2> QED
      BY <2>4 DEF ExistsBijection
  <1> QED
    BY <1>1, <1>2, <1>3, FS_Bijection

LEMMA HeldChunksFinite ==
    ASSUME NEW t \in TableRecord, NEW e \in Episodes
    PROVE  /\ IsFiniteSet(HeldChunks(t, e))
           /\ Cardinality(HeldChunks(t, e)) \in Nat
  <1> DEFINE S == {Chunks(k, e) : k \in Present(t)}
             f == [k \in Present(t) |-> Chunks(k, e)]
  <1>1. IsFiniteSet(Present(t))
    BY SizeType
  <1>2. f \in Surjection(Present(t), S)
    BY DEF Surjection
  <1>4. IsFiniteSet(S)
    <2> HIDE DEF f, S
    <2> QED
      BY <1>1, <1>2, FS_Surjection
  <1>5. \A T \in S : IsFiniteSet(T)
    BY ChunksCounted DEF Present
  <1>6. IsFiniteSet(UNION S)
    BY <1>4, <1>5, FS_UNION
  <1> QED
    BY <1>6, FS_CardinalityType DEF HeldChunks

\* One more item.
LEMMA HeldChunksGrow ==
    ASSUME NEW t \in TableRecord, NEW r \in TableRecord, NEW k \in Keys,
           k \notin Present(t), Present(r) = Present(t) \cup {k},
           NEW e \in Episodes
    PROVE  Cardinality(HeldChunks(r, e))
              = Cardinality(HeldChunks(t, e)) + ChunkCount[k][e]
  <1>1. HeldChunks(r, e) = HeldChunks(t, e) \cup Chunks(k, e)
    BY DEF HeldChunks
  <1>2. HeldChunks(t, e) \cap Chunks(k, e) = {}
    BY DEF HeldChunks, Chunks
  <1>3. /\ IsFiniteSet(HeldChunks(t, e)) /\ IsFiniteSet(Chunks(k, e))
        /\ Cardinality(HeldChunks(t, e)) \in Nat
        /\ Cardinality(Chunks(k, e)) = ChunkCount[k][e]
        /\ ChunkCount[k][e] \in Nat
    BY HeldChunksFinite, ChunksCounted
  <1>4. Cardinality(HeldChunks(t, e) \cup Chunks(k, e)) =
            Cardinality(HeldChunks(t, e)) + Cardinality(Chunks(k, e))
            - Cardinality(HeldChunks(t, e) \cap Chunks(k, e))
    BY <1>3, FS_Union
  <1>5. Cardinality(HeldChunks(t, e) \cap Chunks(k, e)) = 0
    BY <1>2, FS_EmptySet
  <1> QED
    BY <1>1, <1>3, <1>4, <1>5

LEMMA SameRefs ==
    ASSUME NEW t, NEW r, RefsExact(t), Present(r) = Present(t),
           r.episode_refs = t.episode_refs
    PROVE  RefsExact(r)
  BY DEF RefsExact, HeldChunks

\* The references of an item come with it
LEMMA GrownRefs ==
    ASSUME NEW t \in TableRecord, NEW r \in TableRecord, NEW k \in Keys,
           k \notin Present(t), Present(r) = Present(t) \cup {k},
           r.episode_refs = AddEpisodeRefs(t.episode_refs, k), RefsExact(t)
    PROVE  RefsExact(r)
  <1> SUFFICES ASSUME NEW e \in Episodes
               PROVE  r.episode_refs[e] = Cardinality(HeldChunks(r, e))
    BY DEF RefsExact
  <1>1. r.episode_refs[e] = t.episode_refs[e] + ChunkCount[k][e]
    BY DEF AddEpisodeRefs
  <1>2. t.episode_refs[e] = Cardinality(HeldChunks(t, e))
    BY DEF RefsExact
  <1> QED
    BY <1>1, <1>2, HeldChunksGrow

\* and go with it.
LEMMA ShrunkRefs ==
    ASSUME NEW t \in TableRecord, NEW r \in TableRecord, NEW k \in Keys,
           k \in Present(t), Present(r) = Present(t) \ {k},
           r.episode_refs = DropEpisodeRefs(t.episode_refs, k), RefsExact(t)
    PROVE  RefsExact(r)
  <1> SUFFICES ASSUME NEW e \in Episodes
               PROVE  r.episode_refs[e] = Cardinality(HeldChunks(r, e))
    BY DEF RefsExact
  <1>1. r.episode_refs[e] = t.episode_refs[e] - ChunkCount[k][e]
    BY DEF DropEpisodeRefs
  <1>2. t.episode_refs[e] = Cardinality(HeldChunks(t, e))
    BY DEF RefsExact
  <1>3. Present(t) = Present(r) \cup {k} /\ k \notin Present(r)
    OBVIOUS
  <1>4. Cardinality(HeldChunks(t, e))
            = Cardinality(HeldChunks(r, e)) + ChunkCount[k][e]
    BY ONLY r \in TableRecord, t \in TableRecord, k \in Keys, e \in Episodes, <1>3,
            HeldChunksGrow
  <1>5. Cardinality(HeldChunks(r, e)) \in Nat /\ ChunkCount[k][e] \in Nat
    BY HeldChunksFinite, ChunksCounted
  <1> QED
    BY <1>1, <1>2, <1>4, <1>5

LEMMA InsertRefs ==
    ASSUME NEW t \in TableRecord, NEW k \in Keys, NEW p \in Priorities,
           t.data[k] = None, InsertOk(t, k, p), RefsExact(t)
    PROVE  RefsExact(InsertItem(t, k, p))
  <1> DEFINE r == InsertItem(t, k, p)
             x == [priority |-> p, times_sampled |-> 0]
             u == [t EXCEPT !.data[k] = x]
             refs == AddEpisodeRefs(u.episode_refs, k)
             w == [u EXCEPT !.sampler[k] = p, !.remover[k] = p,
                            !.episode_refs = refs]
  <1>1. r \in TableRecord
    BY InsertItemFacts
  <1>2. r.data = [t.data EXCEPT ![k] = x]
    BY InsertItemData
  <1>3. x \in Item
    BY DEF Item
  <1>4. r = ExtensionOperation(w, "insert", k)
    BY DEF InsertItem, InsertOk
  <1> HIDE DEF x
  <1>5. u \in TableRecord /\ u.episode_refs = t.episode_refs
    BY <1>3 DEF TableRecord
  <1> HIDE DEF u
  <1>6. refs \in [Episodes -> Int] /\ refs = AddEpisodeRefs(t.episode_refs, k)
    BY <1>5, EpisodeRefsType DEF TableRecord
  <1> HIDE DEF refs
  <1>7. w \in TableRecord /\ w.episode_refs = refs
    BY <1>5, <1>6 DEF TableRecord, Selector
  <1> HIDE DEF w
  <1>8. r.episode_refs = w.episode_refs
    <2>1. SameData(w, ExtensionOperation(w, "insert", k))
      BY <1>7, OperationData
    <2> QED
      BY <1>4, <2>1 DEF SameData
  <1> HIDE DEF r
  <1>9. Present(r) = Present(t) \cup {k} /\ k \notin Present(t)
    BY <1>2, <1>3, NoneIsNoItem DEF Present, TableRecord
  <1>10. RefsExact(r)
    BY <1>1, <1>6, <1>7, <1>8, <1>9, GrownRefs
  <1> QED
    BY <1>10 DEF r

LEMMA DeleteRefs ==
    ASSUME NEW t \in TableRecord, NEW k \in Keys, Held(t, k), RefsExact(t)
    PROVE  RefsExact(DeleteItem(t, k))
  <1> DEFINE r == DeleteItem(t, k)
             refs == DropEpisodeRefs(t.episode_refs, k)
             n == t.num_deleted_episodes
                    + Cardinality(LastRefs(t.episode_refs, k))
             l == LimiterDelete(t.limiter)
             u == [t EXCEPT !.data[k] = None, !.episode_refs = refs,
                            !.num_deleted_episodes = n, !.limiter = l]
             v == [u EXCEPT !.sampler[k] = None, !.remover[k] = None]
  <1>1. r \in TableRecord /\ r.data = [t.data EXCEPT ![k] = None]
    BY DeleteItemFacts DEF Held
  <1>2. r = ExtensionOperation(v, "delete", k)
    BY DEF DeleteItem, Held
  <1>3. refs \in [Episodes -> Int] /\ n \in Nat /\ l \in Limiter
    BY EpisodeRefsType, LimiterType DEF TableRecord
  <1> HIDE DEF refs, n, l
  <1>4. u \in TableRecord /\ u.episode_refs = refs
    BY <1>3 DEF TableRecord
  <1> HIDE DEF u
  <1>5. v \in TableRecord /\ v.episode_refs = u.episode_refs
    BY <1>4 DEF TableRecord, Selector
  <1> HIDE DEF v
  <1>6. r.episode_refs = v.episode_refs
    <2>1. SameData(v, ExtensionOperation(v, "delete", k))
      BY <1>5, OperationData
    <2> QED
      BY <1>2, <2>1 DEF SameData
  <1> HIDE DEF r
  <1>7. Present(r) = Present(t) \ {k} /\ k \in Present(t)
    BY <1>1 DEF Present, TableRecord, Held
  <1>8. RefsExact(r)
    BY <1>1, <1>4, <1>5, <1>6, <1>7, ShrunkRefs DEF refs
  <1> QED
    BY <1>8 DEF r

\* A new priority leaves the chunks alone.
LEMMA UpdateRefs ==
    ASSUME NEW t \in TableRecord, NEW k \in Keys, NEW p \in Priorities,
           RefsExact(t)
    PROVE  RefsExact(UpdateItem(t, k, p))
  <1> DEFINE r == UpdateItem(t, k, p)
             u == [t EXCEPT !.data[k].priority = p]
             v == [u EXCEPT !.sampler[k] = p]
             w == [u EXCEPT !.sampler[k] = p, !.remover[k] = p]
  <1>1. CASE t.data[k] = None
    BY <1>1 DEF UpdateItem
  <1>2. CASE t.data[k] # None
    <2>1. [t.data[k] EXCEPT !.priority = p] \in Item
      BY <1>2 DEF TableRecord, Item
    <2>2. /\ u \in TableRecord /\ u.episode_refs = t.episode_refs
          /\ Present(u) = Present(t)
      BY <1>2, <2>1, NoneIsNoItem DEF TableRecord, Present
    <2>3. r = u \/ r = v \/ r = ExtensionOperation(w, "update", k)
      BY <1>2 DEF UpdateItem
    <2> HIDE DEF u
    <2>4. /\ v.episode_refs = u.episode_refs /\ v.data = u.data
          /\ w.episode_refs = u.episode_refs /\ w.data = u.data
          /\ w \in TableRecord
      BY <2>2 DEF TableRecord, Selector
    <2> HIDE DEF v, w
    <2>5. SameData(w, ExtensionOperation(w, "update", k))
      BY <2>4, OperationData
    <2>6. r.episode_refs = u.episode_refs /\ r.data = u.data
      BY <2>3, <2>4, <2>5 DEF SameData
    <2> HIDE DEF r
    <2>7. Present(r) = Present(t) /\ r.episode_refs = t.episode_refs
      BY <2>2, <2>6, SizeOfSame
    <2>8. RefsExact(r)
      BY <2>7, SameRefs
    <2> QED
      BY <2>8 DEF r
  <1> QED
    BY <1>1, <1>2

\* A sample leaves the chunks alone, unless the item goes.
LEMMA SampleRefs ==
    ASSUME NEW t \in TableRecord, NEW k \in Keys, Held(t, k), RefsExact(t)
    PROVE  RefsExact(SampleItem(t, k))
  <1> DEFINE l == CommitSample(t.limiter)
             m == IF t.data[k].times_sampled = 0 THEN t.num_unique_samples + 1
                  ELSE t.num_unique_samples
             i == [priority |-> t.data[k].priority,
                   times_sampled |-> t.data[k].times_sampled + 1]
             u == [t EXCEPT !.limiter = l, !.num_unique_samples = m,
                            !.data[k] = i]
             v == ExtensionOperation(u, "sample", k)
  <1>1. l \in Limiter
    BY LimiterType DEF TableRecord
  <1>2. t.data[k] \in Item /\ t.data[k].times_sampled \in Nat
    BY DEF TableRecord, Item, Held
  <1>3. m \in Nat /\ i \in Item /\ i # None
    BY <1>2, NoneIsNoItem DEF TableRecord, Item
  <1>4. SampleItem(t, k) = v \/ SampleItem(t, k) = DeleteItem(v, k)
    <2>1. [t.data[k] EXCEPT !.times_sampled = @ + 1] = i
      BY <1>2 DEF Item
    <2>2. [t EXCEPT !.limiter = CommitSample(@),
                    !.num_unique_samples = IF t.data[k].times_sampled = 0
                                           THEN @ + 1 ELSE @,
                    !.data[k].times_sampled = @ + 1] = u
      BY <2>1
    <2> QED
      BY <2>2 DEF SampleItem
  <1> HIDE DEF l, m, i
  <1>5. /\ u \in TableRecord /\ u.data = [t.data EXCEPT ![k] = i]
        /\ u.sampler = t.sampler /\ u.remover = t.remover
        /\ u.episode_refs = t.episode_refs
    BY <1>1, <1>3 DEF TableRecord
  <1> HIDE DEF u
  <1>6. Present(u) = Present(t) /\ u.data[k] # None
    BY <1>3, <1>5 DEF Present, TableRecord, Held
  <1>7. /\ v \in TableRecord /\ v.data = u.data
        /\ v.sampler = u.sampler /\ v.remover = u.remover
    BY <1>5, ExtensionOperationFacts
  <1>8. v.episode_refs = u.episode_refs
    <2>1. SameData(u, v)
      BY <1>5, OperationData
    <2> QED
      BY <2>1 DEF SameData
  <1> HIDE DEF v
  <1>9. Present(v) = Present(t)
    BY <1>6, <1>7, SizeOfSame
  <1>10. RefsExact(v)
    BY <1>5, <1>8, <1>9, SameRefs
  <1>11. Held(v, k)
    BY <1>5, <1>6, <1>7 DEF Held
  <1>12. RefsExact(DeleteItem(v, k))
    BY <1>7, <1>10, <1>11, DeleteRefs
  <1> QED
    BY <1>4, <1>10, <1>12

\* An empty table holds no chunks.
LEMMA EmptyRefs ==
    ASSUME NEW t, \A k \in Keys : t.data[k] = None,
           \A e \in Episodes : t.episode_refs[e] = 0
    PROVE  RefsExact(t)
  <1> SUFFICES ASSUME NEW e \in Episodes
               PROVE  t.episode_refs[e] = Cardinality(HeldChunks(t, e))
    BY DEF RefsExact
  <1>1. HeldChunks(t, e) = {}
    BY DEF HeldChunks, Present
  <1> QED
    BY <1>1, FS_EmptySet

LEMMA ClearRefs ==
    ASSUME NEW t \in TableRecord
    PROVE  RefsExact(ClearTable(t))
  <1>1. ClearTable(t).episode_refs = EmptyTable.episode_refs
    BY DEF ClearTable, EmptyTable
  <1>2. \A e \in Episodes : ClearTable(t).episode_refs[e] = 0
    BY <1>1 DEF EmptyTable
  <1>3. \A k \in Keys : ClearTable(t).data[k] = None
    BY ClearTableFacts
  <1> QED
    BY <1>2, <1>3, EmptyRefs

LEMMA RefsStep ==
    TypeInv /\ EpisodeRefsExact /\ [Next]_vars => EpisodeRefsExact'
  <1> SUFFICES ASSUME TypeInv, EpisodeRefsExact, [Next]_vars, Sound'
               PROVE  RefsExact(table')
    BY RefsMeaning
  <1>1. table \in TableRecord /\ Changed(table, table', Sound') /\ Sound
    BY TableSteps DEF TypeInv, TypeOK
  <1>2. RefsExact(table)
    BY <1>1, RefsMeaning
  <1>3. CASE SameData(table, table')
    <2>1. Present(table') = Present(table)
          /\ table'.episode_refs = table.episode_refs
      BY <1>3 DEF SameData, Present
    <2> QED
      BY <1>2, <2>1, SameRefs
  <1>4. ASSUME NEW k \in Keys, NEW p \in Priorities,
               table.data[k] = None, InsertOk(table, k, p)
        PROVE  /\ InsertItem(table, k, p) \in TableRecord
               /\ RefsExact(InsertItem(table, k, p))
               /\ RefsExact(RegisterInsert(InsertItem(table, k, p)))
    <2> DEFINE t == InsertItem(table, k, p)
    <2>1. t \in TableRecord
      BY <1>1, InsertItemFacts
    <2>2. RefsExact(t)
      BY <1>1, <1>2, <1>4, InsertRefs
    <2> HIDE DEF t
    <2>3. SameData(t, RegisterInsert(t))
      BY <2>1, RegisterData
    <2>4. /\ Present(RegisterInsert(t)) = Present(t)
          /\ RegisterInsert(t).episode_refs = t.episode_refs
      BY <2>3 DEF SameData, Present
    <2>5. RefsExact(RegisterInsert(t))
      BY <2>2, <2>4, SameRefs
    <2> QED
      BY <2>1, <2>2, <2>5 DEF t
  <1>5. ASSUME NEW k \in Keys, NEW j \in Keys, NEW p \in Priorities,
               table.data[k] = None, InsertOk(table, k, p),
               Held(InsertItem(table, k, p), j)
        PROVE  RefsExact(DeleteItem(InsertItem(table, k, p), j))
    BY <1>4, <1>5, DeleteRefs
  <1>6. ASSUME NEW k \in Keys, NEW p \in Priorities
        PROVE  RefsExact(UpdateItem(table, k, p))
    BY <1>1, <1>2, UpdateRefs
  <1>7. ASSUME NEW k \in Keys, Held(table, k)
        PROVE  /\ RefsExact(SampleItem(table, k))
               /\ RefsExact(DeleteItem(table, k))
    BY <1>1, <1>2, <1>7, SampleRefs, DeleteRefs
  <1>8. ASSUME NEW k \in Keys, table.data[k] = None
        PROVE  RefsExact(DeleteItem(table, k))
    BY <1>2, <1>8, DeleteItemMissing
  <1>9. RefsExact(ClearTable(table))
    BY <1>1, ClearRefs
  <1> QED
    BY <1>1, <1>3, <1>4, <1>5, <1>6, <1>7, <1>8, <1>9 DEF Changed

\* episode_refs_ is exact in every reachable state, whatever inserts, evictions,
\* samples, deletes and resets interleave: for each episode it is the number of
\* chunks that the items in the table hold, so that DeleteItem always finds the
\* episode it looks for and an episode is counted as deleted with its last chunk
\* (InsertOrAssignInternal, DeleteItem, Reset).
THEOREM EpisodeSafety == Spec => []EpisodeRefsExact
  <1>1. Init => EpisodeRefsExact
    <2>1. Init => table = EmptyTable
      BY DEF Init
    <2>2. /\ \A k \in Keys : EmptyTable.data[k] = None
          /\ \A e \in Episodes : EmptyTable.episode_refs[e] = 0
      BY DEF EmptyTable
    <2>3. RefsExact(EmptyTable)
      BY <2>2, EmptyRefs
    <2> QED
      BY <2>1, <2>3, RefsMeaning
  <1> QED
    BY <1>1, TypeCorrect, RefsStep, PTL DEF Spec

-----------------------------------------------------------------------------
(* Part 3. Requests and items. *)

-----------------------------------------------------------------------------
(* Lists of requests. *)

\* No request of R occurs twice in the list q.
Distinct(q, R) ==
    \A m, n \in DOMAIN q : q[m] \in R /\ q[m] = q[n] => m = n

\* The lists a and b and the set c hold, between them, exactly the requests E
\* out of R, and each of them once.
InLine(R, a, b, c, E) ==
    /\ Distinct(a, R)
    /\ Distinct(b, R)
    /\ \A r \in R : ~(r \in Elements(a) /\ r \in Elements(b))
    /\ \A r \in c : r \in R /\ r \notin Elements(a) /\ r \notin Elements(b)
    /\ \A r \in R :
          r \in E <=> r \in Elements(a) \/ r \in Elements(b) \/ r \in c

\* An element of a list has a place in it.
LEMMA ElementsOfSeq ==
    ASSUME NEW S, NEW q \in Seq(S)
    PROVE  /\ Elements(q) \subseteq S
           /\ \A r : r \in Elements(q) <=> \E n \in 1 .. Len(q) : q[n] = r
  <1>1. DOMAIN q = 1 .. Len(q) /\ Len(q) \in Nat
    BY LenProperties
  <1>2. \A n \in 1 .. Len(q) : q[n] \in S
    BY ElementOfSeq
  <1> QED
    BY <1>1, <1>2 DEF Elements

LEMMA ElementsOfEmpty == Elements(<< >>) = {}
  <1>1. DOMAIN << >> = 1 .. 0
    BY EmptySeq, LenProperties
  <1> QED
    BY <1>1 DEF Elements

LEMMA DistinctEmpty == ASSUME NEW R PROVE Distinct(<< >>, R)
  <1>1. DOMAIN << >> = 1 .. 0
    BY EmptySeq, LenProperties
  <1> QED
    BY <1>1 DEF Distinct

\* Enqueueing.
LEMMA AppendElements ==
    ASSUME NEW S, NEW q \in Seq(S), NEW R, NEW r \in S,
           Distinct(q, R), r \notin Elements(q)
    PROVE  /\ Elements(Append(q, r)) = Elements(q) \cup {r}
           /\ Distinct(Append(q, r), R)
  <1> DEFINE a == Append(q, r)
  <1>1. /\ a \in Seq(S) /\ Len(a) = Len(q) + 1 /\ Len(q) \in Nat
        /\ \A i \in 1 .. Len(q) : a[i] = q[i]
        /\ a[Len(q) + 1] = r
    BY AppendProperties, LenProperties
  <1>2. DOMAIN a = 1 .. Len(q) + 1 /\ DOMAIN q = 1 .. Len(q)
    BY <1>1, LenProperties
  <1> HIDE DEF a
  <1>3. \A n \in 1 .. Len(q) + 1 : n \in 1 .. Len(q) \/ n = Len(q) + 1
    BY <1>1
  <1>4. \A n \in 1 .. Len(q) : a[n] # r
    BY <1>1, ElementsOfSeq
  <1>5. Distinct(a, R)
    BY <1>1, <1>2, <1>3, <1>4 DEF Distinct
  <1>6. 1 .. Len(q) \subseteq 1 .. Len(q) + 1 /\ Len(q) + 1 \in 1 .. Len(q) + 1
    BY <1>1
  <1>7. Elements(a) = Elements(q) \cup {r}
    BY <1>1, <1>2, <1>3, <1>6 DEF Elements
  <1> QED
    BY <1>5, <1>7 DEF a

\* The first request leaves the list.
LEMMA TailElements ==
    ASSUME NEW S, NEW q \in Seq(S), q # << >>, NEW R, Distinct(q, R)
    PROVE  /\ Elements(q) = Elements(Tail(q)) \cup {Head(q)}
           /\ Distinct(Tail(q), R)
           /\ Head(q) \in R => Head(q) \notin Elements(Tail(q))
  <1> DEFINE t == Tail(q)
  <1>1. /\ t \in Seq(S) /\ Len(t) = Len(q) - 1 /\ Len(q) \in Nat \ {0}
        /\ \A i \in 1 .. Len(t) : t[i] = q[i + 1]
    BY HeadTailProperties, EmptySeq
  <1>2. DOMAIN t = 1 .. Len(q) - 1 /\ DOMAIN q = 1 .. Len(q)
    BY <1>1, LenProperties
  <1>3. Head(q) = q[1]
    OBVIOUS
  <1> HIDE DEF t
  <1>4. \A n \in 1 .. Len(q) : n = 1 \/ (n - 1) \in 1 .. Len(q) - 1
    BY <1>1
  <1>5. \A n \in 1 .. Len(q) - 1 : n + 1 \in 1 .. Len(q) /\ t[n] = q[n + 1]
    BY <1>1
  <1>6. Distinct(t, R)
    <2> SUFFICES ASSUME NEW m \in DOMAIN t, NEW n \in DOMAIN t,
                        t[m] \in R, t[m] = t[n]
                 PROVE  m = n
      BY DEF Distinct
    <2>1. q[m + 1] \in R /\ q[m + 1] = q[n + 1]
          /\ m + 1 \in DOMAIN q /\ n + 1 \in DOMAIN q
      BY <1>2, <1>5
    <2>2. m + 1 = n + 1
      BY <2>1 DEF Distinct
    <2> QED
      BY <1>1, <1>2, <2>2
  <1>7. Elements(q) = Elements(t) \cup {q[1]}
    <2>1. ASSUME NEW r \in Elements(q) PROVE r \in Elements(t) \cup {q[1]}
      <3>1. PICK n \in 1 .. Len(q) : q[n] = r
        BY <1>2 DEF Elements
      <3>2. n # 1 => t[n - 1] = r /\ n - 1 \in DOMAIN t
        BY <1>2, <1>4, <1>5, <3>1
      <3> QED
        BY <3>1, <3>2 DEF Elements
    <2>2. ASSUME NEW r \in Elements(t) PROVE r \in Elements(q)
      <3>1. PICK n \in 1 .. Len(q) - 1 : t[n] = r
        BY <1>2 DEF Elements
      <3> QED
        BY <1>2, <1>5, <3>1 DEF Elements
    <2>3. q[1] \in Elements(q)
      BY <1>1, <1>2 DEF Elements
    <2> QED
      BY <2>1, <2>2, <2>3
  <1>8. q[1] \in R => q[1] \notin Elements(t)
    <2> SUFFICES ASSUME q[1] \in R, q[1] \in Elements(t) PROVE FALSE
      OBVIOUS
    <2>1. PICK n \in 1 .. Len(q) - 1 : t[n] = q[1]
      BY <1>2 DEF Elements
    <2>2. n + 1 \in DOMAIN q /\ 1 \in DOMAIN q /\ q[n + 1] = q[1]
      BY <1>1, <1>2, <1>5, <2>1
    <2>3. n + 1 = 1
      BY <2>2 DEF Distinct
    <2> QED
      BY <1>1, <2>3
  <1> QED
    BY <1>3, <1>6, <1>7, <1>8 DEF t

\* One list joins the end of another.
LEMMA ConcatElements ==
    ASSUME NEW S, NEW a \in Seq(S), NEW b \in Seq(S), NEW R,
           Distinct(a, R), Distinct(b, R),
           \A r \in R : ~(r \in Elements(a) /\ r \in Elements(b))
    PROVE  /\ Elements(a \o b) = Elements(a) \cup Elements(b)
           /\ Distinct(a \o b, R)
  <1> DEFINE c == a \o b
  <1>1. /\ c \in Seq(S) /\ Len(c) = Len(a) + Len(b)
        /\ Len(a) \in Nat /\ Len(b) \in Nat
        /\ \A i \in 1 .. Len(a) + Len(b) :
              c[i] = IF i <= Len(a) THEN a[i] ELSE b[i - Len(a)]
    BY ConcatProperties, LenProperties
  <1>2. /\ DOMAIN c = 1 .. Len(a) + Len(b)
        /\ DOMAIN a = 1 .. Len(a) /\ DOMAIN b = 1 .. Len(b)
    BY <1>1, LenProperties
  <1> HIDE DEF c
  <1>3. \A n \in DOMAIN c : \/ n \in DOMAIN a /\ c[n] = a[n]
                            \/ n - Len(a) \in DOMAIN b /\ c[n] = b[n - Len(a)]
    BY <1>1, <1>2
  <1>4. \A n \in DOMAIN a : n \in DOMAIN c /\ c[n] = a[n]
    BY <1>1, <1>2
  <1>5. \A n \in DOMAIN b : n + Len(a) \in DOMAIN c /\ c[n + Len(a)] = b[n]
    BY <1>1, <1>2
  <1>6. Elements(c) = Elements(a) \cup Elements(b)
    BY <1>3, <1>4, <1>5 DEF Elements
  <1>7. \A m \in DOMAIN a, n \in DOMAIN b : a[m] \in R => a[m] # b[n]
    BY DEF Elements
  <1>8. Distinct(c, R)
    <2> SUFFICES ASSUME NEW m \in DOMAIN c, NEW n \in DOMAIN c,
                        c[m] \in R, c[m] = c[n]
                 PROVE  m = n
      BY DEF Distinct
    <2>1. CASE m \in DOMAIN a /\ c[m] = a[m] /\ n \in DOMAIN a /\ c[n] = a[n]
      BY <2>1 DEF Distinct
    <2>2. CASE /\ m - Len(a) \in DOMAIN b /\ c[m] = b[m - Len(a)]
               /\ n - Len(a) \in DOMAIN b /\ c[n] = b[n - Len(a)]
      <3>1. m - Len(a) = n - Len(a)
        BY <2>2 DEF Distinct
      <3> QED
        BY <1>1, <1>2, <3>1
    <2> QED
      BY <1>3, <1>7, <2>1, <2>2
  <1> QED
    BY <1>6, <1>8 DEF c

\* Skipping nullptrs at the front of a list loses no request.
LEMMA SkipTerminatedElements ==
    ASSUME NEW q \in Seq(SampleRequests \cup {None}),
           Distinct(q, SampleRequests)
    PROVE  /\ \A s \in SampleRequests :
                 s \in Elements(SkipTerminated(q)) <=> s \in Elements(q)
           /\ Distinct(SkipTerminated(q), SampleRequests)
  <1> DEFINE live == {n \in DOMAIN q : q[n] # None}
             first == CHOOSE n \in live : \A m \in live : n <= m
             rest == SubSeq(q, first, Len(q))
  <1>0. None \notin SampleRequests
    BY ThreadAssumption
  <1>1. DOMAIN q = 1 .. Len(q) /\ Len(q) \in Nat
    BY LenProperties
  <1>2. CASE live = {}
    <2>1. SkipTerminated(q) = << >>
      BY <1>2 DEF SkipTerminated
    <2>2. \A s \in SampleRequests : s \notin Elements(q)
      BY <1>0, <1>2 DEF Elements
    <2> QED
      BY <2>1, <2>2, ElementsOfEmpty, DistinctEmpty
  <1>3. CASE live # {}
    <2>1. SkipTerminated(q) = rest
      BY <1>3 DEF SkipTerminated
    <2>2. live \in SUBSET Nat
      BY <1>1
    <2>3. first \in live /\ \A m \in live : first <= m
      BY <1>3, <2>2, LeastElement
    <2>4. first \in 1 .. Len(q)
      BY <1>1, <2>3
    <2>5. \A n \in 1 .. Len(q) : q[n] \in SampleRequests => first <= n
      BY <1>0, <1>1, <2>3
    <2> HIDE DEF first
    <2>6. \A i \in first .. Len(q) : q[i] \in SampleRequests \cup {None}
      BY <1>1, <2>4, ElementOfSeq
    <2>7. /\ rest \in Seq(SampleRequests \cup {None})
          /\ Len(rest) = Len(q) - first + 1
          /\ \A i \in 1 .. Len(q) - first + 1 : rest[i] = q[first + i - 1]
      BY <1>1, <2>4, <2>6, SubSeqProperties
    <2>8. DOMAIN rest = 1 .. Len(q) - first + 1
      BY <2>7, LenProperties
    <2> HIDE DEF rest
    <2>9. \A i \in DOMAIN rest :
             first + i - 1 \in DOMAIN q /\ rest[i] = q[first + i - 1]
      BY <1>1, <2>4, <2>7, <2>8, SMTT(30)
    <2>10. ASSUME NEW s \in SampleRequests, s \in Elements(q)
           PROVE  s \in Elements(rest)
      <3>1. PICK n \in 1 .. Len(q) : q[n] = s
        BY <1>1, <2>10 DEF Elements
      <3>2. n - first + 1 \in 1 .. Len(q) - first + 1
            /\ first + (n - first + 1) - 1 = n
        BY <1>1, <2>4, <2>5, <3>1
      <3>3. rest[n - first + 1] = s
        BY <2>7, <3>1, <3>2
      <3> QED
        BY <2>8, <3>2, <3>3 DEF Elements
    <2>11. \A s : s \in Elements(rest) => s \in Elements(q)
      BY <2>9 DEF Elements
    <2>12. Distinct(rest, SampleRequests)
      <3> SUFFICES ASSUME NEW m \in DOMAIN rest, NEW n \in DOMAIN rest,
                          rest[m] \in SampleRequests, rest[m] = rest[n]
                   PROVE  m = n
        BY DEF Distinct
      <3>1. first + m - 1 = first + n - 1
        BY <2>9 DEF Distinct
      <3> QED
        BY <1>1, <2>4, <2>8, <3>1
    <2> QED
      BY <2>1, <2>10, <2>11, <2>12
  <1> QED
    BY <1>2, <1>3

\* Moving expired requests out of a list takes these and no others.
LEMMA WithoutExpiredElements ==
    ASSUME NEW q \in Seq(SampleRequests \cup {None}),
           Distinct(q, SampleRequests)
    PROVE  /\ \A s \in SampleRequests :
                 s \in Elements(WithoutExpired(q)) <=>
                    s \in Elements(q) /\ s \notin Expired
           /\ Distinct(WithoutExpired(q), SampleRequests)
  <1>0. None \notin SampleRequests
    BY ThreadAssumption
  <1>1. /\ DOMAIN WithoutExpired(q) = DOMAIN q
        /\ \A n \in DOMAIN q :
              WithoutExpired(q)[n] = IF q[n] \in Expired THEN None ELSE q[n]
    BY DEF WithoutExpired
  <1>2. Distinct(WithoutExpired(q), SampleRequests)
    BY <1>0, <1>1 DEF Distinct
  <1>3. ASSUME NEW s \in SampleRequests
        PROVE  s \in Elements(WithoutExpired(q)) <=>
                    s \in Elements(q) /\ s \notin Expired
    BY <1>0, <1>1 DEF Elements
  <1> QED
    BY <1>2, <1>3

\* A request occurs as often in a list without repetitions as it is an element.
LEMMA OccurrencesDistinct ==
    ASSUME NEW S, NEW q \in Seq(S), NEW R, Distinct(q, R), NEW r \in R
    PROVE  Occurrences(q, r) = IF r \in Elements(q) THEN 1 ELSE 0
  <1> DEFINE places == {n \in DOMAIN q : q[n] = r}
  <1>1. CASE r \in Elements(q)
    <2>1. PICK n \in DOMAIN q : q[n] = r
      BY <1>1 DEF Elements
    <2>2. places = {n}
      BY <2>1 DEF Distinct
    <2>3. Cardinality({n}) = 1
      BY FS_Singleton
    <2> QED
      BY <1>1, <2>2, <2>3 DEF Occurrences
  <1>2. CASE r \notin Elements(q)
    <2>1. places = {}
      BY <1>2 DEF Elements
    <2> QED
      BY <1>2, <2>1, FS_EmptySet DEF Occurrences
  <1> QED
    BY <1>1, <1>2

-----------------------------------------------------------------------------
(* Requests move between the lists. *)

\* InLine is what RequestsInOnePlace counts.
LEMMA InLineCounts ==
    ASSUME NEW S, NEW a \in Seq(S), NEW b \in Seq(S), NEW R, NEW c, NEW E,
           InLine(R, a, b, c, E), NEW r \in R
    PROVE  Occurrences(a, r) + Occurrences(b, r) + (IF r \in c THEN 1 ELSE 0)
              = IF r \in E THEN 1 ELSE 0
  <1>1. /\ Occurrences(a, r) = IF r \in Elements(a) THEN 1 ELSE 0
        /\ Occurrences(b, r) = IF r \in Elements(b) THEN 1 ELSE 0
    BY OccurrencesDistinct DEF InLine
  <1> QED
    BY <1>1 DEF InLine

\* A client enqueues a request.
LEMMA InLineAppend ==
    ASSUME NEW S, NEW a \in Seq(S), NEW b, NEW R, NEW c, NEW E,
           InLine(R, a, b, c, E), NEW r \in R, r \in S, r \notin E
    PROVE  InLine(R, Append(a, r), b, c, E \cup {r})
  <1>1. r \notin Elements(a) /\ r \notin Elements(b) /\ r \notin c
    BY DEF InLine
  <1>2. /\ Elements(Append(a, r)) = Elements(a) \cup {r}
        /\ Distinct(Append(a, r), R)
    BY <1>1, AppendElements DEF InLine
  <1> QED
    BY <1>1, <1>2 DEF InLine

\* The worker takes over the queue when its own list is empty.
LEMMA InLineTake ==
    ASSUME NEW a, NEW R, NEW c, NEW E, InLine(R, a, << >>, c, E)
    PROVE  InLine(R, << >>, a, c, E)
  BY DistinctEmpty, ElementsOfEmpty DEF InLine

\* The worker is done with the first request of its list.
LEMMA InLineTail ==
    ASSUME NEW S, NEW a, NEW b \in Seq(S), b # << >>, NEW R, NEW c, NEW E,
           InLine(R, a, b, c, E), Head(b) \in R
    PROVE  /\ InLine(R, a, Tail(b), c, E \ {Head(b)})
           /\ Head(b) \in E
  <1>1. /\ Elements(b) = Elements(Tail(b)) \cup {Head(b)}
        /\ Distinct(Tail(b), R)
        /\ Head(b) \notin Elements(Tail(b))
    BY TailElements DEF InLine
  <1> QED
    BY <1>1 DEF InLine

\* The queue joins the worker's list when the loop has ended.
LEMMA InLineJoin ==
    ASSUME NEW S, NEW a \in Seq(S), NEW b \in Seq(S), NEW R, NEW c, NEW E,
           InLine(R, a, b, c, E)
    PROVE  InLine(R, << >>, b \o a, c, E)
  <1>1. /\ Elements(b \o a) = Elements(b) \cup Elements(a)
        /\ Distinct(b \o a, R)
    BY ConcatElements DEF InLine
  <1> QED
    BY <1>1, DistinctEmpty, ElementsOfEmpty DEF InLine

\* The worker answers all the requests of its list.
LEMMA InLineClear ==
    ASSUME NEW a, NEW b, NEW R, NEW c, NEW E, InLine(R, a, b, c, E)
    PROVE  InLine(R, a, << >>, c, E \ Elements(b))
  BY DistinctEmpty, ElementsOfEmpty DEF InLine

\* The worker answers the requests it has put aside.
LEMMA InLineTerminate ==
    ASSUME NEW a, NEW b, NEW R, NEW c, NEW E, InLine(R, a, b, c, E)
    PROVE  InLine(R, a, b, {}, E \ c)
  BY DEF InLine

\* The worker skips nullptrs.
LEMMA InLineSkip ==
    ASSUME NEW a, NEW b \in Seq(SampleRequests \cup {None}), NEW c, NEW E,
           InLine(SampleRequests, a, b, c, E)
    PROVE  InLine(SampleRequests, a, SkipTerminated(b), c, E)
  <1>1. /\ \A s \in SampleRequests :
              s \in Elements(SkipTerminated(b)) <=> s \in Elements(b)
        /\ Distinct(SkipTerminated(b), SampleRequests)
    BY SkipTerminatedElements DEF InLine
  <1> QED
    BY <1>1 DEF InLine

\* The worker puts expired requests aside.
LEMMA InLineExpire ==
    ASSUME NEW a \in Seq(SampleRequests \cup {None}),
           NEW b \in Seq(SampleRequests \cup {None}), NEW E,
           InLine(SampleRequests, a, b, {}, E),
           \A s \in Expired : /\ s \in SampleRequests
                              /\ s \in Elements(a) \/ s \in Elements(b)
    PROVE  InLine(SampleRequests, WithoutExpired(a), WithoutExpired(b),
                  Expired, E)
  <1>1. /\ \A s \in SampleRequests : s \in Elements(WithoutExpired(a)) <=>
              s \in Elements(a) /\ s \notin Expired
        /\ \A s \in SampleRequests : s \in Elements(WithoutExpired(b)) <=>
              s \in Elements(b) /\ s \notin Expired
        /\ Distinct(WithoutExpired(a), SampleRequests)
        /\ Distinct(WithoutExpired(b), SampleRequests)
    BY WithoutExpiredElements DEF InLine
  <1> QED
    BY <1>1 DEF InLine

-----------------------------------------------------------------------------
(* The invariant. *)

EnqueuedInserts == {i \in InsertRequests : inserts[i].state = "enqueued"}
EnqueuedSamples == {s \in SampleRequests : samples[s].state = "enqueued"}

\* Requests are in one place.
InsertsInLine ==
    InLine(InsertRequests, queue.inserts, worker.inserts, {}, EnqueuedInserts)

SamplesInLine ==
    /\ InLine(SampleRequests, queue.sampling, worker.sampling,
              worker.terminate, EnqueuedSamples)
    /\ worker.pc # "terminate" => worker.terminate = {}

\* A request in line has room for more samples, except the one the worker has
\* just sampled for.
BatchesFit ==
    /\ \A s \in SampleRequests :
          /\ samples[s].state = "new" => samples[s].got = 0
          /\ samples[s].state = "enqueued" =>
                \/ samples[s].got < BatchSize[s]
                \/ /\ samples[s].got = BatchSize[s]
                   /\ worker.pc = "sampled"
                   /\ s = Head(worker.sampling)
    /\ worker.pc = "sampled" => samples[Head(worker.sampling)].got > 0

\* The request in line is not a nullptr when the inner loop has ended.
HeadIsRequest ==
    worker.pc = "serve" /\ worker.sampling # << >> =>
        Head(worker.sampling) \in SampleRequests

\* While rate_limited is set, the requests of the batch have waited.
BatchHasSlept ==
    worker.rate_limited /\ worker.pc # "cancel" =>
        \A s \in SampleRequests :
            s \in Elements(worker.sampling) => samples[s].slept

RequestInv ==
    /\ InsertsInLine
    /\ SamplesInLine
    /\ BatchesFit
    /\ AnswersMatchSamples
    /\ HeadIsRequest
    /\ BatchHasSlept
    /\ RateLimitedIsTrue

LEMMA InitRequests == Init => RequestInv
  <1> SUFFICES ASSUME Init PROVE RequestInv
    OBVIOUS
  <1>1. /\ worker.inserts = << >> /\ worker.sampling = << >>
        /\ worker.terminate = {} /\ worker.pc = "insert"
        /\ ~worker.rate_limited
        /\ queue.inserts = << >> /\ queue.sampling = << >>
    BY DEF Init
  <1>2. \A i \in InsertRequests : inserts[i].state = "new"
    BY DEF Init
  <1>3. \A s \in SampleRequests :
            /\ samples[s].state = "new" /\ samples[s].got = 0
            /\ ~samples[s].flagged
    BY DEF Init
  <1>4. InsertsInLine
    BY <1>1, <1>2, ElementsOfEmpty, DistinctEmpty
       DEF InsertsInLine, EnqueuedInserts, InLine
  <1>5. SamplesInLine
    BY <1>1, <1>3, ElementsOfEmpty, DistinctEmpty
       DEF SamplesInLine, EnqueuedSamples, InLine
  <1> QED
    BY <1>1, <1>3, <1>4, <1>5
       DEF RequestInv, BatchesFit, AnswersMatchSamples, HeadIsRequest,
           BatchHasSlept, RateLimitedIsTrue

\* A step that moves no request and answers none.
LEMMA RequestsUnchanged ==
    ASSUME RequestInv,
           queue'.inserts = queue.inserts,
           queue'.sampling = queue.sampling,
           worker'.inserts = worker.inserts,
           worker'.sampling = worker.sampling,
           worker'.terminate = worker.terminate,
           worker'.rate_limited = worker.rate_limited,
           \/ worker'.pc = worker.pc
           \/ /\ worker.pc \notin {"sampled", "terminate", "cancel"}
              /\ worker'.pc \notin {"sampled", "serve"},
           \A i \in InsertRequests : inserts'[i].state = inserts[i].state,
           \A s \in SampleRequests :
                /\ samples'[s].state = samples[s].state
                /\ samples'[s].got = samples[s].got
                /\ samples'[s].slept = samples[s].slept
                /\ samples'[s].flagged = samples[s].flagged,
           worker.pc = "sampled" => Head(worker.sampling) \in SampleRequests
    PROVE  RequestInv'
  <1>1. EnqueuedInserts' = EnqueuedInserts /\ EnqueuedSamples' = EnqueuedSamples
    BY DEF EnqueuedInserts, EnqueuedSamples
  <1>2. InsertsInLine' /\ SamplesInLine'
    BY <1>1 DEF RequestInv, InsertsInLine, SamplesInLine
  <1>3. BatchesFit' /\ AnswersMatchSamples'
    BY DEF RequestInv, BatchesFit, AnswersMatchSamples
  <1>4. HeadIsRequest' /\ BatchHasSlept' /\ RateLimitedIsTrue'
    BY DEF RequestInv, HeadIsRequest, BatchHasSlept, RateLimitedIsTrue
  <1> QED
    BY <1>2, <1>3, <1>4 DEF RequestInv

\* The steps of the worker that leave the requests where they are.
LEMMA WorkerQuietRequests ==
    ASSUME TypeInv, RequestInv,
           \/ WorkerSkipInsert \/ WorkerInsert \/ WorkerAssign
           \/ WorkerEvicted \/ WorkerUpdated \/ WorkerStops
           \/ WorkerWakesOnDeadline \/ WaitAgain("worker")
    PROVE  RequestInv'
  <1>1. /\ worker \in WorkerRecord
        /\ worker.pc = "sampled" => Head(worker.sampling) \in SampleRequests
    BY DEF TypeInv, TypeOK, WorkerHolds
  <1>2. UNCHANGED <<queue, inserts, samples>>
    BY DEF WorkerSkipInsert, WorkerInsert, WorkerAssign, WorkerEvicted,
           WorkerUpdated, WorkerStops, WorkerWakesOnDeadline, WaitAgain
  <1>3. \/ worker' = worker
        \/ /\ worker.pc \in {"insert", "evicted", "updated", "serve", "asleep"}
           /\ \E pc \in {"sample", "failed", "registered", "evicted", "updated",
                         "drain", "insert"} :
                 worker' = [worker EXCEPT !.pc = pc]
    <2>1. CASE WorkerSkipInsert
      BY <2>1 DEF WorkerSkipInsert
    <2>2. CASE WorkerInsert
      BY <2>2 DEF WorkerInsert
    <2>3. CASE WorkerAssign
      BY <2>3 DEF WorkerAssign
    <2>4. CASE WorkerEvicted
      BY <2>4 DEF WorkerEvicted
    <2>5. CASE WorkerUpdated
      BY <2>5 DEF WorkerUpdated
    <2>6. CASE WorkerStops
      BY <2>6 DEF WorkerStops
    <2>7. CASE WorkerWakesOnDeadline
      BY <2>7 DEF WorkerWakesOnDeadline
    <2>8. CASE WaitAgain("worker")
      BY <2>8 DEF WaitAgain
    <2> QED
      BY <2>1, <2>2, <2>3, <2>4, <2>5, <2>6, <2>7, <2>8
  <1>4. /\ worker'.inserts = worker.inserts
        /\ worker'.sampling = worker.sampling
        /\ worker'.terminate = worker.terminate
        /\ worker'.rate_limited = worker.rate_limited
        /\ \/ worker'.pc = worker.pc
           \/ /\ worker.pc \notin {"sampled", "terminate", "cancel"}
              /\ worker'.pc \notin {"sampled", "serve"}
    BY <1>1, <1>3 DEF WorkerRecord
  <1> QED
    BY <1>1, <1>2, <1>4, RequestsUnchanged

\* The extension worker and the other calls of clients do not touch requests:
\* at most they wake the worker.
LEMMA OthersQuietRequests ==
    ASSUME TypeInv, RequestInv,
           UNCHANGED <<inserts, samples>>,
           queue'.inserts = queue.inserts, queue'.sampling = queue.sampling,
           SignalWorker \/ UNCHANGED worker
    PROVE  RequestInv'
  <1>1. /\ worker \in WorkerRecord
        /\ worker.pc = "sampled" => Head(worker.sampling) \in SampleRequests
    BY DEF TypeInv, TypeOK, WorkerHolds
  <1>2. /\ worker'.inserts = worker.inserts
        /\ worker'.sampling = worker.sampling
        /\ worker'.terminate = worker.terminate
        /\ worker'.rate_limited = worker.rate_limited
        /\ worker'.pc = worker.pc \/ (worker.pc = "asleep" /\ worker'.pc = "insert")
    BY <1>1 DEF SignalWorker, WorkerRecord
  <1> QED
    BY <1>1, <1>2, RequestsUnchanged

LEMMA ExtensionQuiet ==
    ASSUME ExtensionWorker
    PROVE  UNCHANGED <<inserts, samples, queue, worker>>
  BY DEF ExtensionWorker, ExtensionStarts, ExtensionHandsOff, ExtensionSleeps,
         ExtensionFetches, ExtensionProcesses

LEMMA ClientQuiet ==
    ASSUME TypeInv, NEW c \in Clients, StartCall(c) \/ ClientStep(c)
    PROVE  /\ UNCHANGED <<inserts, samples>>
           /\ queue'.inserts = queue.inserts /\ queue'.sampling = queue.sampling
           /\ SignalWorker \/ UNCHANGED worker
  <1>1. queue \in QueueRecord
    BY DEF TypeInv, TypeOK
  <1>2. CASE StartCall(c)
    BY <1>2 DEF StartCall
  <1>3. CASE MutateItem(c)
    BY <1>3 DEF MutateItem
  <1>4. CASE MutateResumes(c) \/ MutateUnlocks(c) \/ MutateSignals(c)
    BY <1>4 DEF MutateResumes, MutateUnlocks, MutateSignals
  <1>5. CASE Reset(c) \/ ResetSignals(c)
    BY <1>5 DEF Reset, ResetSignals
  <1>6. CASE Close(c)
    BY <1>1, <1>6 DEF Close, QueueRecord
  <1>7. CASE DestroyStopsExtension(c) \/ DestroyJoins(c) \/ WaitAgain(c)
    BY <1>7 DEF DestroyStopsExtension, DestroyJoins, WaitAgain
  <1> QED
    BY <1>2, <1>3, <1>4, <1>5, <1>6, <1>7 DEF ClientStep

\* Clients enqueue requests; deadlines and timeouts pass.
LEMMA EnqueueRequests ==
    ASSUME TypeInv, RequestInv,
           \/ \E i \in InsertRequests :
                 InsertOrAssignAsync(i) \/ InsertOrAssignTimesOut(i)
           \/ \E s \in SampleRequests : EnqueSampleRequest(s) \/ DeadlinePasses(s)
    PROVE  RequestInv'
  <1>1. /\ worker \in WorkerRecord /\ queue \in QueueRecord
        /\ queue.inserts \in Seq(InsertRequests)
        /\ queue.sampling \in Seq(SampleRequests \cup {None})
        /\ inserts \in [InsertRequests -> InsertRecord]
        /\ samples \in [SampleRequests -> SampleRecord]
        /\ worker.pc = "sampled" => Head(worker.sampling) \in SampleRequests
    BY DEF TypeInv, TypeOK, WorkerHolds, QueueRecord
  <1>2. ASSUME SignalWorker \/ UNCHANGED worker
        PROVE  /\ worker'.inserts = worker.inserts
               /\ worker'.sampling = worker.sampling
               /\ worker'.terminate = worker.terminate
               /\ worker'.rate_limited = worker.rate_limited
               /\ \/ worker'.pc = worker.pc
                  \/ worker.pc = "asleep" /\ worker'.pc = "insert"
    BY <1>1, <1>2 DEF SignalWorker, WorkerRecord
  <1>3. ASSUME NEW i \in InsertRequests, InsertOrAssignAsync(i)
        PROVE  RequestInv'
    <2>1. /\ samples' = samples
          /\ SignalWorker \/ UNCHANGED worker
          /\ inserts[i].state = "new"
      BY <1>3 DEF InsertOrAssignAsync
    <2>2. /\ BatchesFit' /\ AnswersMatchSamples' /\ HeadIsRequest'
          /\ BatchHasSlept' /\ RateLimitedIsTrue'
      BY <1>2, <2>1
         DEF RequestInv, BatchesFit, AnswersMatchSamples, HeadIsRequest,
             BatchHasSlept, RateLimitedIsTrue
    <2>3. queue'.sampling = queue.sampling
      BY <1>1, <1>3 DEF InsertOrAssignAsync, QueueRecord
    <2>4. SamplesInLine'
      BY <1>2, <2>1, <2>3 DEF RequestInv, SamplesInLine, EnqueuedSamples
    <2>5. InsertsInLine'
      <3>1. CASE /\ inserts' = [inserts EXCEPT ![i].state = "refused"]
                 /\ UNCHANGED <<queue, worker>>
        <4>1. EnqueuedInserts' = EnqueuedInserts
          BY <1>1, <2>1, <3>1 DEF EnqueuedInserts, InsertRecord
        <4> QED
          BY <3>1, <4>1 DEF RequestInv, InsertsInLine
      <3>2. CASE /\ inserts' = [inserts EXCEPT ![i].state = "enqueued"]
                 /\ queue' = [queue EXCEPT !.inserts = Append(@, i)]
        <4>1. /\ EnqueuedInserts' = EnqueuedInserts \cup {i}
              /\ i \notin EnqueuedInserts
          BY <1>1, <2>1, <3>2 DEF EnqueuedInserts, InsertRecord
        <4>2. queue'.inserts = Append(queue.inserts, i)
          BY <1>1, <3>2 DEF QueueRecord
        <4>3. InLine(InsertRequests, Append(queue.inserts, i), worker.inserts,
                     {}, EnqueuedInserts \cup {i})
          BY <1>1, <4>1, InLineAppend DEF RequestInv, InsertsInLine
        <4> QED
          BY <1>2, <2>1, <4>1, <4>2, <4>3 DEF InsertsInLine
      <3> QED
        BY <1>3, <3>1, <3>2 DEF InsertOrAssignAsync
    <2> QED
      BY <2>2, <2>4, <2>5 DEF RequestInv
  <1>4. ASSUME NEW i \in InsertRequests, InsertOrAssignTimesOut(i)
        PROVE  RequestInv'
    <2>1. \A j \in InsertRequests : inserts'[j].state = inserts[j].state
      BY <1>1, <1>4 DEF InsertOrAssignTimesOut, InsertRecord
    <2>2. UNCHANGED <<queue, worker, samples>>
      BY <1>4 DEF InsertOrAssignTimesOut
    <2> QED
      BY <1>1, <2>1, <2>2, RequestsUnchanged
  <1>5. ASSUME NEW s \in SampleRequests, EnqueSampleRequest(s)
        PROVE  RequestInv'
    <2>1. /\ inserts' = inserts
          /\ SignalWorker \/ UNCHANGED worker
          /\ samples[s].state = "new"
          /\ \/ /\ samples' = [samples EXCEPT ![s].state = "cancelled"]
                /\ UNCHANGED <<queue, worker>>
             \/ /\ samples' = [samples EXCEPT ![s].state = "enqueued"]
                /\ queue' = [queue EXCEPT !.sampling = Append(@, s)]
      BY <1>5 DEF EnqueSampleRequest
    <2>2. /\ \A r \in SampleRequests \ {s} : samples'[r] = samples[r]
          /\ samples'[s].state \in {"cancelled", "enqueued"}
          /\ samples'[s].got = samples[s].got
          /\ samples'[s].slept = samples[s].slept
          /\ samples'[s].flagged = samples[s].flagged
      BY <1>1, <2>1 DEF SampleRecord
    <2>3. samples[s].got = 0 /\ 0 < BatchSize[s]
      BY <2>1, ThreadAssumption DEF RequestInv, BatchesFit
    <2>4. worker.pc = "sampled" => samples'[Head(worker.sampling)].got =
                                      samples[Head(worker.sampling)].got
      BY <1>1, <2>2
    <2>5. BatchesFit' /\ AnswersMatchSamples'
      BY <1>2, <2>1, <2>2, <2>3, <2>4
         DEF RequestInv, BatchesFit, AnswersMatchSamples
    <2>6. HeadIsRequest' /\ BatchHasSlept' /\ RateLimitedIsTrue'
      BY <1>2, <2>1, <2>2
         DEF RequestInv, HeadIsRequest, BatchHasSlept, RateLimitedIsTrue
    <2>7. queue'.inserts = queue.inserts
      BY <1>1, <2>1 DEF QueueRecord
    <2>8. InsertsInLine'
      BY <1>2, <2>1, <2>7 DEF RequestInv, InsertsInLine, EnqueuedInserts
    <2>9. SamplesInLine'
      <3>1. CASE /\ samples' = [samples EXCEPT ![s].state = "cancelled"]
                 /\ UNCHANGED <<queue, worker>>
        <4>1. EnqueuedSamples' = EnqueuedSamples
          BY <1>1, <2>1, <3>1 DEF EnqueuedSamples, SampleRecord
        <4> QED
          BY <3>1, <4>1 DEF RequestInv, SamplesInLine
      <3>2. CASE /\ samples' = [samples EXCEPT ![s].state = "enqueued"]
                 /\ queue' = [queue EXCEPT !.sampling = Append(@, s)]
        <4>1. /\ EnqueuedSamples' = EnqueuedSamples \cup {s}
              /\ s \notin EnqueuedSamples
          BY <1>1, <2>1, <3>2 DEF EnqueuedSamples, SampleRecord
        <4>2. queue'.sampling = Append(queue.sampling, s)
          BY <1>1, <3>2 DEF QueueRecord
        <4>3. InLine(SampleRequests, Append(queue.sampling, s), worker.sampling,
                     worker.terminate, EnqueuedSamples \cup {s})
          BY <1>1, <4>1, InLineAppend DEF RequestInv, SamplesInLine
        <4> QED
          BY <1>2, <2>1, <4>1, <4>2, <4>3 DEF RequestInv, SamplesInLine
      <3> QED
        BY <2>1, <3>1, <3>2
    <2> QED
      BY <2>5, <2>6, <2>8, <2>9 DEF RequestInv
  <1>6. ASSUME NEW s \in SampleRequests, DeadlinePasses(s)
        PROVE  RequestInv'
    <2>1. \A r \in SampleRequests :
            /\ samples'[r].state = samples[r].state
            /\ samples'[r].got = samples[r].got
            /\ samples'[r].slept = samples[r].slept
            /\ samples'[r].flagged = samples[r].flagged
      BY <1>1, <1>6 DEF DeadlinePasses, SampleRecord
    <2>2. UNCHANGED <<queue, worker, inserts>>
      BY <1>6 DEF DeadlinePasses
    <2> QED
      BY <1>1, <2>1, <2>2, RequestsUnchanged
  <1> QED
    BY <1>3, <1>4, <1>5, <1>6

\* A request has been handled: the first of the worker's inserts.
LEMMA WorkerRegisteredRequests ==
    ASSUME TypeInv, RequestInv, WorkerRegistered
    PROVE  /\ RequestInv'
           /\ Head(worker.inserts) \in EnqueuedInserts
  <1> DEFINE i == Head(worker.inserts)
  <1>1. /\ worker \in WorkerRecord
        /\ worker.inserts \in Seq(InsertRequests) /\ worker.inserts # << >>
        /\ inserts \in [InsertRequests -> InsertRecord]
    BY DEF TypeInv, TypeOK, WorkerHolds, WorkerRecord, WorkerRegistered
  <1>2. i \in InsertRequests
    BY <1>1, HeadTailProperties
  <1>3. /\ UNCHANGED <<queue, samples>>
        /\ worker.pc = "registered" /\ worker'.pc = "sample"
        /\ worker'.inserts = Tail(worker.inserts)
        /\ worker'.sampling = worker.sampling
        /\ worker'.terminate = worker.terminate
        /\ worker'.rate_limited = worker.rate_limited
        /\ inserts' = [inserts EXCEPT ![i].state = "inserted"]
    BY <1>1 DEF WorkerRegistered, WorkerRecord
  <1> HIDE DEF i
  <1>4. EnqueuedInserts' = EnqueuedInserts \ {i}
    BY <1>1, <1>2, <1>3 DEF EnqueuedInserts, InsertRecord
  <1>5. /\ InLine(InsertRequests, queue.inserts, Tail(worker.inserts), {},
                  EnqueuedInserts \ {i})
        /\ i \in EnqueuedInserts
    BY <1>1, <1>2, InLineTail DEF RequestInv, InsertsInLine, i
  <1>6. InsertsInLine'
    BY <1>3, <1>4, <1>5 DEF InsertsInLine
  <1>7. SamplesInLine'
    BY <1>3 DEF RequestInv, SamplesInLine, EnqueuedSamples
  <1>8. BatchesFit' /\ AnswersMatchSamples'
    BY <1>3 DEF RequestInv, BatchesFit, AnswersMatchSamples
  <1>9. HeadIsRequest' /\ BatchHasSlept' /\ RateLimitedIsTrue'
    BY <1>3 DEF RequestInv, HeadIsRequest, BatchHasSlept, RateLimitedIsTrue
  <1> QED
    BY <1>5, <1>6, <1>7, <1>8, <1>9 DEF RequestInv, i

\* The worker samples for the first request in line.
LEMMA WorkerSampleRequests ==
    ASSUME TypeInv, RequestInv, WorkerSample
    PROVE  RequestInv'
  <1> DEFINE q == SkipTerminated(worker.sampling)
             s == Head(q)
  <1>1. /\ worker \in WorkerRecord
        /\ worker.sampling \in Seq(SampleRequests \cup {None})
        /\ worker.rate_limited \in BOOLEAN
        /\ samples \in [SampleRequests -> SampleRecord]
    BY DEF TypeInv, TypeOK, WorkerRecord
  <1>2. q # << >> /\ q \in Seq(SampleRequests \cup {None}) /\ s \in SampleRequests
    BY <1>1, SkipTerminatedFacts DEF WorkerSample
  <1>3. worker.pc = "sample" /\ UNCHANGED <<queue, inserts>>
    BY DEF WorkerSample
  <1>4. CASE worker' = [worker EXCEPT !.pc = "crashed"] /\ UNCHANGED samples
    <2>1. /\ worker'.inserts = worker.inserts
          /\ worker'.sampling = worker.sampling
          /\ worker'.terminate = worker.terminate
          /\ worker'.rate_limited = worker.rate_limited
          /\ worker'.pc = "crashed"
      BY <1>1, <1>4 DEF WorkerRecord
    <2> QED
      BY <1>3, <1>4, <2>1, RequestsUnchanged
  <1>5. CASE /\ samples' = [samples EXCEPT ![s].got = @ + 1,
                                    ![s].flagged = @ \/ worker.rate_limited]
             /\ worker' = [worker EXCEPT !.pc = "sampled", !.sampling = q,
                                         !.progressed = TRUE, !.looped = TRUE]
    <2> HIDE DEF q
    <2>1. /\ worker'.inserts = worker.inserts
          /\ worker'.sampling = q
          /\ worker'.terminate = worker.terminate
          /\ worker'.rate_limited = worker.rate_limited
          /\ worker'.pc = "sampled"
      BY <1>1, <1>5 DEF WorkerRecord
    <2>2. /\ \A r \in SampleRequests \ {s} : samples'[r] = samples[r]
          /\ samples'[s].state = samples[s].state
          /\ samples'[s].got = samples[s].got + 1
          /\ samples'[s].slept = samples[s].slept
          /\ samples'[s].flagged = (samples[s].flagged \/ worker.rate_limited)
          /\ samples[s].got \in Nat
      BY <1>1, <1>2, <1>5 DEF SampleRecord
    <2>3. EnqueuedSamples' = EnqueuedSamples
      BY <2>2 DEF EnqueuedSamples
    <2>4. InLine(SampleRequests, queue.sampling, q, worker.terminate,
                 EnqueuedSamples)
      BY <1>1, InLineSkip DEF RequestInv, SamplesInLine, q
    <2>5. /\ \A r \in SampleRequests : r \in Elements(q) <=>
                r \in Elements(worker.sampling)
          /\ Distinct(q, SampleRequests)
      BY <1>1, SkipTerminatedElements
         DEF RequestInv, SamplesInLine, InLine, q
    <2>6. s \in Elements(q)
      BY <1>2, <2>5, TailElements
    <2>7. samples[s].state = "enqueued" /\ samples[s].got < BatchSize[s]
          /\ BatchSize[s] \in Nat
      <3>1. s \in EnqueuedSamples
        BY <1>2, <2>4, <2>6 DEF InLine
      <3> QED
        BY <1>2, <1>3, <3>1, ThreadAssumption
           DEF EnqueuedSamples, RequestInv, BatchesFit
    <2>8. InsertsInLine'
      BY <1>3, <2>1 DEF RequestInv, InsertsInLine, EnqueuedInserts
    <2>9. SamplesInLine'
      BY <1>3, <2>1, <2>3, <2>4 DEF RequestInv, SamplesInLine
    <2>10. BatchesFit'
      <3>1. \A r \in SampleRequests \ {s} :
                samples[r].state = "enqueued" => samples[r].got < BatchSize[r]
        BY <1>3 DEF RequestInv, BatchesFit
      <3>2. \/ samples'[s].got < BatchSize[s]
            \/ samples'[s].got = BatchSize[s]
        BY <2>2, <2>7
      <3>3. samples'[s].got > 0 /\ samples'[s].state = "enqueued"
        BY <2>2, <2>7
      <3> QED
        BY <1>2, <2>1, <2>2, <3>1, <3>2, <3>3 DEF RequestInv, BatchesFit
    <2>11. AnswersMatchSamples'
      BY <2>2, <2>7 DEF RequestInv, AnswersMatchSamples
    <2>12. RateLimitedIsTrue' /\ BatchHasSlept' /\ HeadIsRequest'
      <3>1. worker.rate_limited => samples[s].slept
        BY <1>2, <1>3, <2>5, <2>6 DEF RequestInv, BatchHasSlept
      <3>2. RateLimitedIsTrue'
        BY <1>2, <2>2, <3>1 DEF RequestInv, RateLimitedIsTrue
      <3>3. BatchHasSlept'
        BY <1>2, <1>3, <2>1, <2>2, <2>5 DEF RequestInv, BatchHasSlept
      <3> QED
        BY <2>1, <3>2, <3>3 DEF HeadIsRequest
    <2> QED
      BY <2>8, <2>9, <2>10, <2>11, <2>12 DEF RequestInv
  <1> QED
    BY <1>4, <1>5 DEF WorkerSample

\* What FinalizeSampleRequest changes.
LEMMA FinalizeFacts ==
    ASSUME samples \in [SampleRequests -> SampleRecord], NEW S, NEW state,
           samples' = Finalize(S, state)
    PROVE  \A r \in SampleRequests :
              /\ samples'[r].state = IF r \in S THEN state ELSE samples[r].state
              /\ samples'[r].got = samples[r].got
              /\ samples'[r].slept = samples[r].slept
              /\ samples'[r].flagged = samples[r].flagged
  BY DEF Finalize, SampleRecord

\* The worker is done with one sample: the request is complete, or not.
LEMMA WorkerSampledRequests ==
    ASSUME TypeInv, RequestInv, WorkerSampled
    PROVE  /\ RequestInv'
           /\ Head(worker.sampling) \in EnqueuedSamples
  <1> DEFINE s == Head(worker.sampling)
  <1>1. /\ worker \in WorkerRecord
        /\ worker.sampling \in Seq(SampleRequests \cup {None})
        /\ worker.sampling # << >> /\ s \in SampleRequests
        /\ samples \in [SampleRequests -> SampleRecord]
    BY DEF TypeInv, TypeOK, WorkerRecord, WorkerHolds, WorkerSampled
  <1>2. worker.pc = "sampled" /\ UNCHANGED <<queue, inserts>>
    BY DEF WorkerSampled
  <1>3. /\ InLine(SampleRequests, queue.sampling, Tail(worker.sampling),
                  worker.terminate, EnqueuedSamples \ {s})
        /\ s \in EnqueuedSamples
        /\ Distinct(worker.sampling, SampleRequests)
    <2>1. InLine(SampleRequests, queue.sampling, worker.sampling,
                 worker.terminate, EnqueuedSamples)
      BY DEF RequestInv, SamplesInLine
    <2>2. Distinct(worker.sampling, SampleRequests)
      BY <2>1 DEF InLine
    <2> QED
      BY <1>1, <2>1, <2>2, InLineTail
  <1>4. /\ samples[s].state = "enqueued"
        /\ samples[s].got > 0 /\ samples[s].got \in Nat
        /\ samples[s].got <= BatchSize[s] /\ BatchSize[s] \in Nat
    BY <1>1, <1>2, <1>3, ThreadAssumption
       DEF EnqueuedSamples, RequestInv, BatchesFit, SampleRecord
  <1>5. \A r \in SampleRequests \ {s} :
            samples[r].state = "enqueued" => samples[r].got < BatchSize[r]
    BY DEF RequestInv, BatchesFit
  <1>6. CASE /\ samples' = Finalize({s}, "ok")
             /\ worker' = [worker EXCEPT !.pc = "insert", !.sampling = Tail(@),
                                         !.looped = FALSE]
    <2>1. /\ worker'.inserts = worker.inserts
          /\ worker'.sampling = Tail(worker.sampling)
          /\ worker'.terminate = worker.terminate
          /\ worker'.rate_limited = worker.rate_limited
          /\ worker'.pc = "insert"
      BY <1>1, <1>6 DEF WorkerRecord
    <2>2. \A r \in SampleRequests :
              /\ samples'[r].state = IF r = s THEN "ok" ELSE samples[r].state
              /\ samples'[r].got = samples[r].got
              /\ samples'[r].slept = samples[r].slept
              /\ samples'[r].flagged = samples[r].flagged
      <3> HIDE DEF s
      <3>1. \A r \in SampleRequests :
              /\ samples'[r].state = IF r \in {s} THEN "ok" ELSE samples[r].state
              /\ samples'[r].got = samples[r].got
              /\ samples'[r].slept = samples[r].slept
              /\ samples'[r].flagged = samples[r].flagged
        BY <1>1, <1>6, FinalizeFacts
      <3> QED
        BY <3>1
    <2>3. EnqueuedSamples' = EnqueuedSamples \ {s}
      BY <2>2 DEF EnqueuedSamples
    <2>4. InsertsInLine' /\ SamplesInLine'
      BY <1>2, <1>3, <2>1, <2>3
         DEF RequestInv, InsertsInLine, EnqueuedInserts, SamplesInLine
    <2>5. BatchesFit' /\ AnswersMatchSamples'
      BY <1>1, <1>4, <1>5, <2>1, <2>2
         DEF RequestInv, BatchesFit, AnswersMatchSamples
    <2>6. \A r \in Elements(Tail(worker.sampling)) :
              r \in Elements(worker.sampling)
      BY <1>1, <1>3, TailElements
    <2>7. HeadIsRequest' /\ BatchHasSlept' /\ RateLimitedIsTrue'
      BY <1>2, <2>1, <2>2, <2>6
         DEF RequestInv, HeadIsRequest, BatchHasSlept, RateLimitedIsTrue
    <2> QED
      BY <1>3, <2>4, <2>5, <2>7 DEF RequestInv
  <1>7. CASE /\ samples[s].got < BatchSize[s]
             /\ worker' = [worker EXCEPT !.pc = "sample"]
             /\ UNCHANGED samples
    <2>1. /\ worker'.inserts = worker.inserts
          /\ worker'.sampling = worker.sampling
          /\ worker'.terminate = worker.terminate
          /\ worker'.rate_limited = worker.rate_limited
          /\ worker'.pc = "sample"
      BY <1>1, <1>7 DEF WorkerRecord
    <2>2. InsertsInLine' /\ SamplesInLine'
      BY <1>2, <1>7, <2>1 DEF RequestInv, InsertsInLine, EnqueuedInserts,
                              SamplesInLine, EnqueuedSamples
    <2>3. BatchesFit' /\ AnswersMatchSamples'
      BY <1>1, <1>5, <1>7, <2>1
         DEF RequestInv, BatchesFit, AnswersMatchSamples
    <2>4. HeadIsRequest' /\ BatchHasSlept' /\ RateLimitedIsTrue'
      BY <1>2, <1>7, <2>1
         DEF RequestInv, HeadIsRequest, BatchHasSlept, RateLimitedIsTrue
    <2> QED
      BY <1>3, <2>2, <2>3, <2>4 DEF RequestInv
  <1> QED
    BY <1>6, <1>7 DEF WorkerSampled

\* The inner loop ends: nullptrs at the front of the batch are skipped.
LEMMA WorkerEndLoopRequests ==
    ASSUME TypeInv, RequestInv, WorkerEndLoop
    PROVE  RequestInv'
  <1> DEFINE q == SkipTerminated(worker.sampling)
  <1>1. /\ worker \in WorkerRecord
        /\ worker.sampling \in Seq(SampleRequests \cup {None})
    BY DEF TypeInv, TypeOK, WorkerRecord
  <1>2. /\ worker.pc = "sample" /\ UNCHANGED <<queue, inserts, samples>>
        /\ worker'.inserts = worker.inserts
        /\ worker'.sampling = q
        /\ worker'.terminate = worker.terminate
        /\ worker'.rate_limited = worker.rate_limited
        /\ worker'.pc \in {"insert", "serve"}
    BY <1>1 DEF WorkerEndLoop, WorkerRecord
  <1>3. q # << >> => Head(q) \in SampleRequests
    BY <1>1, SkipTerminatedFacts
  <1> HIDE DEF q
  <1>4. InLine(SampleRequests, queue.sampling, q, worker.terminate,
               EnqueuedSamples)
    BY <1>1, InLineSkip DEF RequestInv, SamplesInLine, q
  <1>5. \A r \in SampleRequests : r \in Elements(q) <=>
            r \in Elements(worker.sampling)
    BY <1>1, SkipTerminatedElements DEF RequestInv, SamplesInLine, InLine, q
  <1>6. InsertsInLine' /\ SamplesInLine'
    BY <1>2, <1>4 DEF RequestInv, InsertsInLine, EnqueuedInserts,
                      SamplesInLine, EnqueuedSamples
  <1>7. BatchesFit' /\ AnswersMatchSamples'
    BY <1>2 DEF RequestInv, BatchesFit, AnswersMatchSamples
  <1>8. HeadIsRequest' /\ BatchHasSlept' /\ RateLimitedIsTrue'
    BY <1>2, <1>3, <1>5
       DEF RequestInv, HeadIsRequest, BatchHasSlept, RateLimitedIsTrue
  <1> QED
    BY <1>6, <1>7, <1>8 DEF RequestInv

\* The worker picks up new batches.
LEMMA WorkerContinuesRequests ==
    ASSUME TypeInv, RequestInv, WorkerContinues
    PROVE  RequestInv'
  <1>1. worker \in WorkerRecord /\ queue \in QueueRecord
    BY DEF TypeInv, TypeOK
  <1>2. /\ worker.pc = "serve" /\ UNCHANGED <<inserts, samples>>
        /\ worker'.pc = "insert"
        /\ worker'.terminate = worker.terminate
        /\ worker'.inserts = IF TakeInserts THEN queue.inserts ELSE worker.inserts
        /\ queue'.inserts = IF TakeInserts THEN << >> ELSE queue.inserts
        /\ worker'.sampling = IF TakeSampling THEN queue.sampling
                              ELSE worker.sampling
        /\ queue'.sampling = IF TakeSampling THEN << >> ELSE queue.sampling
        /\ worker'.rate_limited = RateLimitedOnTake
    BY <1>1 DEF WorkerContinues, WorkerRecord, QueueRecord
  <1>3. /\ EnqueuedInserts' = EnqueuedInserts
        /\ EnqueuedSamples' = EnqueuedSamples
    BY <1>2 DEF EnqueuedInserts, EnqueuedSamples
  <1>4. InsertsInLine'
    <2>1. CASE TakeInserts
      <3>1. InLine(InsertRequests, queue.inserts, << >>, {}, EnqueuedInserts)
        BY <2>1 DEF RequestInv, InsertsInLine, TakeInserts
      <3>2. InLine(InsertRequests, << >>, queue.inserts, {}, EnqueuedInserts)
        BY <3>1, InLineTake
      <3> QED
        BY <1>2, <1>3, <2>1, <3>2 DEF InsertsInLine
    <2>2. CASE ~TakeInserts
      BY <1>2, <1>3, <2>2 DEF RequestInv, InsertsInLine
    <2> QED
      BY <2>1, <2>2
  <1>5. SamplesInLine'
    <2>1. worker.terminate = {}
      BY <1>2 DEF RequestInv, SamplesInLine
    <2>2. CASE TakeSampling
      <3>1. InLine(SampleRequests, queue.sampling, << >>, worker.terminate,
                   EnqueuedSamples)
        BY <2>2 DEF RequestInv, SamplesInLine, TakeSampling
      <3>2. InLine(SampleRequests, << >>, queue.sampling, worker.terminate,
                   EnqueuedSamples)
        BY <3>1, InLineTake
      <3> QED
        BY <1>2, <1>3, <2>1, <2>2, <3>2 DEF SamplesInLine
    <2>3. CASE ~TakeSampling
      BY <1>2, <1>3, <2>1, <2>3 DEF RequestInv, SamplesInLine
    <2> QED
      BY <2>2, <2>3
  <1>6. BatchesFit' /\ AnswersMatchSamples'
    BY <1>2 DEF RequestInv, BatchesFit, AnswersMatchSamples
  <1>7. HeadIsRequest' /\ BatchHasSlept' /\ RateLimitedIsTrue'
    BY <1>2 DEF RequestInv, HeadIsRequest, BatchHasSlept, RateLimitedIsTrue,
                RateLimitedOnTake
  <1> QED
    BY <1>4, <1>5, <1>6, <1>7 DEF RequestInv

\* Expired requests are put aside, and later answered.
LEMMA WorkerExpiresRequests ==
    ASSUME TypeInv, RequestInv, WorkerExpires
    PROVE  RequestInv'
  <1>1. /\ worker \in WorkerRecord /\ queue \in QueueRecord
        /\ worker.sampling \in Seq(SampleRequests \cup {None})
        /\ queue.sampling \in Seq(SampleRequests \cup {None})
    BY DEF TypeInv, TypeOK, WorkerRecord, QueueRecord
  <1>2. /\ worker.pc = "serve" /\ UNCHANGED <<inserts, samples>>
        /\ worker'.pc = "terminate"
        /\ worker'.inserts = worker.inserts
        /\ worker'.sampling = WithoutExpired(worker.sampling)
        /\ worker'.terminate = Expired
        /\ worker'.rate_limited = worker.rate_limited
        /\ queue'.inserts = queue.inserts
        /\ queue'.sampling = WithoutExpired(queue.sampling)
    BY <1>1 DEF WorkerExpires, Idle, WorkerRecord, QueueRecord
  <1>3. \A s \in Expired : /\ s \in SampleRequests
                           /\ \/ s \in Elements(queue.sampling)
                              \/ s \in Elements(worker.sampling)
    BY DEF Expired
  <1>4. InLine(SampleRequests, queue.sampling, worker.sampling, {},
               EnqueuedSamples)
    BY <1>2 DEF RequestInv, SamplesInLine
  <1>5. InLine(SampleRequests, WithoutExpired(queue.sampling),
               WithoutExpired(worker.sampling), Expired, EnqueuedSamples)
    BY <1>1, <1>3, <1>4, InLineExpire
  <1>6. SamplesInLine' /\ InsertsInLine'
    BY <1>2, <1>5 DEF RequestInv, InsertsInLine, EnqueuedInserts,
                      SamplesInLine, EnqueuedSamples
  <1>7. \A r \in SampleRequests :
            r \in Elements(WithoutExpired(worker.sampling)) =>
                r \in Elements(worker.sampling)
    BY <1>1, <1>4, WithoutExpiredElements DEF InLine
  <1>8. BatchesFit' /\ AnswersMatchSamples'
    BY <1>2 DEF RequestInv, BatchesFit, AnswersMatchSamples
  <1>9. HeadIsRequest' /\ BatchHasSlept' /\ RateLimitedIsTrue'
    BY <1>2, <1>7
       DEF RequestInv, HeadIsRequest, BatchHasSlept, RateLimitedIsTrue
  <1> QED
    BY <1>6, <1>8, <1>9 DEF RequestInv

LEMMA WorkerTerminatesRequests ==
    ASSUME TypeInv, RequestInv, WorkerTerminates
    PROVE  RequestInv'
  <1>1. worker \in WorkerRecord /\ samples \in [SampleRequests -> SampleRecord]
    BY DEF TypeInv, TypeOK
  <1>2. /\ worker.pc = "terminate" /\ UNCHANGED <<inserts, queue>>
        /\ worker'.pc = "insert"
        /\ worker'.inserts = worker.inserts
        /\ worker'.sampling = worker.sampling
        /\ worker'.terminate = {}
        /\ worker'.rate_limited = worker.rate_limited
    BY <1>1 DEF WorkerTerminates, WorkerRecord
  <1>3. \A r \in SampleRequests :
            /\ samples'[r].state =
                  IF r \in worker.terminate
                  THEN IF samples[r].got = 0 THEN "timeout" ELSE "ok"
                  ELSE samples[r].state
            /\ samples'[r].got = samples[r].got /\ samples[r].got \in Nat
            /\ samples'[r].slept = samples[r].slept
            /\ samples'[r].flagged = samples[r].flagged
    BY <1>1 DEF WorkerTerminates, SampleRecord
  <1>4. \A r \in worker.terminate : r \in EnqueuedSamples
    BY DEF RequestInv, SamplesInLine, InLine
  <1>5. EnqueuedSamples' = EnqueuedSamples \ worker.terminate
    BY <1>3 DEF EnqueuedSamples
  <1>6. InLine(SampleRequests, queue.sampling, worker.sampling, {},
               EnqueuedSamples \ worker.terminate)
    BY InLineTerminate DEF RequestInv, SamplesInLine
  <1>7. SamplesInLine' /\ InsertsInLine'
    BY <1>2, <1>5, <1>6
       DEF RequestInv, InsertsInLine, EnqueuedInserts, SamplesInLine
  <1>8. \A r \in SampleRequests :
            samples[r].state = "enqueued" => samples[r].got < BatchSize[r]
    BY <1>2 DEF RequestInv, BatchesFit
  <1>9. BatchesFit'
    BY <1>2, <1>3, <1>8 DEF RequestInv, BatchesFit
  <1>10. AnswersMatchSamples'
    <2> SUFFICES ASSUME NEW r \in SampleRequests
                 PROVE  /\ samples'[r].state = "ok" =>
                              samples'[r].got \in 1 .. BatchSize[r]
                        /\ samples'[r].state = "timeout" => samples'[r].got = 0
      BY DEF AnswersMatchSamples
    <2>1. BatchSize[r] \in Nat
      BY ThreadAssumption
    <2>2. CASE r \in worker.terminate
      <3>1. samples[r].got < BatchSize[r]
        BY <1>4, <1>8, <2>2 DEF EnqueuedSamples
      <3> QED
        BY <1>3, <2>1, <2>2, <3>1
    <2>3. CASE r \notin worker.terminate
      BY <1>3, <2>3 DEF RequestInv, AnswersMatchSamples
    <2> QED
      BY <2>2, <2>3
  <1>11. HeadIsRequest' /\ BatchHasSlept' /\ RateLimitedIsTrue'
    BY <1>2, <1>3
       DEF RequestInv, HeadIsRequest, BatchHasSlept, RateLimitedIsTrue
  <1> QED
    BY <1>7, <1>9, <1>10, <1>11 DEF RequestInv

\* A partial batch is answered and the worker goes to sleep.
LEMMA WorkerSleepsRequests ==
    ASSUME TypeInv, RequestInv, WorkerSleeps
    PROVE  /\ RequestInv'
           /\ HasPartialBatch => Head(worker.sampling) \in EnqueuedSamples
  <1> DEFINE s == Head(worker.sampling)
             rest == IF HasPartialBatch THEN Tail(worker.sampling)
                     ELSE worker.sampling
  <1>1. /\ worker \in WorkerRecord
        /\ worker.sampling \in Seq(SampleRequests \cup {None})
        /\ samples \in [SampleRequests -> SampleRecord]
    BY DEF TypeInv, TypeOK, WorkerRecord
  <1>2. /\ worker.pc = "serve" /\ UNCHANGED <<queue, inserts>>
        /\ worker'.pc = "asleep"
        /\ worker'.inserts = worker.inserts
        /\ worker'.sampling = rest
        /\ worker'.terminate = worker.terminate
        /\ worker'.rate_limited = (rest # << >>)
    BY <1>1 DEF WorkerSleeps, Idle, WorkerRecord
  <1>3. /\ samples' = [r \in SampleRequests |->
                [samples[r] EXCEPT
                    !.state = IF HasPartialBatch /\ r = s THEN "ok" ELSE @,
                    !.slept = @ \/ r \in Elements(rest)]]
    BY DEF WorkerSleeps
  <1>4. /\ InLine(SampleRequests, queue.sampling, worker.sampling,
                  worker.terminate, EnqueuedSamples)
        /\ worker.terminate = {}
    BY <1>2 DEF RequestInv, SamplesInLine
  <1>5. HasPartialBatch =>
            /\ worker.sampling # << >> /\ s \in SampleRequests
            /\ samples[s].got > 0
    BY <1>2 DEF HasPartialBatch, RequestInv, HeadIsRequest
  <1> HIDE DEF s, rest
  <1>6. \A r \in SampleRequests :
            /\ samples'[r].state = IF HasPartialBatch /\ r = s THEN "ok"
                                   ELSE samples[r].state
            /\ samples'[r].got = samples[r].got /\ samples[r].got \in Nat
            /\ samples'[r].slept = (samples[r].slept \/ r \in Elements(rest))
            /\ samples'[r].flagged = samples[r].flagged
    BY <1>1, <1>3 DEF SampleRecord
  <1>7. \A r \in SampleRequests :
            samples[r].state = "enqueued" => samples[r].got < BatchSize[r]
    BY <1>2 DEF RequestInv, BatchesFit
  <1>8. /\ InLine(SampleRequests, queue.sampling, rest, worker.terminate,
                  EnqueuedSamples')
        /\ HasPartialBatch => s \in EnqueuedSamples
    <2>1. CASE HasPartialBatch
      <3>1. /\ InLine(SampleRequests, queue.sampling, Tail(worker.sampling),
                      worker.terminate, EnqueuedSamples \ {s})
            /\ s \in EnqueuedSamples
        BY <1>1, <1>4, <1>5, <2>1, InLineTail DEF s
      <3>2. EnqueuedSamples' = EnqueuedSamples \ {s}
        BY <1>6, <2>1 DEF EnqueuedSamples
      <3> QED
        BY <2>1, <3>1, <3>2 DEF rest
    <2>2. CASE ~HasPartialBatch
      <3>1. EnqueuedSamples' = EnqueuedSamples
        BY <1>6, <2>2 DEF EnqueuedSamples
      <3> QED
        BY <1>4, <2>2, <3>1 DEF rest
    <2> QED
      BY <2>1, <2>2
  <1>9. SamplesInLine' /\ InsertsInLine'
    BY <1>2, <1>4, <1>8
       DEF RequestInv, InsertsInLine, EnqueuedInserts, SamplesInLine
  <1>10. BatchesFit'
    BY <1>2, <1>6, <1>7 DEF RequestInv, BatchesFit
  <1>11. AnswersMatchSamples'
    <2>1. HasPartialBatch =>
             /\ samples[s].got > 0 /\ samples[s].got < BatchSize[s]
             /\ samples[s].got \in Nat /\ BatchSize[s] \in Nat
      BY <1>5, <1>6, <1>7, <1>8, ThreadAssumption DEF EnqueuedSamples
    <2>2. HasPartialBatch => samples[s].got \in 1 .. BatchSize[s]
      BY <2>1
    <2> QED
      BY <1>6, <2>2 DEF RequestInv, AnswersMatchSamples
  <1>12. HeadIsRequest' /\ BatchHasSlept' /\ RateLimitedIsTrue'
    BY <1>2, <1>6
       DEF RequestInv, HeadIsRequest, BatchHasSlept, RateLimitedIsTrue
  <1> QED
    BY <1>8, <1>9, <1>10, <1>11, <1>12 DEF RequestInv, s

\* The table was closed: everything that is left is answered.
LEMMA WorkerDrainsRequests ==
    ASSUME TypeInv, RequestInv, WorkerDrains
    PROVE  RequestInv'
  <1>1. /\ worker \in WorkerRecord /\ queue \in QueueRecord
        /\ worker.sampling \in Seq(SampleRequests \cup {None})
        /\ queue.sampling \in Seq(SampleRequests \cup {None})
        /\ worker.inserts \in Seq(InsertRequests)
        /\ queue.inserts \in Seq(InsertRequests)
    BY DEF TypeInv, TypeOK, WorkerRecord, QueueRecord
  <1>2. /\ worker.pc = "drain" /\ UNCHANGED <<inserts, samples>>
        /\ worker'.pc = "cancel"
        /\ worker'.inserts = worker.inserts \o queue.inserts
        /\ worker'.sampling = worker.sampling \o queue.sampling
        /\ worker'.terminate = worker.terminate
        /\ queue'.inserts = << >> /\ queue'.sampling = << >>
    BY <1>1 DEF WorkerDrains, WorkerRecord, QueueRecord
  <1>3. InLine(InsertRequests, << >>, worker.inserts \o queue.inserts, {},
               EnqueuedInserts)
    BY <1>1, InLineJoin DEF RequestInv, InsertsInLine
  <1>4. InLine(SampleRequests, << >>, worker.sampling \o queue.sampling,
               worker.terminate, EnqueuedSamples)
    BY <1>1, InLineJoin DEF RequestInv, SamplesInLine
  <1>5. EnqueuedInserts' = EnqueuedInserts /\ EnqueuedSamples' = EnqueuedSamples
    BY <1>2 DEF EnqueuedInserts, EnqueuedSamples
  <1>6. InsertsInLine' /\ SamplesInLine'
    BY <1>2, <1>3, <1>4, <1>5 DEF RequestInv, InsertsInLine, SamplesInLine
  <1>7. BatchesFit' /\ AnswersMatchSamples'
    BY <1>2 DEF RequestInv, BatchesFit, AnswersMatchSamples
  <1>8. HeadIsRequest' /\ BatchHasSlept' /\ RateLimitedIsTrue'
    BY <1>2 DEF RequestInv, HeadIsRequest, BatchHasSlept, RateLimitedIsTrue
  <1> QED
    BY <1>6, <1>7, <1>8 DEF RequestInv

LEMMA WorkerCancelsRequests ==
    ASSUME TypeInv, RequestInv, WorkerCancels
    PROVE  RequestInv'
  <1>1. /\ worker \in WorkerRecord
        /\ samples \in [SampleRequests -> SampleRecord]
        /\ inserts \in [InsertRequests -> InsertRecord]
    BY DEF TypeInv, TypeOK
  <1>2. /\ worker.pc = "cancel" /\ UNCHANGED queue
        /\ worker'.pc = "exited"
        /\ worker'.inserts = << >> /\ worker'.sampling = << >>
        /\ worker'.terminate = worker.terminate
    BY <1>1 DEF WorkerCancels, WorkerRecord
  <1>3. \A r \in SampleRequests :
            /\ samples'[r].state = IF r \in Elements(worker.sampling)
                                   THEN "cancelled" ELSE samples[r].state
            /\ samples'[r].got = samples[r].got
            /\ samples'[r].slept = samples[r].slept
            /\ samples'[r].flagged = samples[r].flagged
    <2>1. samples' = Finalize(Elements(worker.sampling), "cancelled")
      BY DEF WorkerCancels
    <2> QED
      BY <1>1, <2>1, FinalizeFacts
  <1>4. \A i \in InsertRequests :
            inserts'[i].state = IF i \in Elements(worker.inserts)
                                THEN "dropped" ELSE inserts[i].state
    BY <1>1 DEF WorkerCancels, InsertRecord
  <1>5. /\ EnqueuedSamples' = EnqueuedSamples \ Elements(worker.sampling)
        /\ EnqueuedInserts' = EnqueuedInserts \ Elements(worker.inserts)
    BY <1>3, <1>4 DEF EnqueuedSamples, EnqueuedInserts
  <1>6. /\ InLine(InsertRequests, queue.inserts, << >>, {},
                  EnqueuedInserts \ Elements(worker.inserts))
        /\ InLine(SampleRequests, queue.sampling, << >>, worker.terminate,
                  EnqueuedSamples \ Elements(worker.sampling))
    BY InLineClear DEF RequestInv, InsertsInLine, SamplesInLine
  <1>7. InsertsInLine' /\ SamplesInLine'
    BY <1>2, <1>5, <1>6 DEF RequestInv, InsertsInLine, SamplesInLine
  <1>8. BatchesFit' /\ AnswersMatchSamples'
    BY <1>2, <1>3 DEF RequestInv, BatchesFit, AnswersMatchSamples
  <1>9. HeadIsRequest' /\ BatchHasSlept' /\ RateLimitedIsTrue'
    BY <1>2, <1>3, ElementsOfEmpty
       DEF RequestInv, HeadIsRequest, BatchHasSlept, RateLimitedIsTrue
  <1> QED
    BY <1>7, <1>8, <1>9 DEF RequestInv

LEMMA RequestStep == TypeInv /\ RequestInv /\ [Next]_vars => RequestInv'
  <1> SUFFICES ASSUME TypeInv, RequestInv, [Next]_vars
               PROVE  RequestInv'
    OBVIOUS
  <1>1. CASE TableWorker
    BY <1>1, WorkerQuietRequests, WorkerRegisteredRequests,
       WorkerSampleRequests, WorkerSampledRequests, WorkerEndLoopRequests,
       WorkerContinuesRequests, WorkerExpiresRequests, WorkerSleepsRequests,
       WorkerTerminatesRequests, WorkerDrainsRequests, WorkerCancelsRequests
       DEF TableWorker
  <1>2. CASE ExtensionWorker
    BY <1>2, ExtensionQuiet, OthersQuietRequests
  <1>3. CASE \/ \E i \in InsertRequests :
                   InsertOrAssignAsync(i) \/ InsertOrAssignTimesOut(i)
             \/ \E s \in SampleRequests :
                   EnqueSampleRequest(s) \/ DeadlinePasses(s)
    BY <1>3, EnqueueRequests
  <1>4. ASSUME NEW c \in Clients, StartCall(c) \/ ClientStep(c)
        PROVE  RequestInv'
    BY <1>4, ClientQuiet, OthersQuietRequests
  <1>5. CASE UNCHANGED vars
    BY <1>5, OthersQuietRequests DEF vars
  <1> QED
    BY <1>1, <1>2, <1>3, <1>4, <1>5 DEF Next

\* The inductive invariant of the requests holds in every reachable state.
THEOREM RequestsCorrect == Spec => [](TypeInv /\ RequestInv)
  <1>1. Init => TypeInv /\ RequestInv
    BY InitType, InitRequests
  <1>2. TypeInv /\ RequestInv /\ [Next]_vars => TypeInv' /\ RequestInv'
    BY TypeStep, RequestStep
  <1> QED
    BY <1>1, <1>2, PTL DEF Spec

\* No request is lost or handled twice: an enqueued request is in exactly one
\* of the queue, the worker's batch and the list of expired requests, and an
\* answered one in none (InsertOrAssignAsync, EnqueSampleRequest,
\* TableWorkerLoop, GetExpiredRequests), for any number of requests.
THEOREM OnePlaceSafety == Spec => []RequestsInOnePlace
  <1>1. TypeInv /\ RequestInv => RequestsInOnePlace
    <2> SUFFICES ASSUME TypeInv, RequestInv PROVE RequestsInOnePlace
      OBVIOUS
    <2>1. /\ worker.sampling \in Seq(SampleRequests \cup {None})
          /\ queue.sampling \in Seq(SampleRequests \cup {None})
          /\ worker.inserts \in Seq(InsertRequests)
          /\ queue.inserts \in Seq(InsertRequests)
      BY DEF TypeInv, TypeOK, WorkerRecord, QueueRecord
    <2>2. \A i \in InsertRequests :
            Occurrences(queue.inserts, i) + Occurrences(worker.inserts, i)
              = IF inserts[i].state = "enqueued" THEN 1 ELSE 0
      <3> SUFFICES ASSUME NEW i \in InsertRequests
                   PROVE  Occurrences(queue.inserts, i)
                            + Occurrences(worker.inserts, i)
                            = IF inserts[i].state = "enqueued" THEN 1 ELSE 0
        OBVIOUS
      <3>1. /\ Distinct(queue.inserts, InsertRequests)
            /\ Distinct(worker.inserts, InsertRequests)
            /\ ~(i \in Elements(queue.inserts) /\ i \in Elements(worker.inserts))
            /\ i \in EnqueuedInserts <=>
                  i \in Elements(queue.inserts) \/ i \in Elements(worker.inserts)
        BY DEF RequestInv, InsertsInLine, InLine
      <3>2. /\ Occurrences(queue.inserts, i) =
                  IF i \in Elements(queue.inserts) THEN 1 ELSE 0
            /\ Occurrences(worker.inserts, i) =
                  IF i \in Elements(worker.inserts) THEN 1 ELSE 0
        BY <2>1, <3>1, OccurrencesDistinct
      <3> QED
        BY <3>1, <3>2 DEF EnqueuedInserts
    <2>3. \A s \in SampleRequests :
            Occurrences(queue.sampling, s) + Occurrences(worker.sampling, s)
              + (IF s \in worker.terminate THEN 1 ELSE 0)
              = IF samples[s].state = "enqueued" THEN 1 ELSE 0
      BY <2>1, InLineCounts DEF RequestInv, SamplesInLine, EnqueuedSamples
    <2> QED
      BY <2>2, <2>3 DEF RequestsInOnePlace
  <1> QED
    BY <1>1, RequestsCorrect, PTL

\* A sample request answered with OK has at least one item and no more than it
\* asked for, and one that timed out has none: a full batch, a partial batch
\* sent before sleeping, and a deadline all keep to it, for every batch size.
THEOREM AnswersSafety == Spec => []AnswersMatchSamples
  <1>1. RequestInv => AnswersMatchSamples
    BY DEF RequestInv
  <1> QED
    BY <1>1, RequestsCorrect, PTL

\* The worker never looks into a request that its deadline has taken away.
THEOREM NullSafety == Spec => []NoNullRequest
  <1>1. RequestInv => NoNullRequest
    BY ThreadAssumption DEF RequestInv, HeadIsRequest, NoNullRequest, Idle
  <1> QED
    BY <1>1, RequestsCorrect, PTL

\* A sample is reported as rate limited only if its request was waiting while
\* the worker slept.
THEOREM RateLimitedSafety == Spec => []RateLimitedIsTrue
  <1>1. RequestInv => RateLimitedIsTrue
    BY DEF RequestInv
  <1> QED
    BY <1>1, RequestsCorrect, PTL

-----------------------------------------------------------------------------
(* Answers are final. *)

\* What AnswersAreFinal says of one step.
KeepsAnswers ==
    /\ \A s \in SampleRequests :
          samples[s].state \in {"ok", "timeout", "cancelled"} =>
             samples'[s] = samples[s]
    /\ \A i \in InsertRequests :
          inserts[i].state \in {"inserted", "dropped", "refused"} =>
             inserts'[i].state = inserts[i].state

\* The first request the worker samples for is still to be answered.
LEMMA SampledIsEnqueued ==
    ASSUME TypeInv, RequestInv,
           SkipTerminated(worker.sampling) # << >>
    PROVE  Head(SkipTerminated(worker.sampling)) \in EnqueuedSamples
  <1> DEFINE q == SkipTerminated(worker.sampling)
  <1>1. worker.sampling \in Seq(SampleRequests \cup {None})
    BY DEF TypeInv, TypeOK, WorkerRecord
  <1>2. q # << >> /\ q \in Seq(SampleRequests \cup {None})
        /\ Head(q) \in SampleRequests
    BY <1>1, SkipTerminatedFacts
  <1>3. InLine(SampleRequests, queue.sampling, q, worker.terminate,
               EnqueuedSamples)
    BY <1>1, InLineSkip DEF RequestInv, SamplesInLine
  <1> HIDE DEF q
  <1>4. Head(q) \in EnqueuedSamples
    BY <1>2, <1>3, InLineTail
  <1> QED
    BY <1>4 DEF q

LEMMA KeepsAnswersStep ==
    ASSUME TypeInv, RequestInv, [Next]_vars
    PROVE  KeepsAnswers
  <1>1. /\ inserts \in [InsertRequests -> InsertRecord]
        /\ samples \in [SampleRequests -> SampleRecord]
    BY DEF TypeInv, TypeOK
  <1>2. /\ \A s \in EnqueuedSamples :
              samples[s].state \notin {"ok", "timeout", "cancelled"}
        /\ \A i \in EnqueuedInserts :
              inserts[i].state \notin {"inserted", "dropped", "refused"}
    BY DEF EnqueuedSamples, EnqueuedInserts
  <1>3. /\ \A s \in SampleRequests :
              \/ s \in Elements(worker.sampling) \/ s \in worker.terminate
              => s \in EnqueuedSamples
        /\ \A i \in InsertRequests :
              i \in Elements(worker.inserts) => i \in EnqueuedInserts
    BY DEF RequestInv, SamplesInLine, InsertsInLine, InLine
  <1>4. CASE UNCHANGED <<inserts, samples>>
    BY <1>4 DEF KeepsAnswers
  <1>5. CASE WorkerRegistered
    <2>1. /\ samples' = samples
          /\ inserts' = [inserts EXCEPT ![Head(worker.inserts)].state = "inserted"]
          /\ Head(worker.inserts) \in EnqueuedInserts
      BY <1>5, WorkerRegisteredRequests DEF WorkerRegistered
    <2> QED
      BY <1>1, <1>2, <2>1 DEF KeepsAnswers
  <1>6. CASE WorkerSample
    <2> DEFINE s == Head(SkipTerminated(worker.sampling))
    <2>1. SkipTerminated(worker.sampling) # << >> /\ inserts' = inserts
      BY <1>6 DEF WorkerSample
    <2>2. s \in EnqueuedSamples
      BY <2>1, SampledIsEnqueued
    <2>3. \/ samples' = samples
          \/ samples' = [samples EXCEPT
                        ![s].got = @ + 1,
                        ![s].flagged = @ \/ worker.rate_limited]
      BY <1>6 DEF WorkerSample
    <2> HIDE DEF s
    <2> QED
      BY <1>1, <1>2, <2>1, <2>2, <2>3 DEF KeepsAnswers
  <1>7. CASE WorkerSampled
    <2> DEFINE s == Head(worker.sampling)
    <2>1. s \in EnqueuedSamples
      BY <1>7, WorkerSampledRequests
    <2>2. /\ inserts' = inserts
          /\ samples' = samples \/ samples' = Finalize({s}, "ok")
      BY <1>7 DEF WorkerSampled
    <2> HIDE DEF s
    <2> QED
      BY <1>1, <1>2, <2>1, <2>2 DEF KeepsAnswers, Finalize
  <1>8. CASE WorkerSleeps
    <2> DEFINE s == Head(worker.sampling)
               rest == IF HasPartialBatch THEN Tail(worker.sampling)
                       ELSE worker.sampling
    <2>1. HasPartialBatch => s \in EnqueuedSamples
      BY <1>8, WorkerSleepsRequests
    <2>2. /\ inserts' = inserts
          /\ samples' = [r \in SampleRequests |->
                [samples[r] EXCEPT
                    !.state = IF HasPartialBatch /\ r = s THEN "ok" ELSE @,
                    !.slept = @ \/ r \in Elements(rest)]]
      BY <1>8 DEF WorkerSleeps
    <2>3. \A r \in Elements(rest) : r \in Elements(worker.sampling)
      <3>1. worker.sampling \in Seq(SampleRequests \cup {None})
        BY DEF TypeInv, TypeOK, WorkerRecord
      <3>2. Distinct(worker.sampling, SampleRequests)
        BY DEF RequestInv, SamplesInLine, InLine
      <3> QED
        BY <3>1, <3>2, TailElements DEF HasPartialBatch
    <2> HIDE DEF s, rest
    <2>4. \A r \in SampleRequests : r \notin EnqueuedSamples =>
                r \notin Elements(rest) /\ ~(HasPartialBatch /\ r = s)
      BY <1>3, <2>1, <2>3
    <2>5. \A r \in SampleRequests :
                r \notin EnqueuedSamples => samples'[r] = samples[r]
      BY <1>1, <2>2, <2>4 DEF SampleRecord
    <2> QED
      BY <1>2, <2>2, <2>5 DEF KeepsAnswers
  <1>9. CASE WorkerTerminates
    BY <1>1, <1>2, <1>3, <1>9 DEF WorkerTerminates, KeepsAnswers
  <1>10. CASE WorkerCancels
    BY <1>1, <1>2, <1>3, <1>10 DEF WorkerCancels, Finalize, KeepsAnswers
  <1>11. ASSUME NEW i \in InsertRequests,
                InsertOrAssignAsync(i) \/ InsertOrAssignTimesOut(i)
         PROVE  KeepsAnswers
    BY <1>1, <1>11 DEF InsertOrAssignAsync, InsertOrAssignTimesOut,
                       KeepsAnswers, InsertRecord
  <1>12. ASSUME NEW s \in SampleRequests,
                EnqueSampleRequest(s) \/ DeadlinePasses(s)
         PROVE  KeepsAnswers
    BY <1>1, <1>12 DEF EnqueSampleRequest, DeadlinePasses, KeepsAnswers
  <1>13. ASSUME NEW c \in Clients, StartCall(c) \/ ClientStep(c)
         PROVE  KeepsAnswers
    BY <1>4, <1>13, ClientQuiet
  <1>14. CASE ExtensionWorker
    BY <1>4, <1>14, ExtensionQuiet
  <1>15. CASE UNCHANGED vars
    BY <1>4, <1>15 DEF vars
  <1>16. CASE \/ WorkerSkipInsert \/ WorkerInsert \/ WorkerAssign
              \/ WorkerEvicted \/ WorkerUpdated \/ WorkerEndLoop \/ WorkerStops
              \/ WorkerContinues \/ WorkerExpires \/ WorkerWakesOnDeadline
              \/ WorkerDrains \/ WaitAgain("worker")
    <2>1. UNCHANGED <<inserts, samples>>
      BY <1>16 DEF WorkerSkipInsert, WorkerInsert, WorkerAssign, WorkerEvicted,
           WorkerUpdated, WorkerEndLoop, WorkerStops, WorkerContinues,
           WorkerExpires, WorkerWakesOnDeadline, WorkerDrains, WaitAgain
    <2> QED
      BY <1>4, <2>1
  <1>17. CASE TableWorker
    BY <1>5, <1>6, <1>7, <1>8, <1>9, <1>10, <1>16, <1>17 DEF TableWorker
  <1> QED
    BY <1>11, <1>12, <1>13, <1>14, <1>15, <1>17 DEF Next

\* An answer is given once and stays: no request is answered again by its
\* deadline, by a partial batch, by a callback or by the closing of the table.
THEOREM AnswersFinality == Spec => AnswersAreFinal
  <1>1. TypeInv /\ RequestInv /\ [Next]_vars => [KeepsAnswers]_vars
    BY KeepsAnswersStep
  <1>2. Spec => [][KeepsAnswers]_vars
    BY <1>1, RequestsCorrect, PTL DEF Spec
  <1> QED
    BY <1>2 DEF AnswersAreFinal, KeepsAnswers

-----------------------------------------------------------------------------
(* Requests of the extension worker. *)

\* The requests of q that tell whether key k is in the table.
Seen(q, k) ==
    {n \in DOMAIN q : q[n].key = k /\ q[n].type \in {"insert", "delete"}}

\* The requests of q whose item is to be released.
Releasing(q) == {n \in DOMAIN q : q[n].type \in {"delete", "release"}}

\* The list a is q with r at its end.
Extends(a, q, r) == a = Append(q, r)

LEMMA ApplyMember ==
    ASSUME NEW v, NEW q, NEW k \in Keys
    PROVE  k \in Apply(v, q) <=>
              IF Seen(q, k) = {} THEN k \in v
              ELSE \E n \in Seen(q, k) : /\ \A m \in Seen(q, k) : m <= n
                                         /\ q[n].type = "insert"
  BY DEF Apply, Seen

LEMMA ApplyKeys == ASSUME NEW v, NEW q PROVE Apply(v, q) \subseteq Keys
  BY DEF Apply

\* A non-empty set of indices has a greatest one.
LEMMA GreatestElement ==
    ASSUME NEW l \in Nat, NEW S \in SUBSET (1 .. l), S # {}
    PROVE  \E n \in S : \A m \in S : m <= n
  <1> DEFINE T == {d \in Nat : l - d \in S}
  <1>1. T \in SUBSET Nat
    OBVIOUS
  <1>2. T # {}
    <2>1. PICK x \in S : TRUE
      OBVIOUS
    <2>2. l - x \in Nat /\ l - (l - x) = x
      OBVIOUS
    <2> QED
      BY <2>2
  <1>3. PICK d \in T : \A e \in T : d <= e
    BY <1>1, <1>2, LeastElement
  <1>4. ASSUME NEW m \in S PROVE m <= l - d
    <2>1. l - m \in Nat /\ l - (l - m) = m
      OBVIOUS
    <2>2. d <= l - m
      BY <1>3, <2>1
    <2> QED
      BY <1>3, <2>2
  <1> QED
    BY <1>3, <1>4

\* One more request: an insert makes its key known, a delete forgets it.
LEMMA ApplyAppend ==
    ASSUME NEW v, NEW q \in Seq(ExtensionRequest), NEW r \in ExtensionRequest,
           NEW a, Extends(a, q, r)
    PROVE  /\ r.type = "insert" =>
                 Apply(v, a) = Apply(v, q) \cup {r.key}
           /\ r.type = "delete" =>
                 Apply(v, a) = Apply(v, q) \ {r.key}
           /\ r.type \notin {"insert", "delete"} =>
                 Apply(v, a) = Apply(v, q)
  <1>1. /\ a \in Seq(ExtensionRequest) /\ Len(a) = Len(q) + 1 /\ Len(q) \in Nat
        /\ \A i \in 1 .. Len(q) : a[i] = q[i]
        /\ a[Len(q) + 1] = r
    BY AppendProperties, LenProperties DEF Extends
  <1>2. DOMAIN a = 1 .. Len(q) + 1 /\ DOMAIN q = 1 .. Len(q)
    BY <1>1, LenProperties
  <1>3. r.key \in Keys
    BY DEF ExtensionRequest
  <1>4. ASSUME NEW k \in Keys, k # r.key \/ r.type \notin {"insert", "delete"}
        PROVE  k \in Apply(v, a) <=> k \in Apply(v, q)
    <2>1. Seen(a, k) = Seen(q, k)
      BY <1>1, <1>2, <1>4 DEF Seen
    <2>2. \A n \in Seen(q, k) : a[n] = q[n]
      BY <1>1, <1>2 DEF Seen
    <2> QED
      BY <2>1, <2>2, ApplyMember
  <1>5. ASSUME r.type \in {"insert", "delete"}
        PROVE  r.key \in Apply(v, a) <=> r.type = "insert"
    <2>1. /\ Len(q) + 1 \in Seen(a, r.key)
          /\ \A m \in Seen(a, r.key) : m <= Len(q) + 1 /\ m \in Nat
      BY <1>1, <1>2, <1>5 DEF Seen
    <2>2. \A n \in Seen(a, r.key) :
             (\A m \in Seen(a, r.key) : m <= n) <=> n = Len(q) + 1
      BY <1>1, <2>1
    <2> QED
      BY <1>1, <1>3, <2>1, <2>2, ApplyMember
  <1>6. Apply(v, a) \subseteq Keys /\ Apply(v, q) \subseteq Keys
    BY ApplyKeys
  <1>7. CASE r.type = "insert"
    BY <1>3, <1>4, <1>5, <1>6, <1>7
  <1>8. CASE r.type = "delete"
    BY <1>3, <1>4, <1>5, <1>6, <1>8
  <1>9. CASE r.type \notin {"insert", "delete"}
    BY <1>4, <1>6, <1>9
  <1> QED
    BY <1>7, <1>8, <1>9

\* Two lists of requests, one after the other.
LEMMA ApplyConcat ==
    ASSUME NEW v, NEW a \in Seq(ExtensionRequest),
           NEW b \in Seq(ExtensionRequest)
    PROVE  Apply(v, a \o b) = Apply(Apply(v, a), b)
  <1> DEFINE c == a \o b
  <1>1. /\ c \in Seq(ExtensionRequest) /\ Len(c) = Len(a) + Len(b)
        /\ Len(a) \in Nat /\ Len(b) \in Nat
        /\ \A i \in 1 .. Len(a) + Len(b) :
              c[i] = IF i <= Len(a) THEN a[i] ELSE b[i - Len(a)]
    BY ConcatProperties, LenProperties
  <1>2. /\ DOMAIN c = 1 .. Len(a) + Len(b)
        /\ DOMAIN a = 1 .. Len(a) /\ DOMAIN b = 1 .. Len(b)
    BY <1>1, LenProperties
  <1> HIDE DEF c
  <1>3. ASSUME NEW k \in Keys
        PROVE  k \in Apply(v, c) <=> k \in Apply(Apply(v, a), b)
    <2>1. \A n \in Seen(b, k) : /\ n + Len(a) \in Seen(c, k)
                                /\ c[n + Len(a)] = b[n]
      <3>1. \A n \in 1 .. Len(b) : /\ n + Len(a) \in 1 .. Len(a) + Len(b)
                                   /\ c[n + Len(a)] = b[n]
        <4> SUFFICES ASSUME NEW n \in 1 .. Len(b)
                     PROVE  /\ n + Len(a) \in 1 .. Len(a) + Len(b)
                            /\ c[n + Len(a)] = b[n]
          OBVIOUS
        <4>1. /\ n + Len(a) \in 1 .. Len(a) + Len(b)
              /\ ~(n + Len(a) <= Len(a)) /\ (n + Len(a)) - Len(a) = n
          BY <1>1
        <4> QED
          BY <1>1, <4>1
      <3> QED
        BY <1>2, <3>1 DEF Seen
    <2>2. \A n \in Seen(c, k) : n > Len(a) => n - Len(a) \in Seen(b, k)
      <3>1. \A n \in 1 .. Len(a) + Len(b) : n > Len(a) =>
                  n - Len(a) \in 1 .. Len(b) /\ c[n] = b[n - Len(a)]
        BY <1>1
      <3> QED
        BY <1>2, <3>1 DEF Seen
    <2>3. CASE Seen(b, k) = {}
      <3>1. \A n \in Seen(c, k) : n \in 1 .. Len(a) /\ c[n] = a[n]
        BY <1>1, <1>2, <2>2, <2>3 DEF Seen
      <3>2. \A n \in 1 .. Len(a) : c[n] = a[n] /\ n \in 1 .. Len(a) + Len(b)
        BY <1>1
      <3>3. Seen(c, k) = Seen(a, k)
        BY <1>2, <3>1, <3>2 DEF Seen
      <3>4. k \in Apply(v, c) <=> k \in Apply(v, a)
        BY <3>1, <3>3, ApplyMember
      <3> QED
        BY <2>3, <3>4, ApplyMember
    <2>4. CASE Seen(b, k) # {}
      <3>1. Seen(b, k) \in SUBSET (1 .. Len(b))
        BY <1>2 DEF Seen
      <3>2. PICK n \in Seen(b, k) : \A m \in Seen(b, k) : m <= n
        BY <1>1, <2>4, <3>1, GreatestElement
      <3>3. k \in Apply(Apply(v, a), b) <=> b[n].type = "insert"
        <4>1. \A m \in Seen(b, k) : (\A x \in Seen(b, k) : x <= m) <=> m = n
          BY <3>1, <3>2
        <4> QED
          BY <2>4, <3>2, <4>1, ApplyMember
      <3>4. /\ n + Len(a) \in Seen(c, k) /\ c[n + Len(a)] = b[n]
            /\ n \in Nat
        BY <1>1, <2>1, <3>1, <3>2
      <3>5. \A m \in Seen(c, k) : m <= n + Len(a) /\ m \in Nat
        <4> SUFFICES ASSUME NEW m \in Seen(c, k)
                     PROVE  m <= n + Len(a) /\ m \in Nat
          OBVIOUS
        <4>1. m \in 1 .. Len(a) + Len(b)
          BY <1>2 DEF Seen
        <4>2. CASE m > Len(a)
          BY <1>1, <2>2, <3>2, <3>4, <4>1, <4>2
        <4>3. CASE ~(m > Len(a))
          BY <1>1, <3>4, <4>1, <4>3
        <4> QED
          BY <4>2, <4>3
      <3>6. \A m \in Seen(c, k) :
                (\A x \in Seen(c, k) : x <= m) <=> m = n + Len(a)
        <4>1. n + Len(a) \in Nat
          BY <1>1, <3>4
        <4>2. \A m \in Nat : m <= n + Len(a) /\ n + Len(a) <= m => m = n + Len(a)
          BY <4>1
        <4> QED
          BY <3>4, <3>5, <4>2
      <3>7. k \in Apply(v, c) <=> b[n].type = "insert"
        BY <3>4, <3>6, ApplyMember
      <3> QED
        BY <3>3, <3>7
    <2> QED
      BY <2>3, <2>4
  <1>4. Apply(v, c) \subseteq Keys /\ Apply(Apply(v, a), b) \subseteq Keys
    BY ApplyKeys
  <1> QED
    BY <1>3, <1>4 DEF c

LEMMA ApplyEmpty == ASSUME NEW v \in SUBSET Keys PROVE Apply(v, << >>) = v
  <1>1. DOMAIN << >> = 1 .. 0
    BY EmptySeq, LenProperties
  <1>2. \A k \in Keys : Seen(<< >>, k) = {}
    BY <1>1 DEF Seen
  <1>3. \A k \in Keys : k \in Apply(v, << >>) <=> k \in v
    BY <1>2, ApplyMember
  <1>4. Apply(v, << >>) \subseteq Keys
    BY ApplyKeys
  <1> QED
    BY <1>3, <1>4

LEMMA ReleasesEmpty == Releases(<< >>) = 0
  <1>1. DOMAIN << >> = 1 .. 0
    BY EmptySeq, LenProperties
  <1>2. Releasing(<< >>) = {}
    BY <1>1 DEF Releasing
  <1> QED
    BY <1>2, FS_EmptySet DEF Releases, Releasing

LEMMA ReleasingFinite ==
    ASSUME NEW q \in Seq(ExtensionRequest)
    PROVE  /\ IsFiniteSet(Releasing(q))
           /\ Releases(q) = Cardinality(Releasing(q))
           /\ Releases(q) \in Nat
  <1>1. Releasing(q) \in SUBSET (1 .. Len(q)) /\ Len(q) \in Nat
    BY LenProperties DEF Releasing
  <1>2. IsFiniteSet(1 .. Len(q))
    BY <1>1, FS_Interval
  <1>3. IsFiniteSet(Releasing(q))
    BY <1>1, <1>2, FS_Subset
  <1>4. Releases(q) = Cardinality(Releasing(q))
    BY DEF Releases, Releasing
  <1> QED
    BY <1>3, <1>4, FS_CardinalityType

\* One more request.
LEMMA ReleasesAppend ==
    ASSUME NEW q \in Seq(ExtensionRequest), NEW r \in ExtensionRequest,
           NEW a, Extends(a, q, r)
    PROVE  Releases(a) =
              Releases(q) + IF r.type \in {"delete", "release"} THEN 1 ELSE 0
  <1>1. /\ a \in Seq(ExtensionRequest) /\ Len(a) = Len(q) + 1 /\ Len(q) \in Nat
        /\ \A i \in 1 .. Len(q) : a[i] = q[i]
        /\ a[Len(q) + 1] = r
    BY AppendProperties, LenProperties DEF Extends
  <1>2. DOMAIN a = 1 .. Len(q) + 1 /\ DOMAIN q = 1 .. Len(q)
    BY <1>1, LenProperties
  <1>3. Len(q) + 1 \notin Releasing(q)
    BY <1>1, <1>2 DEF Releasing
  <1>4. CASE r.type \in {"delete", "release"}
    <2>1. Releasing(a) = Releasing(q) \cup {Len(q) + 1}
      BY <1>1, <1>2, <1>4 DEF Releasing
    <2>2. Cardinality(Releasing(a)) = Cardinality(Releasing(q)) + 1
      BY <1>3, <2>1, FS_AddElement, ReleasingFinite
    <2> QED
      BY <1>1, <1>4, <2>2, ReleasingFinite
  <1>5. CASE r.type \notin {"delete", "release"}
    <2>1. Releasing(a) = Releasing(q)
      BY <1>1, <1>2, <1>5 DEF Releasing
    <2>2. /\ Releases(a) = Cardinality(Releasing(a))
          /\ Releases(q) = Cardinality(Releasing(q)) /\ Releases(q) \in Nat
      BY <1>1, ReleasingFinite
    <2>3. Releases(a) = Releases(q) + 0
      BY <2>1, <2>2
    <2> QED
      BY <1>5, <2>3
  <1> QED
    BY <1>4, <1>5

\* Two lists of requests, one after the other.
LEMMA ReleasesConcat ==
    ASSUME NEW a \in Seq(ExtensionRequest), NEW b \in Seq(ExtensionRequest)
    PROVE  Releases(a \o b) = Releases(a) + Releases(b)
  <1> DEFINE c == a \o b
             shifted == {n + Len(a) : n \in Releasing(b)}
             f == [n \in Releasing(b) |-> n + Len(a)]
  <1>1. /\ c \in Seq(ExtensionRequest) /\ Len(c) = Len(a) + Len(b)
        /\ Len(a) \in Nat /\ Len(b) \in Nat
        /\ \A i \in 1 .. Len(a) + Len(b) :
              c[i] = IF i <= Len(a) THEN a[i] ELSE b[i - Len(a)]
    BY ConcatProperties, LenProperties
  <1>2. /\ DOMAIN c = 1 .. Len(a) + Len(b)
        /\ DOMAIN a = 1 .. Len(a) /\ DOMAIN b = 1 .. Len(b)
    BY <1>1, LenProperties
  <1> HIDE DEF c
  <1>3. /\ \A n \in DOMAIN c : \/ n \in DOMAIN a /\ c[n] = a[n]
                               \/ /\ n - Len(a) \in DOMAIN b
                                  /\ c[n] = b[n - Len(a)]
                                  /\ n = (n - Len(a)) + Len(a)
        /\ \A n \in DOMAIN a : n \in DOMAIN c /\ c[n] = a[n]
        /\ \A n \in DOMAIN b : n + Len(a) \in DOMAIN c /\ c[n + Len(a)] = b[n]
    BY <1>1, <1>2
  <1>4. Releasing(c) = Releasing(a) \cup shifted
    BY <1>3 DEF Releasing
  <1>5. Releasing(a) \cap shifted = {}
    BY <1>1, <1>2 DEF Releasing
  <1>6. ExistsBijection(Releasing(b), shifted)
    <2>1. f \in [Releasing(b) -> shifted]
      OBVIOUS
    <2>2. \A m, n \in Releasing(b) : f[m] = f[n] => m = n
      BY <1>1, <1>2 DEF Releasing
    <2>3. \A t \in shifted : \E n \in Releasing(b) : f[n] = t
      OBVIOUS
    <2>4. f \in Bijection(Releasing(b), shifted)
      BY <2>1, <2>2, <2>3 DEF Bijection, Injection, Surjection, IsInjective
    <2> QED
      BY <2>4 DEF ExistsBijection
  <1>7. /\ IsFiniteSet(shifted)
        /\ Cardinality(shifted) = Cardinality(Releasing(b))
    BY <1>6, FS_Bijection, ReleasingFinite
  <1> HIDE DEF shifted
  <1>8. Cardinality(Releasing(c)) = Cardinality(Releasing(a))
                                    + Cardinality(shifted) - 0
    BY <1>4, <1>5, <1>7, FS_Union, FS_EmptySet, ReleasingFinite
  <1> QED
    <2>1. /\ Releases(c) = Cardinality(Releasing(c))
          /\ Releases(a) = Cardinality(Releasing(a)) /\ Releases(a) \in Nat
          /\ Releases(b) = Cardinality(Releasing(b)) /\ Releases(b) \in Nat
      BY <1>1, ReleasingFinite
    <2>2. Releases(c) = Releases(a) + Releases(b)
      BY <1>7, <1>8, <2>1
    <2> QED
      BY <2>2 DEF c

-----------------------------------------------------------------------------
(* The books of a table: what a change of it tells the extension worker. *)

\* The requests on their way while the extension worker processes b.
Pending(b, t) == b \o t.extension_requests

\* If the extension knew the keys of t once all requests were processed, it
\* will know the keys of r.
Follows(t, r) ==
    HasAsyncExtensions =>
        \A v \in SUBSET Keys, b \in Seq(ExtensionRequest) :
            Apply(v, Pending(b, t)) = Present(t) =>
                Apply(v, Pending(b, r)) = Present(r)

\* Between t and r the table has taken in n items, and keeps them or has
\* asked for their release.
Balances(t, r, n) ==
    \A b \in Seq(ExtensionRequest) :
        Size(r) + Releases(Pending(b, r))
            = Size(t) + Releases(Pending(b, t)) + n

\* Releases in all the requests on their way are a number.
LEMMA BooksType ==
    ASSUME NEW t \in TableRecord, NEW b \in Seq(ExtensionRequest)
    PROVE  /\ Size(t) \in Nat
           /\ Pending(b, t) \in Seq(ExtensionRequest)
           /\ Releases(Pending(b, t)) \in Nat
  <1>1. t.extension_requests \in Seq(ExtensionRequest)
    BY DEF TableRecord
  <1>2. Pending(b, t) \in Seq(ExtensionRequest)
    BY <1>1, ConcatProperties DEF Pending
  <1> QED
    BY <1>2, SizeType, ReleasesType

\* A request at the end of the queue is at the end of all requests.
LEMMA AppendToConcat ==
    ASSUME NEW S, NEW a \in Seq(S), NEW b \in Seq(S), NEW e \in S
    PROVE  a \o Append(b, e) = Append(a \o b, e)
  <1>1. /\ <<e>> \in Seq(S) /\ a \o b \in Seq(S)
    BY ConcatProperties
  <1>2. Append(b, e) = b \o <<e>> /\ Append(a \o b, e) = (a \o b) \o <<e>>
    BY <1>1, AppendIsConcat
  <1> QED
    BY <1>1, <1>2, ConcatAssociative

\* Between t and r the extension worker is told that type happened to k.
Told(t, r, type, k) ==
    Extends(r.extension_requests, t.extension_requests,
            [type |-> type, key |-> k])

\* What is told is the last of the requests on their way.
LEMMA ToldExtends ==
    ASSUME NEW t \in TableRecord, NEW r \in TableRecord, NEW k \in Keys,
           NEW type \in {"insert", "sample", "update", "delete", "release"},
           Told(t, r, type, k), NEW b \in Seq(ExtensionRequest)
    PROVE  \E e \in ExtensionRequest :
              /\ e.type = type /\ e.key = k
              /\ Extends(Pending(b, r), Pending(b, t), e)
  <1> DEFINE e == [type |-> type, key |-> k]
  <1>1. e \in ExtensionRequest /\ e.type = type /\ e.key = k
    BY DEF ExtensionRequest
  <1>2. t.extension_requests \in Seq(ExtensionRequest)
    BY DEF TableRecord
  <1>3. Extends(Pending(b, r), Pending(b, t), e)
    <2>1. r.extension_requests = Append(t.extension_requests, e)
      BY DEF Told, Extends
    <2> HIDE DEF e
    <2> QED
      BY <1>1, <1>2, <2>1, AppendToConcat DEF Pending, Extends
  <1> QED
    BY <1>1, <1>3

\* What one more request changes in the eyes of the extension.
LEMMA ToldApply ==
    ASSUME NEW t \in TableRecord, NEW r \in TableRecord, NEW k \in Keys,
           NEW type \in {"insert", "sample", "update", "delete", "release"},
           Told(t, r, type, k), NEW b \in Seq(ExtensionRequest), NEW v
    PROVE  /\ type = "insert" =>
                 Apply(v, Pending(b, r)) = Apply(v, Pending(b, t)) \cup {k}
           /\ type = "delete" =>
                 Apply(v, Pending(b, r)) = Apply(v, Pending(b, t)) \ {k}
           /\ type \notin {"insert", "delete"} =>
                 Apply(v, Pending(b, r)) = Apply(v, Pending(b, t))
  <1> DEFINE x == Pending(b, t)
             y == Pending(b, r)
  <1>1. x \in Seq(ExtensionRequest)
    BY BooksType
  <1>2. PICK e \in ExtensionRequest :
                /\ e.type = type /\ e.key = k /\ Extends(y, x, e)
    BY ToldExtends
  <1> HIDE DEF x, y
  <1>3. Extends(y, x, e)
    BY <1>2
  <1>4. /\ e.type = "insert" => Apply(v, y) = Apply(v, x) \cup {e.key}
        /\ e.type = "delete" => Apply(v, y) = Apply(v, x) \ {e.key}
        /\ e.type \notin {"insert", "delete"} => Apply(v, y) = Apply(v, x)
    <2>1. ASSUME e.type = "insert" PROVE Apply(v, y) = Apply(v, x) \cup {e.key}
      BY <1>1, <1>3, <2>1, ApplyAppend
    <2>2. ASSUME e.type = "delete" PROVE Apply(v, y) = Apply(v, x) \ {e.key}
      BY <1>1, <1>3, <2>2, ApplyAppend
    <2>3. ASSUME e.type \notin {"insert", "delete"}
          PROVE  Apply(v, y) = Apply(v, x)
      BY <1>1, <1>3, <2>3, ApplyAppend
    <2> QED
      BY <2>1, <2>2, <2>3
  <1> QED
    BY <1>2, <1>4 DEF x, y

\* What it changes in the number of items to be released.
LEMMA ToldReleases ==
    ASSUME NEW t \in TableRecord, NEW r \in TableRecord, NEW k \in Keys,
           NEW type \in {"insert", "sample", "update", "delete", "release"},
           Told(t, r, type, k), NEW b \in Seq(ExtensionRequest)
    PROVE  Releases(Pending(b, r)) = Releases(Pending(b, t))
              + IF type \in {"delete", "release"} THEN 1 ELSE 0
  <1> DEFINE x == Pending(b, t)
             y == Pending(b, r)
  <1>1. x \in Seq(ExtensionRequest)
    BY BooksType
  <1>2. PICK e \in ExtensionRequest :
                /\ e.type = type /\ e.key = k /\ Extends(y, x, e)
    BY ToldExtends
  <1> HIDE DEF x, y
  <1>3. Releases(y) =
            Releases(x) + IF e.type \in {"delete", "release"} THEN 1 ELSE 0
    BY <1>1, <1>2, ReleasesAppend
  <1> QED
    BY <1>2, <1>3 DEF x, y

\* From what is told follows what is known and what is to be released.
LEMMA BooksOfInsert ==
    ASSUME NEW t \in TableRecord, NEW r \in TableRecord, NEW k \in Keys,
           Told(t, r, "insert", k), Present(r) = Present(t) \cup {k},
           Size(r) = Size(t) + 1
    PROVE  Follows(t, r) /\ Balances(t, r, 1)
  <1>1. ASSUME NEW v, NEW b \in Seq(ExtensionRequest)
        PROVE  Apply(v, Pending(b, r)) = Apply(v, Pending(b, t)) \cup {k}
    BY ToldApply
  <1>2. ASSUME NEW b \in Seq(ExtensionRequest)
        PROVE  /\ Releases(Pending(b, r)) = Releases(Pending(b, t)) + 0
               /\ Releases(Pending(b, t)) \in Nat /\ Size(t) \in Nat
    BY ToldReleases, BooksType
  <1>3. Follows(t, r)
    BY <1>1 DEF Follows
  <1>4. Balances(t, r, 1)
    BY <1>2 DEF Balances
  <1> QED
    BY <1>3, <1>4

LEMMA BooksOfDelete ==
    ASSUME NEW t \in TableRecord, NEW r \in TableRecord, NEW k \in Keys,
           Told(t, r, "delete", k), Present(r) = Present(t) \ {k},
           Size(r) = Size(t) - 1
    PROVE  Follows(t, r) /\ Balances(t, r, 0)
  <1>1. ASSUME NEW v, NEW b \in Seq(ExtensionRequest)
        PROVE  Apply(v, Pending(b, r)) = Apply(v, Pending(b, t)) \ {k}
    BY ToldApply
  <1>2. ASSUME NEW b \in Seq(ExtensionRequest)
        PROVE  /\ Releases(Pending(b, r)) = Releases(Pending(b, t)) + 1
               /\ Releases(Pending(b, t)) \in Nat /\ Size(t) \in Nat
    BY ToldReleases, BooksType
  <1>3. Follows(t, r)
    BY <1>1 DEF Follows
  <1>4. Balances(t, r, 0)
    BY <1>2 DEF Balances
  <1> QED
    BY <1>3, <1>4

LEMMA BooksOfRelease ==
    ASSUME NEW t \in TableRecord, NEW r \in TableRecord, NEW k \in Keys,
           Told(t, r, "release", k), Present(r) = Present(t)
    PROVE  Follows(t, r) /\ Balances(t, r, 1)
  <1>1. ASSUME NEW v, NEW b \in Seq(ExtensionRequest)
        PROVE  Apply(v, Pending(b, r)) = Apply(v, Pending(b, t))
    BY ToldApply
  <1>2. ASSUME NEW b \in Seq(ExtensionRequest)
        PROVE  /\ Releases(Pending(b, r)) = Releases(Pending(b, t)) + 1
               /\ Releases(Pending(b, t)) \in Nat /\ Size(t) \in Nat
    BY ToldReleases, BooksType
  <1>3. Size(r) = Size(t)
    BY DEF Size
  <1>4. Follows(t, r)
    BY <1>1 DEF Follows
  <1>5. Balances(t, r, 1)
    BY <1>2, <1>3 DEF Balances
  <1> QED
    BY <1>4, <1>5

\* Changes that tell the extension worker nothing new about items.
LEMMA BooksSame ==
    ASSUME NEW t \in TableRecord, NEW r \in TableRecord,
           Present(r) = Present(t),
           \/ r.extension_requests = t.extension_requests
           \/ \E k \in Keys, type \in {"sample", "update"} : Told(t, r, type, k)
    PROVE  Follows(t, r) /\ Balances(t, r, 0)
  <1>1. Size(r) = Size(t)
    BY DEF Size
  <1>2. \A b \in Seq(ExtensionRequest) :
             Size(t) \in Nat /\ Releases(Pending(b, t)) \in Nat
    BY BooksType
  <1>3. CASE r.extension_requests = t.extension_requests
    <2>1. \A b : Pending(b, r) = Pending(b, t)
      BY <1>3 DEF Pending
    <2> QED
      BY <1>1, <1>2, <2>1 DEF Follows, Balances
  <1>4. ASSUME NEW k \in Keys, NEW type \in {"sample", "update"},
               Told(t, r, type, k)
        PROVE  Follows(t, r) /\ Balances(t, r, 0)
    <2>1. /\ type \in {"insert", "sample", "update", "delete", "release"}
          /\ type \notin {"insert", "delete"}
          /\ type \notin {"delete", "release"}
      BY <1>4
    <2>2. ASSUME NEW v, NEW b \in Seq(ExtensionRequest)
          PROVE  Apply(v, Pending(b, r)) = Apply(v, Pending(b, t))
      BY <1>4, <2>1, ToldApply
    <2>3. ASSUME NEW b \in Seq(ExtensionRequest)
          PROVE  Releases(Pending(b, r)) = Releases(Pending(b, t)) + 0
      BY <1>4, <2>1, ToldReleases
    <2>4. Follows(t, r)
      BY <2>2 DEF Follows
    <2>5. Balances(t, r, 0)
      BY <1>1, <1>2, <2>3 DEF Balances
    <2> QED
      BY <2>4, <2>5
  <1> QED
    BY <1>3, <1>4

\* The books of two changes, one after the other.
LEMMA BooksChain ==
    ASSUME NEW t \in TableRecord, NEW u \in TableRecord, NEW r \in TableRecord,
           NEW m \in Nat, NEW n \in Nat,
           Follows(t, u), Follows(u, r), Balances(t, u, m), Balances(u, r, n)
    PROVE  Follows(t, r) /\ Balances(t, r, m + n)
  <1>1. Follows(t, r)
    BY DEF Follows
  <1>2. ASSUME NEW b \in Seq(ExtensionRequest)
        PROVE  Size(r) + Releases(Pending(b, r))
                 = Size(t) + Releases(Pending(b, t)) + (m + n)
    <2>1. /\ Size(u) + Releases(Pending(b, u))
                = Size(t) + Releases(Pending(b, t)) + m
          /\ Size(r) + Releases(Pending(b, r))
                = Size(u) + Releases(Pending(b, u)) + n
      BY DEF Balances
    <2>2. /\ Size(t) \in Nat /\ Releases(Pending(b, t)) \in Nat
          /\ Size(u) \in Nat /\ Releases(Pending(b, u)) \in Nat
          /\ Size(r) \in Nat /\ Releases(Pending(b, r)) \in Nat
      BY BooksType
    <2> QED
      BY <2>1, <2>2
  <1> QED
    BY <1>1, <1>2 DEF Balances

\* DeleteItem asks for the release of the item that it takes out of the table.
LEMMA DeleteBooks ==
    ASSUME NEW t \in TableRecord, NEW k \in Keys,
           t.data[k] # None, t.sampler[k] # None, t.remover[k] # None
    PROVE  Follows(t, DeleteItem(t, k)) /\ Balances(t, DeleteItem(t, k), 0)
  <1> DEFINE r == DeleteItem(t, k)
             u == [t EXCEPT
                !.data[k] = None,
                !.episode_refs = DropEpisodeRefs(@, k),
                !.num_deleted_episodes =
                    @ + Cardinality(LastRefs(t.episode_refs, k)),
                !.limiter = LimiterDelete(@)]
             v == [u EXCEPT !.sampler[k] = None, !.remover[k] = None]
  <1>1. r \in TableRecord /\ r.data = [t.data EXCEPT ![k] = None]
    BY DeleteItemFacts
  <1>2. Told(t, r, "delete", k)
    <2>1. r = ExtensionOperation(v, "delete", k)
      BY DEF DeleteItem
    <2>2. u.extension_requests = t.extension_requests /\ u \in TableRecord
      BY EraseFacts DEF TableRecord
    <2> HIDE DEF u
    <2>3. v.extension_requests = u.extension_requests /\ v \in TableRecord
      BY <2>2 DEF TableRecord, Selector
    <2> HIDE DEF v
    <2> QED
      BY <2>1, <2>2, <2>3 DEF ExtensionOperation, TableRecord, Told, Extends
  <1> HIDE DEF r
  <1>3. Present(r) = Present(t) \ {k} /\ Size(r) = Size(t) - 1
    BY <1>1, SizeOfDelete DEF Present, TableRecord
  <1>4. Follows(t, r) /\ Balances(t, r, 0)
    BY <1>1, <1>2, <1>3, BooksOfDelete
  <1> QED
    BY <1>4 DEF r

\* UpdateItem neither adds nor removes an item.
LEMMA UpdateBooks ==
    ASSUME NEW t \in TableRecord, NEW k \in Keys, NEW p \in Priorities
    PROVE  Follows(t, UpdateItem(t, k, p)) /\ Balances(t, UpdateItem(t, k, p), 0)
  <1> DEFINE r == UpdateItem(t, k, p)
             u == [t EXCEPT !.data[k].priority = p]
             v == [u EXCEPT !.sampler[k] = p]
             w == [u EXCEPT !.sampler[k] = p, !.remover[k] = p]
  <1>1. r \in TableRecord
    BY UpdateItemType
  <1>2. CASE t.data[k] = None
    <2>1. r = t
      BY <1>2 DEF UpdateItem
    <2> QED
      BY <2>1, BooksSame
  <1>3. CASE t.data[k] # None
    <2> DEFINE x == [priority |-> p, times_sampled |-> t.data[k].times_sampled]
    <2>1. /\ r.data = [t.data EXCEPT ![k] = x]
          /\ r.sampler = t.sampler \/ r.sampler = [t.sampler EXCEPT ![k] = p]
          /\ r.remover = t.remover \/ r.remover = [t.remover EXCEPT ![k] = p]
          /\ UpdateOk(t, k, p) => /\ r.sampler = [t.sampler EXCEPT ![k] = p]
                                  /\ r.remover = [t.remover EXCEPT ![k] = p]
      BY <1>3, UpdateItemFacts
    <2>2. t.data[k].times_sampled \in Nat
      BY <1>3 DEF TableRecord, Item
    <2>3. x # None
      BY <2>2, NoneIsNoItem DEF Item
    <2> HIDE DEF x
    <2>4. Present(r) = Present(t)
      BY <1>3, <2>1, <2>3 DEF Present, TableRecord
    <2>5. r = u \/ r = v \/ r = ExtensionOperation(w, "update", k)
      BY <1>3 DEF UpdateItem
    <2>6. u.extension_requests = t.extension_requests
      BY DEF TableRecord
    <2> HIDE DEF u
    <2>7. /\ v.extension_requests = u.extension_requests
          /\ w.extension_requests = u.extension_requests
      <3>1. u \in TableRecord
        <4>1. [t.data[k] EXCEPT !.priority = p] \in Item
          BY <1>3 DEF TableRecord, Item
        <4> QED
          BY <4>1 DEF u, TableRecord
      <3> QED
        BY <3>1 DEF TableRecord, Selector
    <2> HIDE DEF v, w
    <2>8. \/ r.extension_requests = t.extension_requests
          \/ Told(t, r, "update", k)
      <3>1. CASE r = ExtensionOperation(w, "update", k)
        BY <1>1, <2>6, <2>7, <3>1 DEF ExtensionOperation, TableRecord, Told, Extends
      <3> QED
        BY <2>5, <2>6, <2>7, <3>1
    <2> HIDE DEF r
    <2>9. Follows(t, r) /\ Balances(t, r, 0)
      BY <1>1, <2>4, <2>8, BooksSame
    <2> QED
      BY <2>9 DEF r
  <1> QED
    BY <1>2, <1>3

\* ExtensionOperation tells the extension worker, or need not.
LEMMA OperationIsTold ==
    ASSUME NEW t \in TableRecord, NEW k \in Keys,
           NEW type \in {"insert", "sample", "update", "delete", "release"}
    PROVE  LET r == ExtensionOperation(t, type, k)
           IN \/ Told(t, r, type, k)
              \/ /\ r = t
                 /\ ~HasAsyncExtensions /\ type \notin {"delete", "release"}
  BY DEF ExtensionOperation, TableRecord, Told, Extends

\* InsertItem tells of the item that it puts into the table.
LEMMA InsertBooks ==
    ASSUME NEW t \in TableRecord, NEW k \in Keys, NEW p \in Priorities,
           t.data[k] = None, InsertOk(t, k, p)
    PROVE  /\ Follows(t, InsertItem(t, k, p))
           /\ Balances(t, InsertItem(t, k, p), 1)
  <1> DEFINE r == InsertItem(t, k, p)
             x == [priority |-> p, times_sampled |-> 0]
             u == [t EXCEPT !.data[k] = x]
             refs == AddEpisodeRefs(u.episode_refs, k)
             w == [u EXCEPT !.sampler[k] = p, !.remover[k] = p,
                            !.episode_refs = refs]
  <1>1. r \in TableRecord /\ r.data = [t.data EXCEPT ![k] = x]
    <2>1. r \in TableRecord
      BY InsertItemFacts
    <2> QED
      BY <2>1, InsertItemData
  <1>2. x \in Item
    BY DEF Item
  <1>3. r = ExtensionOperation(w, "insert", k)
    BY DEF InsertItem, InsertOk
  <1> HIDE DEF x
  <1>4. u \in TableRecord /\ u.extension_requests = t.extension_requests
    BY <1>2 DEF TableRecord
  <1> HIDE DEF u
  <1>5. refs \in [Episodes -> Int]
    BY <1>4, EpisodeRefsType DEF TableRecord
  <1> HIDE DEF refs
  <1>6. w \in TableRecord /\ w.extension_requests = u.extension_requests
    BY <1>4, <1>5 DEF TableRecord, Selector
  <1> HIDE DEF w
  <1>7. \/ Told(w, r, "insert", k)
        \/ r = w /\ ~HasAsyncExtensions
    BY <1>3, <1>6, OperationIsTold
  <1> HIDE DEF r
  <1>8. Size(r) = Size(t) + 1
    BY <1>1, <1>2, SizeOfInsert
  <1>9. Present(r) = Present(t) \cup {k}
    BY <1>1, <1>2, NoneIsNoItem DEF Present, TableRecord
  <1>10. CASE Told(w, r, "insert", k)
    <2>1. Told(t, r, "insert", k)
      BY <1>4, <1>6, <1>10 DEF Told
    <2>2. Follows(t, r) /\ Balances(t, r, 1)
      BY <1>1, <1>8, <1>9, <2>1, BooksOfInsert
    <2> QED
      BY <2>2 DEF r
  <1>11. CASE r = w /\ ~HasAsyncExtensions
    <2>1. \A b : Pending(b, r) = Pending(b, t)
      BY <1>4, <1>6, <1>11 DEF Pending
    <2>2. \A b \in Seq(ExtensionRequest) :
             Size(t) \in Nat /\ Releases(Pending(b, t)) \in Nat
      BY BooksType
    <2>3. Balances(t, r, 1)
      BY <1>8, <2>1, <2>2 DEF Balances
    <2>4. Follows(t, r)
      BY <1>11 DEF Follows
    <2> QED
      BY <2>3, <2>4 DEF r
  <1> QED
    BY <1>7, <1>10, <1>11

\* The request to release an item that only updated another.
LEMMA ReleaseBooks ==
    ASSUME NEW t \in TableRecord, NEW k \in Keys
    PROVE  /\ Follows(t, ExtensionOperation(t, "release", k))
           /\ Balances(t, ExtensionOperation(t, "release", k), 1)
  <1> DEFINE r == ExtensionOperation(t, "release", k)
  <1>1. r \in TableRecord /\ r.data = t.data
    BY ExtensionOperationFacts
  <1>2. Told(t, r, "release", k)
    BY OperationIsTold
  <1> HIDE DEF r
  <1>3. Present(r) = Present(t)
    BY <1>1, SizeOfSame
  <1>4. Follows(t, r) /\ Balances(t, r, 1)
    BY <1>1, <1>2, <1>3, BooksOfRelease
  <1> QED
    BY <1>4 DEF r

\* SampleItem keeps the item or deletes it.
LEMMA SampleBooks ==
    ASSUME NEW t \in TableRecord, NEW k \in Keys,
           t.data[k] # None, t.sampler[k] # None, t.remover[k] # None
    PROVE  Follows(t, SampleItem(t, k)) /\ Balances(t, SampleItem(t, k), 0)
  <1> DEFINE l == CommitSample(t.limiter)
             m == IF t.data[k].times_sampled = 0 THEN t.num_unique_samples + 1
                  ELSE t.num_unique_samples
             i == [priority |-> t.data[k].priority,
                   times_sampled |-> t.data[k].times_sampled + 1]
             u == [t EXCEPT !.limiter = l, !.num_unique_samples = m,
                            !.data[k] = i]
             v == ExtensionOperation(u, "sample", k)
  <1>1. l \in Limiter
    BY LimiterType DEF TableRecord
  <1>2. t.data[k] \in Item /\ t.data[k].times_sampled \in Nat
    BY DEF TableRecord, Item
  <1>3. m \in Nat /\ i \in Item /\ i # None
    BY <1>2, NoneIsNoItem DEF TableRecord, Item
  <1>4. SampleItem(t, k) = v \/ SampleItem(t, k) = DeleteItem(v, k)
    <2>1. [t.data[k] EXCEPT !.times_sampled = @ + 1] = i
      BY <1>2 DEF Item
    <2>2. [t EXCEPT !.limiter = CommitSample(@),
                    !.num_unique_samples = IF t.data[k].times_sampled = 0
                                           THEN @ + 1 ELSE @,
                    !.data[k].times_sampled = @ + 1] = u
      BY <2>1
    <2> QED
      BY <2>2 DEF SampleItem
  <1> HIDE DEF l, m, i
  <1>5. /\ u \in TableRecord /\ u.data = [t.data EXCEPT ![k] = i]
        /\ u.sampler = t.sampler /\ u.remover = t.remover
        /\ u.extension_requests = t.extension_requests
    BY <1>1, <1>3 DEF TableRecord
  <1> HIDE DEF u
  <1>6. Present(u) = Present(t) /\ u.data[k] # None
    BY <1>3, <1>5 DEF Present, TableRecord
  <1>7. /\ v \in TableRecord /\ v.data = u.data
        /\ v.sampler = u.sampler /\ v.remover = u.remover
    BY <1>5, ExtensionOperationFacts
  <1>8. Told(u, v, "sample", k) \/ v = u
    BY <1>5, OperationIsTold
  <1> HIDE DEF v
  <1>9. Present(v) = Present(t)
    BY <1>6, <1>7, SizeOfSame
  <1>10. \/ v.extension_requests = t.extension_requests
         \/ Told(t, v, "sample", k)
    BY <1>5, <1>8 DEF Told
  <1>11. Follows(t, v) /\ Balances(t, v, 0)
    BY <1>7, <1>9, <1>10, BooksSame
  <1>12. Follows(v, DeleteItem(v, k)) /\ Balances(v, DeleteItem(v, k), 0)
    BY <1>5, <1>6, <1>7, DeleteBooks
  <1>13. DeleteItem(v, k) \in TableRecord
    BY <1>7, DeleteItemType
  <1>14. /\ Follows(t, DeleteItem(v, k))
         /\ Balances(t, DeleteItem(v, k), 0 + 0)
    BY <1>7, <1>11, <1>12, <1>13, BooksChain
  <1> QED
    BY <1>4, <1>11, <1>14

-----------------------------------------------------------------------------
(* The invariant. *)

\* The inserts that have been carried out, the one that is being carried out,
\* and the items that have left the table.
Inserted == {i \in InsertRequests : inserts[i].state = "inserted"}
InHand == IF worker.pc \in {"evicted", "registered"} THEN 1 ELSE 0
Gone == memory.local + memory.shared + memory.freed

ItemInv ==
    /\ extension.pc # "process" => extension.batch = << >>
    /\ IsFiniteSet(Inserted)
    /\ ExtensionsFollowTable
    /\ ItemsConserved

\* The numbers of items are numbers.
LEMMA ItemNumbers ==
    ASSUME TypeOK
    PROVE  /\ Gone \in Nat /\ InHand \in Nat /\ Size(table) \in Nat
           /\ Releases(Pending(extension.batch, table)) \in Nat
           /\ table \in TableRecord
           /\ extension.batch \in Seq(ExtensionRequest)
           /\ extension.view \in SUBSET Keys
  <1>1. /\ table \in TableRecord /\ memory \in MemoryRecord
        /\ extension.batch \in Seq(ExtensionRequest)
        /\ extension.view \in SUBSET Keys
    BY DEF TypeOK, ExtensionRecord
  <1>2. Gone \in Nat /\ InHand \in Nat
    BY <1>1 DEF Gone, InHand, MemoryRecord
  <1> QED
    BY <1>1, <1>2, BooksType

LEMMA ConservedMeaning ==
    ASSUME TypeOK
    PROVE  ItemsConserved <=>
              (Sound => Cardinality(Inserted) + InHand
                  = Size(table) + Gone
                    + Releases(Pending(extension.batch, table)))
  <1>1. /\ memory.local \in Nat /\ memory.shared \in Nat /\ memory.freed \in Nat
        /\ Size(table) \in Nat
        /\ Releases(Pending(extension.batch, table)) \in Nat
    BY ItemNumbers DEF TypeOK, MemoryRecord
  <1>2. Size(table) + memory.local + memory.shared + memory.freed
           + Releases(Pending(extension.batch, table))
        = Size(table) + Gone + Releases(Pending(extension.batch, table))
    BY <1>1 DEF Gone
  <1> QED
    BY <1>2 DEF ItemsConserved, Inserted, InHand, Requests, Pending

LEMMA FollowMeaning ==
    ExtensionsFollowTable <=>
        (HasAsyncExtensions /\ Sound =>
            Apply(extension.view, Pending(extension.batch, table))
                = Present(table))
  BY DEF ExtensionsFollowTable, Requests, Pending

\* The same in the next state.
LEMMA ItemNumbersPrime ==
    ASSUME TypeOK'
    PROVE  /\ Gone' \in Nat /\ InHand' \in Nat /\ Size(table') \in Nat
           /\ Releases(Pending(extension'.batch, table')) \in Nat
           /\ table' \in TableRecord
           /\ extension'.batch \in Seq(ExtensionRequest)
           /\ extension'.view \in SUBSET Keys
  <1>1. /\ table' \in TableRecord /\ memory' \in MemoryRecord
        /\ extension'.batch \in Seq(ExtensionRequest)
        /\ extension'.view \in SUBSET Keys
    BY DEF TypeOK, ExtensionRecord
  <1>2. Gone' \in Nat /\ InHand' \in Nat
    BY <1>1 DEF Gone, InHand, MemoryRecord
  <1> QED
    BY <1>1, <1>2, BooksType

LEMMA ConservedMeaningPrime ==
    ASSUME TypeOK'
    PROVE  ItemsConserved' <=>
              (Sound' => Cardinality(Inserted') + InHand'
                  = Size(table') + Gone'
                    + Releases(Pending(extension'.batch, table')))
  <1>1. /\ memory'.local \in Nat /\ memory'.shared \in Nat
        /\ memory'.freed \in Nat /\ Size(table') \in Nat
        /\ Releases(Pending(extension'.batch, table')) \in Nat
    BY ItemNumbersPrime DEF TypeOK, MemoryRecord
  <1>2. Size(table') + memory'.local + memory'.shared + memory'.freed
           + Releases(Pending(extension'.batch, table'))
        = Size(table') + Gone' + Releases(Pending(extension'.batch, table'))
    BY <1>1 DEF Gone
  <1> QED
    BY <1>2 DEF ItemsConserved, Inserted, InHand, Requests, Pending, Size,
                Present, Releases

LEMMA FollowMeaningPrime ==
    ExtensionsFollowTable' <=>
        (HasAsyncExtensions /\ Sound' =>
            Apply(extension'.view, Pending(extension'.batch, table'))
                = Present(table'))
  BY DEF ExtensionsFollowTable, Requests, Pending, Apply, Present

LEMMA InitItems == Init => ItemInv
  <1> SUFFICES ASSUME Init PROVE ItemInv
    OBVIOUS
  <1>1. /\ table = EmptyTable /\ extension.batch = << >> /\ extension.view = {}
        /\ memory.local = 0 /\ memory.shared = 0 /\ memory.freed = 0
        /\ worker.pc = "insert"
    BY DEF Init
  <1>2. Inserted = {}
    BY DEF Init, Inserted
  <1>3. IsFiniteSet(Inserted) /\ Cardinality(Inserted) = 0
    BY <1>2, FS_EmptySet
  <1>4. TypeOK
    BY InitType DEF TypeInv
  <1>5. Pending(extension.batch, table) = << >>
    <2>1. table.extension_requests = << >>
      BY <1>1 DEF EmptyTable
    <2>2. << >> \in Seq(ExtensionRequest)
      BY EmptySeq
    <2>3. << >> \o << >> = << >>
      BY <2>2, ConcatEmptySeq
    <2> QED
      BY <1>1, <2>1, <2>3 DEF Pending
  <1>6. Present(table) = {} /\ Size(table) = 0
    <2>1. Present(table) = {}
      BY <1>1 DEF Present, EmptyTable
    <2> QED
      BY <2>1, FS_EmptySet DEF Size
  <1>7. Apply({}, << >>) = {} /\ Releases(<< >>) = 0
    BY ApplyEmpty, ReleasesEmpty
  <1>8. ExtensionsFollowTable
    BY <1>1, <1>5, <1>6, <1>7, FollowMeaning
  <1>9. Gone = 0 /\ InHand = 0
    BY <1>1 DEF Gone, InHand
  <1>10. ItemsConserved
    BY <1>3, <1>4, <1>5, <1>6, <1>7, <1>9, ConservedMeaning
  <1> QED
    BY <1>1, <1>3, <1>8, <1>10 DEF ItemInv

\* A step in which n items enter the table, for the insert in hand.
LEMMA ItemsMove ==
    ASSUME TypeOK, TypeOK', ItemInv, NEW n \in Nat,
           Sound' => /\ Sound /\ Follows(table, table')
                     /\ Balances(table, table', n) /\ InHand' = InHand + n,
           extension'.batch = extension.batch, extension'.view = extension.view,
           extension.pc = "process" => extension'.pc = "process",
           Gone' = Gone, Inserted' = Inserted
    PROVE  ItemInv'
  <1>1. /\ table \in TableRecord /\ table' \in TableRecord
        /\ extension.batch \in Seq(ExtensionRequest)
        /\ extension.view \in SUBSET Keys
    BY ItemNumbers, ItemNumbersPrime
  <1>2. ExtensionsFollowTable'
    BY <1>1, FollowMeaning, FollowMeaningPrime DEF ItemInv, Follows
  <1>3. ItemsConserved'
    <2> SUFFICES ASSUME Sound'
                 PROVE  Cardinality(Inserted) + InHand'
                  = Size(table') + Gone
                    + Releases(Pending(extension.batch, table'))
      BY ConservedMeaningPrime
    <2>1. Cardinality(Inserted) + InHand
                  = Size(table) + Gone
                    + Releases(Pending(extension.batch, table))
      BY ConservedMeaning DEF ItemInv
    <2>2. Size(table') + Releases(Pending(extension.batch, table'))
             = Size(table) + Releases(Pending(extension.batch, table)) + n
      BY <1>1 DEF Balances
    <2>3. /\ Gone \in Nat /\ InHand \in Nat /\ Size(table) \in Nat
          /\ Size(table') \in Nat
          /\ Releases(Pending(extension.batch, table)) \in Nat
          /\ Releases(Pending(extension.batch, table')) \in Nat
      BY ItemNumbers, ItemNumbersPrime
    <2>4. Cardinality(Inserted) \in Nat
      BY FS_CardinalityType DEF ItemInv
    <2> QED
      BY <2>1, <2>2, <2>3, <2>4
  <1> QED
    BY <1>2, <1>3 DEF ItemInv

\* A step that leaves the table, the items and the extension alone.
LEMMA ItemsStay ==
    ASSUME TypeOK, TypeOK', ItemInv, UNCHANGED table, Sound' => Sound,
           InHand' = InHand,
           extension'.batch = extension.batch, extension'.view = extension.view,
           extension.pc = "process" => extension'.pc = "process",
           Gone' = Gone, Inserted' = Inserted
    PROVE  ItemInv'
  <1>1. table \in TableRecord /\ InHand \in Nat
    BY ItemNumbers
  <1>2. Follows(table, table') /\ Balances(table, table', 0)
    BY <1>1, BooksSame
  <1>3. InHand' = InHand + 0
    BY <1>1
  <1> QED
    BY <1>2, <1>3, ItemsMove

-----------------------------------------------------------------------------
(* One lemma per action. *)

\* A signal may wake the extension worker, nothing else.
LEMMA SignalExtensionItems ==
    ASSUME TypeOK, SignalExtension
    PROVE  /\ extension'.batch = extension.batch
           /\ extension'.view = extension.view
           /\ extension.pc = "process" => extension'.pc = "process"
  BY DEF SignalExtension, TypeOK, ExtensionRecord

\* The steps of the worker between the sections in which it changes the table.
LEMMA WorkerQuietItems ==
    ASSUME TypeInv, TypeInv', ItemInv,
           \/ WorkerSkipInsert \/ WorkerSampled \/ WorkerEndLoop
           \/ WorkerStops \/ WorkerContinues \/ WorkerExpires \/ WorkerSleeps
           \/ WorkerWakesOnDeadline \/ WorkerTerminates \/ WorkerDrains
           \/ WaitAgain("worker")
    PROVE  ItemInv'
  <1>1. UNCHANGED <<table, inserts, extension, memory>>
    BY DEF WorkerSkipInsert, WorkerSampled, WorkerEndLoop, WorkerStops,
           WorkerContinues, WorkerExpires, WorkerSleeps, WorkerWakesOnDeadline,
           WorkerTerminates, WorkerDrains, WaitAgain
  <1>2. worker \in WorkerRecord /\ TypeOK /\ TypeOK'
    BY DEF TypeInv, TypeOK
  <1>3. \/ worker' = worker
        \/ /\ worker.pc \notin {"evicted", "registered", "failed"}
           /\ worker'.pc \notin {"evicted", "registered", "failed"}
    <2> USE <1>2 DEF WorkerRecord
    <2>1. CASE WorkerSkipInsert
      BY <2>1 DEF WorkerSkipInsert
    <2>2. CASE WorkerSampled
      BY <2>2 DEF WorkerSampled
    <2>3. CASE WorkerEndLoop
      BY <2>3 DEF WorkerEndLoop
    <2>4. CASE WorkerStops
      BY <2>4 DEF WorkerStops
    <2>5. CASE WorkerContinues
      BY <2>5 DEF WorkerContinues
    <2>6. CASE WorkerExpires
      BY <2>6 DEF WorkerExpires, Idle
    <2>7. CASE WorkerSleeps
      BY <2>7 DEF WorkerSleeps, Idle
    <2>8. CASE WorkerWakesOnDeadline
      BY <2>8 DEF WorkerWakesOnDeadline
    <2>9. CASE WorkerTerminates
      BY <2>9 DEF WorkerTerminates
    <2>10. CASE WorkerDrains
      BY <2>10 DEF WorkerDrains
    <2>11. CASE WaitAgain("worker")
      BY <2>11 DEF WaitAgain
    <2> QED
      BY <2>1, <2>2, <2>3, <2>4, <2>5, <2>6, <2>7, <2>8, <2>9, <2>10, <2>11
  <1>4. InHand' = InHand /\ (Sound' => Sound)
    BY <1>3 DEF InHand, Sound
  <1>5. Inserted' = Inserted /\ Gone' = Gone
    BY <1>1 DEF Inserted, Gone
  <1> QED
    BY <1>1, <1>2, <1>4, <1>5, ItemsStay

\* The inserts that are dropped when the table closes had not been carried out.
LEMMA WorkerCancelsItems ==
    ASSUME TypeInv, TypeInv', RequestInv, ItemInv, WorkerCancels
    PROVE  ItemInv'
  <1>1. /\ worker \in WorkerRecord /\ TypeOK /\ TypeOK'
        /\ inserts \in [InsertRequests -> InsertRecord]
    BY DEF TypeInv, TypeOK
  <1>2. /\ UNCHANGED <<table, extension, memory>>
        /\ worker.pc = "cancel" /\ worker'.pc = "exited"
    BY <1>1 DEF WorkerCancels, WorkerRecord
  <1>3. \A i \in InsertRequests :
            inserts'[i].state = IF i \in Elements(worker.inserts)
                                THEN "dropped" ELSE inserts[i].state
    BY <1>1 DEF WorkerCancels, InsertRecord
  <1>4. \A i \in InsertRequests :
            i \in Elements(worker.inserts) => inserts[i].state = "enqueued"
    BY DEF RequestInv, InsertsInLine, InLine, EnqueuedInserts
  <1>5. Inserted' = Inserted
    BY <1>3, <1>4 DEF Inserted
  <1>6. Gone' = Gone /\ InHand' = InHand /\ (Sound' => Sound)
    BY <1>2 DEF Gone, InHand, Sound
  <1> QED
    BY <1>1, <1>2, <1>5, <1>6, ItemsStay

\* InsertOrAssignInternal, new key: the item enters the table, and perhaps
\* another one leaves it.
LEMMA WorkerInsertItems ==
    ASSUME TypeInv, TypeInv', ItemInv, WorkerInsert
    PROVE  ItemInv'
  <1> DEFINE i == inserts[Head(worker.inserts)]
             t == InsertItem(table, i.key, i.priority)
  <1>1. /\ worker \in WorkerRecord /\ TypeOK /\ TypeOK'
        /\ table \in TableRecord /\ worker.pc = "insert"
        /\ worker.inserts # << >> /\ table.data[i.key] = None
        /\ SignalExtension /\ UNCHANGED <<inserts, memory>>
    BY DEF TypeInv, TypeOK, WorkerInsert
  <1>2. i.key \in Keys /\ i.priority \in Priorities
    BY <1>1, HeadInsert
  <1>3. SelectorsAgree(table)
    BY <1>1, AgreementMeaning DEF TypeInv, Sound
  <1>4. \/ worker'.pc = "failed"
        \/ /\ InsertOk(table, i.key, i.priority)
           /\ worker'.pc = "registered"
           /\ table' = RegisterInsert(t)
        \/ /\ InsertOk(table, i.key, i.priority)
           /\ worker'.pc = "evicted"
           /\ \E k \in Known(t.remover) : table' = DeleteItem(t, k)
    BY <1>1 DEF WorkerInsert, WorkerRecord
  <1> HIDE DEF i
  <1>5. t \in TableRecord
    BY <1>1, <1>2, InsertItemFacts
  <1>6. InsertOk(table, i.key, i.priority) =>
            Follows(table, t) /\ Balances(table, t, 1) /\ SelectorsAgree(t)
    BY <1>1, <1>2, <1>3, InsertBooks, InsertKeepsAgreement
  <1> HIDE DEF t
  <1>7. worker'.pc # "failed" =>
            /\ Follows(t, table') /\ Balances(t, table', 0)
            /\ table' \in TableRecord
            /\ InsertOk(table, i.key, i.priority)
    <2>1. CASE table' = RegisterInsert(t)
      <3>1. /\ table' \in TableRecord /\ table'.data = t.data
            /\ table'.extension_requests = t.extension_requests
        BY <1>5, <2>1, RegisterInsertFacts
      <3>2. Present(table') = Present(t)
        BY <3>1, SizeOfSame
      <3> QED
        BY <1>4, <1>5, <3>1, <3>2, BooksSame
    <2>2. ASSUME NEW k \in Known(t.remover), table' = DeleteItem(t, k),
                 InsertOk(table, i.key, i.priority)
          PROVE  /\ Follows(t, table') /\ Balances(t, table', 0)
                 /\ table' \in TableRecord
      <3>1. k \in Keys /\ t.remover[k] # None
        BY DEF Known
      <3>2. t.data[k] # None /\ t.sampler[k] # None
        BY <1>6, <2>2, <3>1 DEF SelectorsAgree, AgreeOn
      <3> QED
        BY <1>5, <2>2, <3>1, <3>2, DeleteBooks, DeleteItemType
    <2> QED
      BY <1>4, <2>1, <2>2
  <1>8. worker'.pc # "failed" =>
            Follows(table, table') /\ Balances(table, table', 1 + 0)
    BY <1>1, <1>5, <1>6, <1>7, BooksChain
  <1>9. Sound /\ (Sound' => InHand' = InHand + 1)
    BY <1>1, <1>4 DEF InHand, Sound
  <1>10. Inserted' = Inserted /\ Gone' = Gone
    BY <1>1 DEF Inserted, Gone
  <1>11. Sound' => Follows(table, table') /\ Balances(table, table', 1)
    BY <1>8 DEF Sound
  <1> QED
    BY <1>1, <1>9, <1>10, <1>11, SignalExtensionItems, ItemsMove

\* InsertOrAssignInternal, known key.
LEMMA WorkerAssignItems ==
    ASSUME TypeInv, TypeInv', ItemInv, WorkerAssign
    PROVE  ItemInv'
  <1> DEFINE k == inserts[Head(worker.inserts)].key
             p == inserts[Head(worker.inserts)].priority
  <1>1. /\ worker \in WorkerRecord /\ TypeOK /\ TypeOK'
        /\ table \in TableRecord /\ worker.pc = "insert"
        /\ worker.inserts # << >> /\ table' = UpdateItem(table, k, p)
        /\ SignalExtension /\ UNCHANGED <<inserts, memory>>
    BY DEF TypeInv, TypeOK, WorkerAssign
  <1>2. k \in Keys /\ p \in Priorities
    BY <1>1, HeadInsert
  <1>3. worker'.pc \in {"failed", "updated"}
    BY <1>1 DEF WorkerAssign, WorkerRecord
  <1> HIDE DEF k, p
  <1>4. Follows(table, table') /\ Balances(table, table', 0)
    BY <1>1, <1>2, UpdateBooks
  <1>5. Sound /\ InHand' = InHand + 0
    BY <1>1, <1>3 DEF InHand, Sound
  <1>6. Inserted' = Inserted /\ Gone' = Gone
    BY <1>1 DEF Inserted, Gone
  <1> QED
    BY <1>1, <1>4, <1>5, <1>6, SignalExtensionItems, ItemsMove

\* The rest of InsertOrAssignInternal.
LEMMA WorkerEvictedItems ==
    ASSUME TypeInv, TypeInv', ItemInv, WorkerEvicted
    PROVE  ItemInv'
  <1>1. /\ worker \in WorkerRecord /\ TypeOK /\ TypeOK'
        /\ table \in TableRecord /\ worker.pc = "evicted"
        /\ table' = RegisterInsert(table)
        /\ UNCHANGED <<inserts, memory, extension>>
    BY DEF TypeInv, TypeOK, WorkerEvicted
  <1>2. worker'.pc = "registered"
    BY <1>1 DEF WorkerEvicted, WorkerRecord
  <1>3. /\ table' \in TableRecord /\ table'.data = table.data
        /\ table'.extension_requests = table.extension_requests
    BY <1>1, RegisterInsertFacts
  <1>4. Present(table') = Present(table)
    BY <1>3, SizeOfSame
  <1>5. Follows(table, table') /\ Balances(table, table', 0)
    BY <1>1, <1>3, <1>4, BooksSame
  <1>6. Sound /\ InHand' = InHand + 0
    BY <1>1, <1>2 DEF InHand, Sound
  <1>7. Inserted' = Inserted /\ Gone' = Gone
    BY <1>1 DEF Inserted, Gone
  <1> QED
    BY <1>1, <1>5, <1>6, <1>7, ItemsMove

LEMMA WorkerUpdatedItems ==
    ASSUME TypeInv, TypeInv', ItemInv, WorkerUpdated
    PROVE  ItemInv'
  <1> DEFINE k == inserts[Head(worker.inserts)].key
  <1>1. /\ worker \in WorkerRecord /\ TypeOK /\ TypeOK'
        /\ table \in TableRecord /\ worker.pc = "updated"
        /\ worker.inserts # << >>
        /\ table' = ExtensionOperation(table, "release", k)
        /\ SignalExtension /\ UNCHANGED <<inserts, memory>>
    BY DEF TypeInv, TypeOK, WorkerHolds, WorkerUpdated
  <1>2. k \in Keys
    BY <1>1, HeadInsert
  <1>3. worker'.pc = "registered"
    BY <1>1 DEF WorkerUpdated, WorkerRecord
  <1> HIDE DEF k
  <1>4. Follows(table, table') /\ Balances(table, table', 1)
    BY <1>1, <1>2, ReleaseBooks
  <1>5. Sound /\ InHand' = InHand + 1
    BY <1>1, <1>3 DEF InHand, Sound
  <1>6. Inserted' = Inserted /\ Gone' = Gone
    BY <1>1 DEF Inserted, Gone
  <1> QED
    BY <1>1, <1>4, <1>5, <1>6, SignalExtensionItems, ItemsMove

\* The insert in hand has been carried out.
LEMMA WorkerRegisteredItems ==
    ASSUME TypeInv, TypeInv', RequestInv, ItemInv, WorkerRegistered
    PROVE  ItemInv'
  <1> DEFINE i == Head(worker.inserts)
  <1>1. /\ worker \in WorkerRecord /\ TypeOK /\ TypeOK'
        /\ inserts \in [InsertRequests -> InsertRecord]
        /\ worker.pc = "registered" /\ worker.inserts # << >>
        /\ inserts' = [inserts EXCEPT ![i].state = "inserted"]
        /\ UNCHANGED <<table, extension, memory>>
    BY DEF TypeInv, TypeOK, WorkerHolds, WorkerRegistered
  <1>2. worker'.pc = "sample"
    BY <1>1 DEF WorkerRegistered, WorkerRecord
  <1>3. i \in InsertRequests /\ inserts[i].state = "enqueued"
    BY WorkerRegisteredRequests DEF EnqueuedInserts
  <1> HIDE DEF i
  <1>4. Inserted' = Inserted \cup {i} /\ i \notin Inserted
    BY <1>1, <1>3 DEF Inserted, InsertRecord
  <1>5. IsFiniteSet(Inserted) /\ Cardinality(Inserted) \in Nat
    BY FS_CardinalityType DEF ItemInv
  <1>6. /\ IsFiniteSet(Inserted')
        /\ Cardinality(Inserted') = Cardinality(Inserted) + 1
    BY <1>4, <1>5, FS_AddElement
  <1>7. InHand = 1 /\ InHand' = 0 /\ Sound
    BY <1>1, <1>2 DEF InHand, Sound
  <1>8. Gone' = Gone
    BY <1>1 DEF Gone
  <1>9. ExtensionsFollowTable'
    BY <1>1, <1>7, FollowMeaning, FollowMeaningPrime DEF ItemInv
  <1>10. ItemsConserved'
    <2>1. Cardinality(Inserted) + InHand
              = Size(table) + Gone + Releases(Pending(extension.batch, table))
      BY <1>1, <1>7, ConservedMeaning DEF ItemInv
    <2>2. Cardinality(Inserted') + InHand' = Cardinality(Inserted) + InHand
      BY <1>5, <1>6, <1>7
    <2>3. Cardinality(Inserted') + InHand'
              = Size(table') + Gone'
                + Releases(Pending(extension'.batch, table'))
      BY <1>1, <1>8, <2>1, <2>2
    <2> QED
      BY <1>1, <2>3, ConservedMeaningPrime
  <1> QED
    BY <1>1, <1>6, <1>9, <1>10 DEF ItemInv

\* SampleInternal.
LEMMA WorkerSampleItems ==
    ASSUME TypeInv, TypeInv', ItemInv, WorkerSample
    PROVE  ItemInv'
  <1>1. /\ worker \in WorkerRecord /\ TypeOK /\ TypeOK'
        /\ table \in TableRecord /\ worker.pc = "sample"
        /\ SignalExtension /\ UNCHANGED <<inserts, memory>>
    BY DEF TypeInv, TypeOK, WorkerSample
  <1>2. SelectorsAgree(table)
    BY <1>1, AgreementMeaning DEF TypeInv, Sound
  <1>3. worker'.pc \in {"crashed", "sampled"}
    BY <1>1 DEF WorkerSample, WorkerRecord
  <1>4. \/ table' = table
        \/ \E k \in Known(table.sampler) : table' = SampleItem(table, k)
    BY DEF WorkerSample
  <1>5. Follows(table, table') /\ Balances(table, table', 0)
    <2>1. CASE table' = table
      BY <1>1, <2>1, BooksSame
    <2>2. ASSUME NEW k \in Known(table.sampler), table' = SampleItem(table, k)
          PROVE  Follows(table, table') /\ Balances(table, table', 0)
      <3>1. k \in Keys /\ table.sampler[k] # None
        BY DEF Known
      <3>2. table.data[k] # None /\ table.remover[k] # None
        BY <1>2, <3>1 DEF SelectorsAgree, AgreeOn
      <3> QED
        BY <1>1, <2>2, <3>1, <3>2, SampleBooks
    <2> QED
      BY <1>4, <2>1, <2>2
  <1>6. Sound /\ InHand' = InHand + 0
    BY <1>1, <1>3 DEF InHand, Sound
  <1>7. Inserted' = Inserted /\ Gone' = Gone
    BY <1>1 DEF Inserted, Gone
  <1> QED
    BY <1>1, <1>5, <1>6, <1>7, SignalExtensionItems, ItemsMove

\* The extension worker starts, sleeps and hands items over.
LEMMA ExtensionQuietItems ==
    ASSUME TypeInv, TypeInv', ItemInv,
           ExtensionStarts \/ ExtensionHandsOff \/ ExtensionSleeps
    PROVE  ItemInv'
  <1>1. /\ extension \in ExtensionRecord /\ TypeOK /\ TypeOK'
        /\ memory \in MemoryRecord
        /\ UNCHANGED <<table, worker, inserts>>
    BY DEF TypeInv, TypeOK, ExtensionStarts, ExtensionHandsOff, ExtensionSleeps
  <1>2. /\ extension'.batch = extension.batch
        /\ extension'.view = extension.view
        /\ extension.pc # "process"
    BY <1>1 DEF ExtensionStarts, ExtensionHandsOff, ExtensionSleeps,
                ExtensionRecord
  <1>3. Gone' = Gone
    <2>1. CASE memory' = memory
      BY <2>1 DEF Gone
    <2>2. CASE /\ memory.shared = 0
               /\ memory' = [memory EXCEPT !.shared = memory.local, !.local = 0]
      BY <1>1, <2>2 DEF Gone, MemoryRecord
    <2> QED
      BY <2>1, <2>2 DEF ExtensionStarts, ExtensionHandsOff, ExtensionSleeps
  <1>4. InHand' = InHand /\ (Sound' => Sound) /\ Inserted' = Inserted
    BY <1>1 DEF InHand, Sound, Inserted
  <1> QED
    BY <1>1, <1>2, <1>3, <1>4, ItemsStay

\* Requests that are taken over are still on their way.
LEMMA ExtensionFetchesItems ==
    ASSUME TypeInv, TypeInv', ItemInv, ExtensionFetches
    PROVE  ItemInv'
  <1>1. /\ extension \in ExtensionRecord /\ TypeOK /\ TypeOK'
        /\ table \in TableRecord
        /\ UNCHANGED <<worker, inserts, memory>>
    BY DEF TypeInv, TypeOK, ExtensionFetches
  <1>2. /\ extension.batch = << >>
        /\ extension'.batch = table.extension_requests
        /\ extension'.view = extension.view /\ extension'.pc = "process"
    BY <1>1 DEF ExtensionFetches, ExtensionRecord, ItemInv
  <1>3. table'.extension_requests = << >> /\ table'.data = table.data
    BY <1>1 DEF ExtensionFetches, TableRecord
  <1>4. Pending(extension'.batch, table') = Pending(extension.batch, table)
    <2>1. table.extension_requests \in Seq(ExtensionRequest)
      BY <1>1 DEF TableRecord
    <2>2. /\ << >> \o table.extension_requests = table.extension_requests
          /\ table.extension_requests \o << >> = table.extension_requests
      BY <2>1, ConcatEmptySeq
    <2> QED
      BY <1>2, <1>3, <2>2 DEF Pending
  <1>5. Present(table') = Present(table) /\ Size(table') = Size(table)
    BY <1>3, SizeOfSame
  <1>6. InHand' = InHand /\ Sound' = Sound /\ Inserted' = Inserted /\ Gone' = Gone
    BY <1>1 DEF InHand, Sound, Inserted, Gone
  <1>7. ExtensionsFollowTable'
    BY <1>2, <1>4, <1>5, <1>6, FollowMeaning, FollowMeaningPrime DEF ItemInv
  <1>8. ItemsConserved'
    BY <1>1, <1>4, <1>5, <1>6, ConservedMeaning, ConservedMeaningPrime
       DEF ItemInv
  <1> QED
    BY <1>2, <1>6, <1>7, <1>8 DEF ItemInv

\* The requests of a batch have been processed.
LEMMA ExtensionProcessesItems ==
    ASSUME TypeInv, TypeInv', ItemInv, ExtensionProcesses
    PROVE  ItemInv'
  <1> DEFINE b == extension.batch
             q == table.extension_requests
  <1>1. /\ extension \in ExtensionRecord /\ TypeOK /\ TypeOK'
        /\ memory \in MemoryRecord
        /\ b \in Seq(ExtensionRequest) /\ q \in Seq(ExtensionRequest)
        /\ Releases(b) \in Nat /\ Releases(q) \in Nat
        /\ UNCHANGED <<table, worker, inserts>>
    BY ReleasesType DEF TypeInv, TypeOK, ExtensionRecord, TableRecord,
                        ExtensionProcesses
  <1>2. /\ extension'.batch = << >>
        /\ extension'.view = Apply(extension.view, b)
        /\ memory' = [memory EXCEPT !.local = memory.local + Releases(b)]
    BY <1>1 DEF ExtensionProcesses, ExtensionRecord
  <1>3. Pending(extension.batch, table) = b \o q
    BY DEF Pending
  <1>4. Pending(extension'.batch, table') = q
    BY <1>1, <1>2, ConcatEmptySeq DEF Pending
  <1>5. Gone' = Gone + Releases(b)
    BY <1>1, <1>2 DEF Gone, MemoryRecord
  <1>6. /\ InHand' = InHand /\ Sound' = Sound /\ Inserted' = Inserted
        /\ Present(table') = Present(table) /\ Size(table') = Size(table)
    BY <1>1 DEF InHand, Sound, Inserted
  <1>7. /\ Apply(extension.view, b \o q) = Apply(Apply(extension.view, b), q)
        /\ Releases(b \o q) = Releases(b) + Releases(q)
    BY <1>1, ApplyConcat, ReleasesConcat
  <1> HIDE DEF b, q
  <1>8. ExtensionsFollowTable'
    BY <1>2, <1>3, <1>4, <1>6, <1>7, FollowMeaning, FollowMeaningPrime
       DEF ItemInv
  <1>9. Gone \in Nat /\ Size(table) \in Nat
    BY <1>1, ItemNumbers
  <1>10. Size(table') + Gone' + Releases(q)
            = Size(table) + Gone + (Releases(b) + Releases(q))
    BY <1>1, <1>5, <1>6, <1>9
  <1>11. ItemsConserved'
    BY <1>1, <1>3, <1>4, <1>6, <1>7, <1>10, ConservedMeaning,
       ConservedMeaningPrime DEF ItemInv
  <1> QED
    BY <1>2, <1>6, <1>8, <1>11 DEF ItemInv

\* A signal wakes the worker at most.
LEMMA SignalWorkerItems ==
    ASSUME TypeOK, SignalWorker \/ UNCHANGED worker
    PROVE  InHand' = InHand /\ Sound' = Sound
  BY DEF TypeOK, SignalWorker, WorkerRecord, InHand, Sound

\* A client that releases an item only moves it.
LEMMA ReleaseOneItems ==
    ASSUME TypeOK, ReleaseOne \/ UNCHANGED memory
    PROVE  Gone' = Gone
  <1>1. memory \in MemoryRecord
    BY DEF TypeOK
  <1>2. CASE memory' = memory
    BY <1>2 DEF Gone
  <1>3. CASE memory' = [memory EXCEPT !.shared = memory.shared - 1,
                                      !.freed = memory.freed + 1]
    BY <1>1, <1>3 DEF Gone, MemoryRecord
  <1> QED
    BY <1>2, <1>3 DEF ReleaseOne

\* Clients enqueue requests; deadlines and timeouts pass.
LEMMA EnqueueItems ==
    ASSUME TypeInv, TypeInv', ItemInv,
           \/ \E i \in InsertRequests :
                 InsertOrAssignAsync(i) \/ InsertOrAssignTimesOut(i)
           \/ \E s \in SampleRequests : EnqueSampleRequest(s) \/ DeadlinePasses(s)
    PROVE  ItemInv'
  <1>1. /\ TypeOK /\ TypeOK' /\ inserts \in [InsertRequests -> InsertRecord]
    BY DEF TypeInv, TypeOK
  <1>2. /\ UNCHANGED <<table, extension>>
        /\ SignalWorker \/ UNCHANGED worker
        /\ ReleaseOne \/ UNCHANGED memory
    BY DEF InsertOrAssignAsync, InsertOrAssignTimesOut, EnqueSampleRequest,
           DeadlinePasses
  <1>3. Inserted' = Inserted
    <2>1. ASSUME NEW i \in InsertRequests, InsertOrAssignAsync(i)
          PROVE  Inserted' = Inserted
      <3>1. PICK state \in {"refused", "enqueued"} :
                /\ inserts[i].state = "new"
                /\ inserts' = [inserts EXCEPT ![i].state = state]
        BY <2>1 DEF InsertOrAssignAsync
      <3> QED
        BY <1>1, <3>1 DEF Inserted, InsertRecord
    <2>2. ASSUME NEW i \in InsertRequests, InsertOrAssignTimesOut(i)
          PROVE  Inserted' = Inserted
      BY <1>1, <2>2 DEF InsertOrAssignTimesOut, Inserted, InsertRecord
    <2>3. ASSUME NEW s \in SampleRequests,
                 EnqueSampleRequest(s) \/ DeadlinePasses(s)
          PROVE  Inserted' = Inserted
      BY <2>3 DEF EnqueSampleRequest, DeadlinePasses, Inserted
    <2> QED
      BY <2>1, <2>2, <2>3
  <1> QED
    BY <1>1, <1>2, <1>3, SignalWorkerItems, ReleaseOneItems, ItemsStay

\* MutateItems.
LEMMA MutateItemItems ==
    ASSUME TypeInv, TypeInv', ItemInv, NEW c \in Clients, MutateItem(c)
    PROVE  ItemInv'
  <1> DEFINE e == Head(client[c].edits)
  <1>1. /\ TypeOK /\ TypeOK' /\ table \in TableRecord
        /\ UNCHANGED <<worker, inserts, memory>>
        /\ SignalExtension /\ client[c].edits # << >>
        /\ client[c].edits \in Seq(Edit)
    BY DEF TypeInv, TypeOK, ClientRecord, MutateItem
  <1>2. e \in Edit
    BY <1>1, HeadTailProperties
  <1>3. e.key \in Keys /\ e.priority \in Priorities
    BY <1>2 DEF Edit
  <1>4. \/ table' = DeleteItem(table, e.key)
        \/ table' = UpdateItem(table, e.key, e.priority)
    BY DEF MutateItem
  <1> HIDE DEF e
  <1>5. Sound => Follows(table, table') /\ Balances(table, table', 0)
    <2> SUFFICES ASSUME Sound
                 PROVE  Follows(table, table') /\ Balances(table, table', 0)
      OBVIOUS
    <2>1. SelectorsAgree(table)
      BY AgreementMeaning DEF TypeInv
    <2>2. CASE table' = UpdateItem(table, e.key, e.priority)
      BY <1>1, <1>3, <2>2, UpdateBooks
    <2>3. CASE table' = DeleteItem(table, e.key) /\ table.data[e.key] = None
      <3>1. table' = table
        BY <2>3, DeleteItemMissing
      <3> QED
        BY <1>1, <3>1, BooksSame
    <2>4. CASE table' = DeleteItem(table, e.key) /\ table.data[e.key] # None
      <3>1. table.sampler[e.key] # None /\ table.remover[e.key] # None
        BY <1>3, <2>1, <2>4 DEF SelectorsAgree, AgreeOn
      <3> QED
        BY <1>1, <1>3, <2>4, <3>1, DeleteBooks
    <2> QED
      BY <1>4, <2>2, <2>3, <2>4
  <1>6. Sound' = Sound /\ InHand' = InHand + 0
    BY <1>1 DEF InHand, Sound
  <1>7. Inserted' = Inserted /\ Gone' = Gone
    BY <1>1 DEF Inserted, Gone
  <1> QED
    BY <1>1, <1>5, <1>6, <1>7, SignalExtensionItems, ItemsMove

\* Reset comes when no request is on its way: the extension forgets all keys,
\* and all items are released.
LEMMA ResetItems ==
    ASSUME TypeInv, TypeInv', ItemInv, NEW c \in Clients, Reset(c)
    PROVE  ItemInv'
  <1>1. /\ TypeOK /\ TypeOK' /\ table \in TableRecord
        /\ extension \in ExtensionRecord /\ memory \in MemoryRecord
        /\ UNCHANGED <<worker, inserts>>
        /\ table.extension_requests = << >> /\ table' = ClearTable(table)
        /\ extension.pc \in {"start", "asleep", "woken"}
    BY DEF TypeInv, TypeOK, Reset, ExtensionWorkerSleeps
  <1>2. /\ extension.batch = << >> /\ extension'.batch = << >>
        /\ extension'.view = {} /\ extension'.pc = extension.pc
    BY <1>1 DEF ItemInv, Reset, ExtensionRecord
  <1>3. /\ \A k \in Keys : table'.data[k] = None
        /\ table'.extension_requests = << >>
    BY <1>1, ClearTableFacts
  <1>4. Present(table') = {} /\ Size(table') = 0
    <2>1. Present(table') = {}
      BY <1>3 DEF Present
    <2> QED
      BY <2>1, FS_EmptySet DEF Size
  <1>5. << >> \o << >> = << >>
    <2>1. << >> \in Seq(ExtensionRequest)
      BY EmptySeq
    <2> QED
      BY <2>1, ConcatEmptySeq
  <1>6. /\ Pending(extension.batch, table) = << >>
        /\ Pending(extension'.batch, table') = << >>
    BY <1>1, <1>2, <1>3, <1>5 DEF Pending
  <1>7. Apply({}, << >>) = {} /\ Releases(<< >>) = 0
    BY ApplyEmpty, ReleasesEmpty
  <1>8. Size(table) \in Nat /\ Gone \in Nat
    BY <1>1, ItemNumbers
  <1>9. Gone' = Gone + Size(table)
    <2>1. memory' = [memory EXCEPT !.freed = memory.freed + Size(table)]
      BY DEF Reset
    <2> QED
      BY <1>1, <1>8, <2>1 DEF Gone, MemoryRecord
  <1>10. InHand' = InHand /\ Sound' = Sound /\ Inserted' = Inserted
    BY <1>1 DEF InHand, Sound, Inserted
  <1>11. ExtensionsFollowTable'
    BY <1>2, <1>4, <1>6, <1>7, FollowMeaningPrime
  <1>12. Size(table') + Gone' + Releases(<< >>)
            = Size(table) + Gone + Releases(<< >>)
    BY <1>4, <1>7, <1>8, <1>9
  <1>13. ItemsConserved'
    BY <1>1, <1>6, <1>10, <1>12, ConservedMeaning, ConservedMeaningPrime
       DEF ItemInv
  <1> QED
    BY <1>2, <1>10, <1>11, <1>13 DEF ItemInv

\* The other steps of a client.
LEMMA ClientQuietItems ==
    ASSUME TypeInv, TypeInv', ItemInv, NEW c \in Clients,
           \/ StartCall(c) \/ MutateResumes(c) \/ MutateUnlocks(c)
           \/ MutateSignals(c) \/ ResetSignals(c) \/ Close(c)
           \/ DestroyStopsExtension(c) \/ DestroyJoins(c) \/ WaitAgain(c)
    PROVE  ItemInv'
  <1>1. /\ TypeOK /\ TypeOK' /\ memory \in MemoryRecord
        /\ extension \in ExtensionRecord
        /\ UNCHANGED <<table, inserts>>
        /\ SignalWorker \/ UNCHANGED worker
    BY DEF TypeInv, TypeOK, StartCall, MutateResumes, MutateUnlocks,
           MutateSignals, ResetSignals, Close, DestroyStopsExtension,
           DestroyJoins, WaitAgain
  <1>2. /\ extension'.batch = extension.batch
        /\ extension'.view = extension.view
        /\ extension.pc = "process" => extension'.pc = "process"
    <2>1. CASE UNCHANGED extension
      BY <2>1
    <2>2. CASE DestroyStopsExtension(c)
      BY <1>1, <2>2 DEF DestroyStopsExtension, ExtensionRecord
    <2> QED
      BY <2>1, <2>2 DEF StartCall, MutateResumes, MutateUnlocks, MutateSignals,
                        ResetSignals, Close, DestroyJoins, WaitAgain
  <1>3. Gone' = Gone
    <2>1. CASE UNCHANGED memory
      BY <2>1 DEF Gone
    <2>2. CASE ResetSignals(c)
      <3>1. memory' = [memory EXCEPT !.freed = memory.freed + memory.shared,
                                     !.shared = 0]
        BY <2>2 DEF ResetSignals
      <3> QED
        BY <1>1, <3>1 DEF Gone, MemoryRecord
    <2> QED
      BY <2>1, <2>2 DEF StartCall, MutateResumes, MutateUnlocks, MutateSignals,
                        Close, DestroyStopsExtension, DestroyJoins, WaitAgain
  <1>4. Inserted' = Inserted
    BY <1>1 DEF Inserted
  <1> QED
    BY <1>1, <1>2, <1>3, <1>4, SignalWorkerItems, ItemsStay

LEMMA ItemStep ==
    TypeInv /\ RequestInv /\ ItemInv /\ [Next]_vars => ItemInv'
  <1> SUFFICES ASSUME TypeInv, RequestInv, ItemInv, [Next]_vars
               PROVE  ItemInv'
    OBVIOUS
  <1>1. TypeInv'
    BY TypeStep
  <1>2. CASE TableWorker
    BY <1>1, <1>2, WorkerQuietItems, WorkerCancelsItems, WorkerInsertItems,
       WorkerAssignItems, WorkerEvictedItems, WorkerUpdatedItems,
       WorkerRegisteredItems, WorkerSampleItems DEF TableWorker
  <1>3. CASE ExtensionWorker
    BY <1>1, <1>3, ExtensionQuietItems, ExtensionFetchesItems,
       ExtensionProcessesItems DEF ExtensionWorker
  <1>4. CASE \/ \E i \in InsertRequests :
                   InsertOrAssignAsync(i) \/ InsertOrAssignTimesOut(i)
             \/ \E s \in SampleRequests :
                   EnqueSampleRequest(s) \/ DeadlinePasses(s)
    BY <1>1, <1>4, EnqueueItems
  <1>5. ASSUME NEW c \in Clients, StartCall(c) \/ ClientStep(c)
        PROVE  ItemInv'
    BY <1>1, <1>5, MutateItemItems, ResetItems, ClientQuietItems DEF ClientStep
  <1>6. CASE UNCHANGED vars
    <2>1. /\ UNCHANGED <<table, extension, worker>> /\ TypeOK /\ TypeOK'
          /\ Gone' = Gone /\ Inserted' = Inserted
          /\ InHand' = InHand /\ Sound' = Sound
      BY <1>1, <1>6 DEF vars, Gone, Inserted, InHand, Sound, TypeInv
    <2> QED
      BY <2>1, ItemsStay
  <1> QED
    BY <1>2, <1>3, <1>4, <1>5, <1>6 DEF Next

\* The inductive invariant of the items holds in every reachable state.
THEOREM ItemsCorrect == Spec => [](TypeInv /\ RequestInv /\ ItemInv)
  BY InitType, InitRequests, InitItems, TypeStep, RequestStep, ItemStep, PTL
     DEF Spec

\* An asynchronous extension is told of every insert, eviction, delete and
\* sampled-out item, in the order in which they changed data_, and Reset never
\* overtakes what is still in extension_requests_ or being processed by
\* ExtensionsWorkerLoop: with the requests on their way the extension knows
\* exactly the keys of the table (ExtensionOperation, Reset).
THEOREM ExtensionsSafety == Spec => []ExtensionsFollowTable
  <1>1. ItemInv => ExtensionsFollowTable
    BY DEF ItemInv
  <1> QED
    BY <1>1, ItemsCorrect, PTL

\* Every item handed to InsertOrAssignInternal is, at any time, either in the
\* table, or on its way through extension_requests_, the extension worker and
\* deleted_items_, or released, and it is counted once: none is lost on the way
\* and none is released twice.
THEOREM ConservationSafety == Spec => []ItemsConserved
  <1>1. ItemInv => ItemsConserved
    BY DEF ItemInv
  <1> QED
    BY <1>1, ItemsCorrect, PTL
=============================================================================
