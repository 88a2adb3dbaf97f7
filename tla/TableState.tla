----------------------------- MODULE TableState -----------------------------
(***************************************************************************)
(* The state of a table that mu_ guards, and the private methods of Table  *)
(* that change it (reverb/cc/table.cc).  Each method is a function from    *)
(* one state record to the next, with a predicate for its returned status, *)
(* because one critical section runs several of them.                      *)
(*                                                                         *)
(* Selectors are kept as the map from key to priority they were given;     *)
(* which key Sample() returns is left open, so that the model covers every *)
(* selector.  A selector may reject a priority (Prioritized does, when it  *)
(* is negative): SamplerRejects and RemoverRejects.                        *)
(***************************************************************************)
EXTENDS RateLimiter, Sequences, FiniteSets

CONSTANTS
    Keys,                   \* item keys
    Episodes,               \* episode ids
    ChunkCount,             \* ChunkCount[k][e]: chunks of item k in episode e
    Priorities,             \* item priorities
    SamplerRejects,         \* priorities the sampler returns an error for
    RemoverRejects,         \* priorities the remover returns an error for
    MaxSize,                \* max_size_
    MaxTimesSampled,        \* max_times_sampled_, 0 for no limit
    HasAsyncExtensions,     \* has_async_extensions_
    None                    \* no item / key unknown to the selector

ASSUME TableAssumption ==
    /\ IsFiniteSet(Keys)
    /\ IsFiniteSet(Episodes)
    /\ ChunkCount \in [Keys -> [Episodes -> Nat]]
    /\ None \notin Priorities
    /\ SamplerRejects \subseteq Priorities
    /\ RemoverRejects \subseteq Priorities
    /\ MaxSize \in Nat \ {0}
    /\ MaxTimesSampled \in Nat
    /\ HasAsyncExtensions \in BOOLEAN

Item == [priority : Priorities, times_sampled : Nat]
Selector == [Keys -> Priorities \cup {None}]
ExtensionRequest ==
    [type : {"insert", "sample", "update", "delete", "release"}, key : Keys]

ASSUME NoneIsNoItem == None \notin Item

TableRecord ==
    [data : [Keys -> Item \cup {None}],
     sampler : Selector,
     remover : Selector,
     episode_refs : [Episodes -> Int],
     num_deleted_episodes : Nat,
     num_unique_samples : Nat,
     limiter : Limiter,
     extension_requests : Seq(ExtensionRequest)]

EmptyTable ==
    [data |-> [k \in Keys |-> None],
     sampler |-> [k \in Keys |-> None],
     remover |-> [k \in Keys |-> None],
     episode_refs |-> [e \in Episodes |-> 0],
     num_deleted_episodes |-> 0,
     num_unique_samples |-> 0,
     limiter |-> ResetLimiter,
     extension_requests |-> << >>]

Present(t) == {k \in Keys : t.data[k] # None}
Size(t) == Cardinality(Present(t))

\* The keys a selector may return from Sample().
Known(selector) == {k \in Keys : selector[k] # None}

\* The test of InsertOrAssignInternal that makes room for a new item.
MustEvictLate(t) == Size(t) > MaxSize + 1        \* faulty: off by one

MustEvict(t) == Size(t) > MaxSize

\* The test of SampleInternal that removes an item.
SampledOutLate(t, k) ==                          \* faulty: off by one
    MaxTimesSampled # 0 /\ t.data[k].times_sampled > MaxTimesSampled

SampledOut(t, k) == t.data[k].times_sampled = MaxTimesSampled

\* Faulty: deletes are only reported to synchronous extensions.
ExtensionOperationSkipsDelete(t, type, k) ==
    IF (HasAsyncExtensions /\ type # "delete") \/ type = "release"
    THEN [t EXCEPT !.extension_requests = Append(@, [type |-> type, key |-> k])]
    ELSE t

\* ExtensionOperation: synchronous extensions run inside the call and keep no
\* state of the table; only a request for the extension worker is recorded.
ExtensionOperation(t, type, k) ==
    IF HasAsyncExtensions \/ type \in {"delete", "release"}
    THEN [t EXCEPT !.extension_requests = Append(@, [type |-> type, key |-> k])]
    ELSE t

AddEpisodeRefs(refs, k) == [e \in Episodes |-> refs[e] + ChunkCount[k][e]]

\* Faulty: one reference is dropped per item instead of one per chunk.
DropOneEpisodeRef(refs, k) ==
    [e \in Episodes |-> IF ChunkCount[k][e] > 0 THEN refs[e] - 1 ELSE refs[e]]

DropEpisodeRefs(refs, k) == [e \in Episodes |-> refs[e] - ChunkCount[k][e]]

\* The episodes whose last reference goes away with item k.
LastRefs(refs, k) ==
    {e \in Episodes : ChunkCount[k][e] > 0 /\ refs[e] = ChunkCount[k][e]}

\* DeleteItem up to its call of WaitForBackgroundWork.  A missing key is
\* ignored; a selector that does not know the key ends the call with an error
\* after data_ and the limiter have changed.
DeleteItem(t, k) ==
    LET erased == [t EXCEPT
            !.data[k] = None,
            !.episode_refs = DropEpisodeRefs(@, k),
            !.num_deleted_episodes = @ + Cardinality(LastRefs(t.episode_refs, k)),
            !.limiter = LimiterDelete(@)]
    IN IF t.data[k] = None THEN t
       ELSE IF t.sampler[k] = None THEN erased
       ELSE IF t.remover[k] = None THEN [erased EXCEPT !.sampler[k] = None]
       ELSE ExtensionOperation(
                [erased EXCEPT !.sampler[k] = None, !.remover[k] = None],
                "delete", k)

DeleteOk(t, k) ==
    t.data[k] # None => t.sampler[k] # None /\ t.remover[k] # None

\* Faulty: the item keeps its old priority.
UpdateSelectorsOnly(t, k, p) ==
    IF t.data[k] = None \/ p \in SamplerRejects THEN t
    ELSE IF p \in RemoverRejects THEN [t EXCEPT !.sampler[k] = p]
    ELSE ExtensionOperation([t EXCEPT !.sampler[k] = p, !.remover[k] = p],
                            "update", k)

\* UpdateItem up to its call of WaitForBackgroundWork.  The item's own
\* priority is set before the selectors are asked.
UpdateItem(t, k, p) ==
    LET stored == [t EXCEPT !.data[k].priority = p]
    IN IF t.data[k] = None THEN t
       ELSE IF t.sampler[k] = None \/ p \in SamplerRejects THEN stored
       ELSE IF t.remover[k] = None \/ p \in RemoverRejects
            THEN [stored EXCEPT !.sampler[k] = p]
       ELSE ExtensionOperation(
                [stored EXCEPT !.sampler[k] = p, !.remover[k] = p],
                "update", k)

UpdateOk(t, k, p) ==
    t.data[k] # None =>
        /\ t.sampler[k] # None /\ p \notin SamplerRejects
        /\ t.remover[k] # None /\ p \notin RemoverRejects

\* InsertOrAssignInternal for a new key, up to the eviction test.  An error of
\* a selector ends the call with the item left in data_.
InsertItem(t, k, p) ==
    LET stored == [t EXCEPT !.data[k] = [priority |-> p, times_sampled |-> 0]]
    IN IF t.sampler[k] # None \/ p \in SamplerRejects THEN stored
       ELSE IF t.remover[k] # None \/ p \in RemoverRejects
            THEN [stored EXCEPT !.sampler[k] = p]
       ELSE ExtensionOperation(
                [stored EXCEPT
                    !.sampler[k] = p,
                    !.remover[k] = p,
                    !.episode_refs = AddEpisodeRefs(@, k)],
                "insert", k)

InsertOk(t, k, p) ==
    /\ t.sampler[k] = None /\ p \notin SamplerRejects
    /\ t.remover[k] = None /\ p \notin RemoverRejects

\* The last part of InsertOrAssignInternal: the insert is registered.
RegisterInsert(t) == [t EXCEPT !.limiter = LimiterInsert(@)]

\* MaybeCommitSample and SampleInternal for the key k that sampler_ returned.
SampleItem(t, k) ==
    LET counted == [t EXCEPT
            !.limiter = CommitSample(@),
            !.num_unique_samples = IF t.data[k].times_sampled = 0
                                   THEN @ + 1 ELSE @,
            !.data[k].times_sampled = @ + 1]
        reported == ExtensionOperation(counted, "sample", k)
    IN IF SampledOut(counted, k)
       THEN DeleteItem(reported, k)
       ELSE reported

\* Faulty: the counters of the limiter survive.
ClearAllButLimiter(t) ==
    [EmptyTable EXCEPT !.extension_requests = t.extension_requests,
                       !.limiter = t.limiter]

\* The part of Reset that runs under mu_, once the extension worker sleeps.
ClearTable(t) == [EmptyTable EXCEPT !.extension_requests = t.extension_requests]
=============================================================================
