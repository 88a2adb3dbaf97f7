---------------------------- MODULE Checkpointer -----------------------------
(***************************************************************************)
(* A server with one table and a checkpointer on a disk that survives it   *)
(* (reverb/cc/platform/tfrecord_checkpointer.cc, the Checkpoint call and   *)
(* Initialize of reverb_service_impl.cc, the checkpoint methods of         *)
(* table.cc).  The table is the record of TableState; beside it run the    *)
(* data structures of its two selectors, which decide what is evicted and  *)
(* sampled.  The process may crash between any two steps.                  *)
(*                                                                         *)
(* The extension worker is left to Table: here its queue is emptied after  *)
(* every operation, and an eviction may or may not have to wait for it,    *)
(* which is the only place where a table operation releases mu_ halfway.   *)
(***************************************************************************)
EXTENDS TableState, Selectors

CONSTANTS
    Removers,           \* what the server may be configured with
    ChunksOf,           \* ChunksOf[k]: the chunks item k refers to
    Fallbacks,          \* what may lie at fallback_checkpoint_path
    Savers,             \* threads that serve the Checkpoint call
    KeepLatest,         \* keep_latest; the service passes 1
    MaxSaves,           \* bound on calls of Save
    MaxOps,             \* bound on table operations
    MaxStarts           \* bound on restarts

ASSUME CheckpointerAssumption ==
    /\ ChunksOf \in [Keys -> SUBSET UNION {ChunksOf[k] : k \in Keys}]
    /\ KeepLatest \in Nat \ {0}
    /\ Priorities \subseteq Int

VARIABLES
    configured,         \* the remover the server is started with
    status,             \* of the process: "down", "running", "failed"
    table,              \* the table, as in TableState
    sampler, remover,   \* its selectors
    inserted_at,        \* of every item
    worker,             \* the table worker: "alive", "evicting", "dead"
    disk,               \* the directories of checkpoints; 0 is the fallback
    saves,              \* the calls of Save
    clock,              \* what absl::Now() returned last
    calls,              \* how often Save was called
    ops, starts,        \* how often the bounded actions were taken
    uncounted,          \* items of the table no insert was registered for
    restored,           \* the table that was checkpointed, right after a load
    acknowledged,       \* the newest directory Save has returned
    overlapped          \* two calls of Save have run at the same time

tableVars == <<table, sampler, remover, inserted_at, worker, uncounted, restored>>
diskVars == <<disk, saves, calls, acknowledged, overlapped>>
checkpointerVars == <<configured, status, tableVars, diskVars, clock, ops, starts>>

SamplerKind == "prioritized"
IdleSave == [pc |-> "idle", dir |-> 0, copy |-> None, victims |-> {}]
EmptyDirectory == [tables |-> None, items |-> None, chunks |-> None, done |-> FALSE]

----------------------------------------------------------------------------
(* Table operations.                                                         *)

\* The extension worker has taken all requests.
Drained(t) == [t EXCEPT !.extension_requests = << >>]

\* Once a rejected insert has ended the worker, the table is only looked at by
\* Save.
MayOperate ==
    /\ status = "running" /\ worker # "dead" /\ ops < MaxOps
    /\ ops' = ops + 1 /\ restored' = None
    /\ UNCHANGED <<configured, status, diskVars, starts>>

\* Keys are drawn at random; which of the absent ones is drawn is immaterial.
NewKeys ==
    {k \in Keys \ Present(table) : \A o \in Keys \ Present(table) : k <= o}

\* InsertOrAssignInternal for a new key, run by the table worker.  An item
\* beyond max_size_ evicts one the remover draws; then the insert is registered
\* in a step of its own.  A selector that rejects the priority ends the worker.
InsertNew(k, p) ==
    LET inserted == InsertItem(table, k, p)
        remover1 == SelectorInsert(remover, k, p)
        sampler1 == SelectorInsert(sampler, k, p)
    IN /\ MayOperate
       /\ worker = "alive" /\ k \in NewKeys
       /\ CanInsert(table.limiter, 1)
       /\ clock' = clock + 1
       /\ \/ /\ ~InsertOk(table, k, p)
             /\ inserted_at' = [inserted_at EXCEPT ![k] = clock']
             /\ table' = inserted /\ worker' = "dead"
             /\ uncounted' = uncounted + 1
             /\ UNCHANGED <<sampler, remover>>
          \/ /\ InsertOk(table, k, p) /\ ~MustEvict(inserted)
             /\ table' = Drained(RegisterInsert(inserted))
             /\ sampler' = sampler1 /\ remover' = remover1
             /\ inserted_at' = [inserted_at EXCEPT ![k] = clock']
             /\ UNCHANGED <<worker, uncounted>>
          \/ /\ InsertOk(table, k, p) /\ MustEvict(inserted)
             /\ \E v \in Drawn(remover1) :
                   /\ table' = Drained(DeleteItem(inserted, v))
                   /\ sampler' = SelectorDelete(sampler1, v)
                   /\ remover' = SelectorDelete(remover1, v)
                   /\ inserted_at' = [inserted_at EXCEPT ![k] = clock', ![v] = 0]
                   /\ worker' = "evicting"
             /\ UNCHANGED uncounted

\* The eviction has had its WaitForBackgroundWork.
InsertRegistered ==
    /\ status = "running" /\ worker = "evicting"
    /\ table' = RegisterInsert(table)
    /\ worker' = "alive" /\ restored' = None
    /\ UNCHANGED <<configured, status, sampler, remover, inserted_at, uncounted,
                   diskVars, clock, ops, starts>>

\* UpdateItem, called from MutateItems.  The sampler is asked first.
Update(k, p) ==
    /\ MayOperate /\ table.data[k] # None
    /\ table' = Drained(UpdateItem(table, k, p))
    /\ sampler' = SelectorUpdate(sampler, k, p)
    /\ remover' = IF UpdateOk(table, k, p) THEN SelectorUpdate(remover, k, p)
                  ELSE remover
    /\ UNCHANGED <<inserted_at, worker, uncounted, clock>>

\* DeleteItem, called from MutateItems.
Delete(k) ==
    /\ MayOperate /\ table.data[k] # None
    /\ table' = Drained(DeleteItem(table, k))
    /\ sampler' = SelectorDelete(sampler, k)
    /\ remover' = SelectorDelete(remover, k)
    /\ inserted_at' = [inserted_at EXCEPT ![k] = 0]
    /\ UNCHANGED <<worker, uncounted, clock>>

\* SampleInternal for a key the sampler draws, run by the table worker.
SampleOne ==
    /\ MayOperate /\ worker = "alive"
    /\ CanSample(table.limiter, 1) /\ SelectorKeys(sampler) # {}
    /\ \E k \in Drawn(sampler) :
          LET t == SampleItem(table, k)
              gone == t.data[k] = None
          IN /\ table' = Drained(t)
             /\ sampler' = IF gone THEN SelectorDelete(sampler, k) ELSE sampler
             /\ remover' = IF gone THEN SelectorDelete(remover, k) ELSE remover
             /\ inserted_at' = IF gone THEN [inserted_at EXCEPT ![k] = 0]
                               ELSE inserted_at
    /\ UNCHANGED <<worker, uncounted, clock>>

----------------------------------------------------------------------------
(* Table::Checkpoint and TFRecordCheckpointer::Save.                         *)

\* Faulty: the items are written in the order of their keys.
ItemsByKey(items) == SetToSortSeq(items, LAMBDA a, b : a.key < b.key)

IsInsertedBefore(items) ==
    SetToSortSeq(items, LAMBDA a, b : a.inserted_at < b.inserted_at)

\* RateLimiter::CheckpointReader, and the constructor that reads it back.
LimiterCheckpoint(l) ==
    [sample_count |-> l.samples, insert_count |-> l.inserts, delete_count |-> l.deletes]

LimiterFrom(c) ==
    [samples |-> c.sample_count, inserts |-> c.insert_count, deletes |-> c.delete_count]

\* Checkpoint() of a table, under mu_.  `saw' is no file: it keeps what the
\* table was, to compare with what a load makes of it.
Checkpoint(t, sam, rem, at, missing) ==
    [tables |-> [rate_limiter |-> LimiterCheckpoint(t.limiter),
                 num_deleted_episodes |-> t.num_deleted_episodes,
                 num_unique_samples |-> t.num_unique_samples,
                 sampler |-> sam.kind, remover |-> rem.kind,
                 saw |-> [table |-> t, sampler |-> sam, remover |-> rem,
                          uncounted |-> missing]],
     items |-> IsInsertedBefore(
                  {[key |-> k, priority |-> t.data[k].priority,
                    times_sampled |-> t.data[k].times_sampled,
                    inserted_at |-> at[k]] : k \in Present(t)}),
     chunks |-> UNION {ChunksOf[k] : k \in Present(t)}]

\* An eviction that waits has an item whose insert is not registered yet.
Uncounted == uncounted + (IF worker = "evicting" THEN 1 ELSE 0)

Root == DOMAIN disk \ {0}

InSave(s, pc) == status = "running" /\ saves[s].pc = pc
SaveStays == UNCHANGED <<configured, status, tableVars, clock, ops, starts>>

SaveBegins(s) ==
    /\ InSave(s, "idle") /\ calls < MaxSaves
    /\ calls' = calls + 1 /\ clock' = clock + 1
    /\ disk' = (clock' :> EmptyDirectory) @@ disk
    /\ saves' = [saves EXCEPT ![s].pc = "tables", ![s].dir = clock']
    /\ overlapped' = (overlapped \/ \E o \in Savers : saves[o].pc # "idle")
    /\ UNCHANGED <<configured, status, tableVars, acknowledged, ops, starts>>

\* One file, or the DONE-file, is written and closed.
WriteFile(s, field, content, next) ==
    /\ saves[s].dir \in DOMAIN disk
    /\ disk' = [disk EXCEPT ![saves[s].dir][field] = content]
    /\ saves' = [saves EXCEPT ![s].pc = next]
    /\ SaveStays /\ UNCHANGED <<calls, acknowledged, overlapped>>

SaveTables(s) ==
    LET copy == Checkpoint(table, sampler, remover, inserted_at, Uncounted)
    IN /\ InSave(s, "tables") /\ saves[s].dir \in DOMAIN disk
       /\ disk' = [disk EXCEPT ![saves[s].dir].tables = copy.tables]
       /\ saves' = [saves EXCEPT ![s].pc = "items", ![s].copy = copy]
       /\ SaveStays /\ UNCHANGED <<calls, acknowledged, overlapped>>

SaveItems(s) ==
    InSave(s, "items") /\ WriteFile(s, "items", saves[s].copy.items, "chunks")

SaveChunks(s) ==
    InSave(s, "chunks") /\ WriteFile(s, "chunks", saves[s].copy.chunks, "done")

WriteDone(s) == InSave(s, "done") /\ WriteFile(s, "done", TRUE, "list")

\* Faulty: the oldest directories are kept.
KeepOldest(dirs) == {d \in dirs : Cardinality({o \in dirs : o < d}) < KeepLatest}

\* The names that sort last, whether or not they hold a DONE-file.
Kept(dirs) == {d \in dirs : Cardinality({o \in dirs : o > d}) < KeepLatest}

SaveLists(s) ==
    /\ InSave(s, "list")
    /\ saves' = [saves EXCEPT ![s].pc = "delete", ![s].copy = None,
                              ![s].victims = Root \ Kept(Root)]
    /\ SaveStays /\ UNCHANGED <<disk, calls, acknowledged, overlapped>>

Victim(s) == CHOOSE d \in saves[s].victims : \A o \in saves[s].victims : o <= d

\* DeleteRecursively takes the files one by one, in the order the file system
\* lists them: any of them, the DONE-file too, may be the last one left.
SaveDeletesFile(s, file) ==
    /\ InSave(s, "delete") /\ saves[s].victims # {} /\ Victim(s) \in DOMAIN disk
    /\ disk[Victim(s)][file] # EmptyDirectory[file]
    /\ disk' = [disk EXCEPT ![Victim(s)][file] = EmptyDirectory[file]]
    /\ SaveStays /\ UNCHANGED <<saves, calls, acknowledged, overlapped>>

SaveDeletesDirectory(s) ==
    /\ InSave(s, "delete") /\ saves[s].victims # {} /\ Victim(s) \in DOMAIN disk
    /\ disk[Victim(s)] = EmptyDirectory
    /\ disk' = Without(disk, Victim(s))
    /\ saves' = [saves EXCEPT ![s].victims = @ \ {Victim(s)}]
    /\ SaveStays /\ UNCHANGED <<calls, acknowledged, overlapped>>

SaveReturns(s) ==
    /\ InSave(s, "delete") /\ saves[s].victims = {}
    /\ acknowledged' = IF saves[s].dir > acknowledged THEN saves[s].dir
                       ELSE acknowledged
    /\ saves' = [saves EXCEPT ![s] = IdleSave]
    /\ SaveStays /\ UNCHANGED <<disk, calls, overlapped>>

\* The file system reports an error, as it must when the directory is gone.
SaveFails(s) ==
    /\ status = "running" /\ saves[s].pc # "idle"
    /\ saves' = [saves EXCEPT ![s] = IdleSave]
    /\ SaveStays /\ UNCHANGED <<disk, calls, acknowledged, overlapped>>

----------------------------------------------------------------------------
(* TFRecordCheckpointer::Load and ReverbServiceImpl::Initialize.             *)

\* The tables the server was started with, before anything is loaded.
Configured ==
    [status |-> "not_found", table |-> EmptyTable,
     sampler |-> MakeSelector(SamplerKind), remover |-> MakeSelector(configured),
     inserted_at |-> [k \in Keys |-> 0]]

\* Faulty: the limiter starts without the deletes.
InitializeWithoutDeletes(c) ==
    [Configured EXCEPT
        !.status = "ok",
        !.table.limiter = [LimiterFrom(c.rate_limiter) EXCEPT !.deletes = 0],
        !.table.num_deleted_episodes = c.num_deleted_episodes,
        !.table.num_unique_samples = c.num_unique_samples,
        !.sampler = MakeSelector(c.sampler),
        !.remover = MakeSelector(c.remover)]

\* InitializeFromCheckpoint: the options come from the checkpoint.
InitializeFromCheckpoint(c) ==
    [Configured EXCEPT
        !.status = "ok",
        !.table.limiter = LimiterFrom(c.rate_limiter),
        !.table.num_deleted_episodes = c.num_deleted_episodes,
        !.table.num_unique_samples = c.num_unique_samples,
        !.sampler = MakeSelector(c.sampler),
        !.remover = MakeSelector(c.remover)]

LoadTable(d) == InitializeFromCheckpoint(d.tables)

\* The limiter is not told.  Too many items, or a key twice, is an error.
InsertCheckpointItem(loaded, item) ==
    LET k == item.key
        t == loaded.table
    IN IF Size(t) + 1 > MaxSize \/ t.data[k] # None \/ ~InsertOk(t, k, item.priority)
       THEN [loaded EXCEPT !.status = "error"]
       ELSE [loaded EXCEPT
                !.table = [Drained(InsertItem(t, k, item.priority)) EXCEPT
                              !.data[k].times_sampled = item.times_sampled],
                !.sampler = SelectorInsert(@, k, item.priority),
                !.remover = SelectorInsert(@, k, item.priority),
                !.inserted_at[k] = item.inserted_at]

\* ChunkStore::Get: every chunk is still in the store.
GetChunks(stored, keys) == keys \subseteq stored

\* One item, after its chunks were looked up.  Save writes the chunks of all
\* its items, so they are there whenever the file is.
LoadItem(stored, loaded, item) ==
    CASE loaded.status # "ok" -> loaded
      [] ~GetChunks(stored, ChunksOf[item.key]) -> [loaded EXCEPT !.status = "not_found"]
      [] OTHER -> InsertCheckpointItem(loaded, item)

\* Every chunk of the file goes into the chunk store (ChunkStore::Insert).
LoadChunks(d) == d.chunks

\* A directory without an items file is an old checkpoint, which keeps its
\* items in the table record; none of those is modelled.
HasItems(d) == d.items # None
LoadItems(d) == IF HasItems(d) THEN d.items ELSE << >>

\* A file that cannot be opened is reported as NotFound.
OpenReader(d, file) == d[file] # None

\* Load of one directory: tables, items and chunks are read before the table
\* of the server is replaced and the items are inserted in order.
LoadWithCompression(d) ==
    IF ~OpenReader(d, "tables") \/ ~OpenReader(d, "chunks") THEN Configured
    ELSE FoldLeft(LAMBDA loaded, item : LoadItem(LoadChunks(d), loaded, item),
                  LoadTable(d), LoadItems(d))

\* The directories with a DONE-file.
HasDone == {d \in Root : disk[d].done}

Latest(dirs) == CHOOSE d \in dirs : \A o \in dirs : o <= d

LoadLatest ==
    IF HasDone = {} THEN Configured ELSE LoadWithCompression(disk[Latest(HasDone)])

LoadFallbackCheckpoint ==
    IF 0 \in DOMAIN disk THEN LoadWithCompression(disk[0]) ELSE Configured

\* Create and Initialize.  NotFound means an empty service, any other error
\* that the server does not start.
Initialize ==
    LET latest == LoadLatest
        loaded == IF latest.status = "not_found" THEN LoadFallbackCheckpoint ELSE latest
        source == IF latest.status = "not_found" THEN 0 ELSE Latest(HasDone)
    IN /\ status = "down" /\ starts < MaxStarts
       /\ starts' = starts + 1
       /\ status' = IF loaded.status = "error" THEN "failed" ELSE "running"
       /\ table' = loaded.table
       /\ sampler' = loaded.sampler /\ remover' = loaded.remover
       /\ inserted_at' = loaded.inserted_at
       /\ worker' = "alive"
       /\ restored' = IF loaded.status = "not_found" THEN None
                      ELSE disk[source].tables.saw
       /\ uncounted' = IF loaded.status = "not_found" THEN 0
                       ELSE disk[source].tables.saw.uncounted
       /\ UNCHANGED <<configured, diskVars, clock, ops>>

\* The process dies.  The disk and the clock stay.
Crash ==
    /\ status \in {"running", "failed"} /\ starts < MaxStarts
    /\ status' = "down"
    /\ table' = EmptyTable
    /\ sampler' = MakeSelector(SamplerKind) /\ remover' = MakeSelector(configured)
    /\ inserted_at' = [k \in Keys |-> 0]
    /\ worker' = "dead" /\ uncounted' = 0 /\ restored' = None
    /\ saves' = [s \in Savers |-> IdleSave]
    /\ UNCHANGED <<configured, disk, calls, acknowledged, overlapped, clock, ops, starts>>

CheckpointerInit ==
    /\ configured \in Removers
    /\ status = "down"
    /\ table = EmptyTable
    /\ sampler = MakeSelector(SamplerKind) /\ remover = MakeSelector(configured)
    /\ inserted_at = [k \in Keys |-> 0]
    /\ worker = "dead" /\ uncounted = 0 /\ restored = None
    /\ disk \in {<< >>} \cup {(0 :> f) : f \in Fallbacks}
    /\ saves = [s \in Savers |-> IdleSave]
    /\ clock = 0 /\ calls = 0 /\ ops = 0 /\ starts = 0
    /\ acknowledged = 0 /\ overlapped = FALSE

TableStep ==
    \/ \E k \in Keys, p \in Priorities : InsertNew(k, p) \/ Update(k, p)
    \/ \E k \in Keys : Delete(k)
    \/ InsertRegistered
    \/ SampleOne

SaveStep(s) ==
    \/ SaveBegins(s) \/ SaveTables(s) \/ SaveItems(s) \/ SaveChunks(s)
    \/ WriteDone(s) \/ SaveLists(s)
    \/ \E file \in DOMAIN EmptyDirectory : SaveDeletesFile(s, file)
    \/ SaveDeletesDirectory(s)
    \/ SaveReturns(s) \/ SaveFails(s)

CheckpointerNext == TableStep \/ (\E s \in Savers : SaveStep(s)) \/ Initialize \/ Crash
=============================================================================
