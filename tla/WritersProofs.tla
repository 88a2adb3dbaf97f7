--------------------------- MODULE WritersProofs ----------------------------
(***************************************************************************)
(* What the writers promise, proved for every step of every writer: the    *)
(* invariants of the three writers and of the server (TrajectoryProofs,    *)
(* StreamingProofs, WriterProofs and InsertStreamProofs), put together by  *)
(* kind.  T, U, S and O are the modules of Writers (Trajectory, Tuned,     *)
(* Streaming and Old) with their lemmas; the first lemmas say that their   *)
(* definitions are the same.                                               *)
(***************************************************************************)
EXTENDS WritersProperties, FiniteSetTheorems, TLAPS

T == INSTANCE TrajectoryProofs
    WITH ChunkerOptions <- ChunkerOptions.trajectory,
         Increments <- Increments.trajectory, ItemLengths <- ItemLengths.trajectory,
         ItemTables <- ItemTables.trajectory, MaxSteps <- MaxSteps.trajectory,
         MaxItems <- MaxItems.trajectory, MaxEpisodes <- MaxEpisodes.trajectory
U == INSTANCE TrajectoryProofs
    WITH ChunkerOptions <- ChunkerOptions.tuned,
         Increments <- Increments.tuned, ItemLengths <- ItemLengths.tuned,
         ItemTables <- ItemTables.tuned, MaxSteps <- MaxSteps.tuned,
         MaxItems <- MaxItems.tuned, MaxEpisodes <- MaxEpisodes.tuned
S == INSTANCE StreamingProofs
    WITH ChunkerOptions <- ChunkerOptions.streaming,
         Increments <- Increments.streaming, ItemLengths <- ItemLengths.streaming,
         ItemTables <- ItemTables.streaming, MaxSteps <- MaxSteps.streaming,
         MaxItems <- MaxItems.streaming, MaxEpisodes <- MaxEpisodes.streaming
O == INSTANCE WriterProofs
    WITH ItemLengths <- ItemLengths.writer, ItemTables <- ItemTables.writer,
         MaxSteps <- MaxSteps.writer, MaxItems <- MaxItems.writer

-----------------------------------------------------------------------------
(* The definitions of the instances are those of Writers. *)

LEMMA SameTrajectoryInit ==
    ASSUME Trajectory!Init
    PROVE  T!Init
  BY ZenonT(60) DEF
    T!Init, T!NoRequest, T!Request, T!NoStreams, T!UnusedStream,
    T!NewInsertReactor, T!MaybeStartRead, T!EmptyTable, T!NewChunker,
    T!Cardinality, Trajectory!Init, Trajectory!NoRequest, Trajectory!Request,
    Trajectory!NoStreams, Trajectory!UnusedStream,
    Trajectory!NewInsertReactor, Trajectory!MaybeStartRead,
    Trajectory!EmptyTable, Trajectory!NewChunker, Trajectory!Cardinality

LEMMA SameTunedInit ==
    ASSUME Tuned!Init
    PROVE  U!Init
  BY ZenonT(60) DEF
    U!Init, U!NoRequest, U!Request, U!NoStreams, U!UnusedStream,
    U!NewInsertReactor, U!MaybeStartRead, U!EmptyTable, U!NewChunker,
    U!Cardinality, Tuned!Init, Tuned!NoRequest, Tuned!Request,
    Tuned!NoStreams, Tuned!UnusedStream, Tuned!NewInsertReactor,
    Tuned!MaybeStartRead, Tuned!EmptyTable, Tuned!NewChunker,
    Tuned!Cardinality

LEMMA SameStreamingInit ==
    ASSUME Streaming!Init
    PROVE  S!Init
  BY ZenonT(60) DEF
    S!Init, S!EmptyTable, S!UnusedStream, S!NewInsertReactor,
    S!MaybeStartRead, S!NewChunker, S!Cardinality, Streaming!Init,
    Streaming!EmptyTable, Streaming!UnusedStream, Streaming!NewInsertReactor,
    Streaming!MaybeStartRead, Streaming!NewChunker, Streaming!Cardinality

LEMMA SameOldInit ==
    ASSUME Old!Init
    PROVE  O!Init
  BY ZenonT(60) DEF
    O!Init, O!NoStreams, O!UnusedStream, O!NewInsertReactor,
    O!MaybeStartRead, O!EmptyTable, O!Request, O!Cardinality, Old!Init,
    Old!NoStreams, Old!UnusedStream, Old!NewInsertReactor,
    Old!MaybeStartRead, Old!EmptyTable, Old!Request, Old!Cardinality

LEMMA SameTrajectoryNext ==
    ASSUME Trajectory!Next
    PROVE  T!Next
  <1>1. ASSUME Trajectory!WorkerNext
        PROVE  T!WorkerNext
    BY <1>1, ZenonT(60) DEF
      T!WorkerNext, T!SetContextAndCreateStream, T!Opened, T!NewStreamed,
      T!NextStream, T!Unopened, T!NoRequest, T!Request, T!MoveItem,
      T!WriteIfNotEmpty, T!Sent, T!Live, T!IsEmpty, T!FrontItem,
      T!OnItemFinalized, T!KeepKeys, T!ChunksOf, T!GetKeepKeys, T!ToSet,
      T!WorkerReturns, T!Transient, T!SetToSeqs, T!AtEnd, T!CanRead,
      T!Requeued, T!StreamStatus, T!AllChunksSent, T!AfterChunks,
      T!DoNotConnect, T!SendChunk, T!Sendable, T!IsReady, T!WriteReturns,
      T!CheckAllReady, T!WaitForPendingItems, T!Cardinality,
      Trajectory!WorkerNext, Trajectory!SetContextAndCreateStream,
      Trajectory!Opened, Trajectory!NewStreamed, Trajectory!NextStream,
      Trajectory!Unopened, Trajectory!NoRequest, Trajectory!Request,
      Trajectory!MoveItem, Trajectory!WriteIfNotEmpty, Trajectory!Sent,
      Trajectory!Live, Trajectory!IsEmpty, Trajectory!FrontItem,
      Trajectory!OnItemFinalized, Trajectory!KeepKeys, Trajectory!ChunksOf,
      Trajectory!GetKeepKeys, Trajectory!ToSet, Trajectory!WorkerReturns,
      Trajectory!Transient, Trajectory!SetToSeqs, Trajectory!AtEnd,
      Trajectory!CanRead, Trajectory!Requeued, Trajectory!StreamStatus,
      Trajectory!AllChunksSent, Trajectory!AfterChunks,
      Trajectory!DoNotConnect, Trajectory!SendChunk, Trajectory!Sendable,
      Trajectory!IsReady, Trajectory!WriteReturns, Trajectory!CheckAllReady,
      Trajectory!WaitForPendingItems, Trajectory!Cardinality
  <1>2. ASSUME Trajectory!CallbackNext
        PROVE  T!CallbackNext
    BY <1>2, ZenonT(60) DEF
      T!CallbackNext, T!OnWritten, T!WriteMayFail, T!OnRead, T!ReadFrom,
      T!Signalled, T!Response, T!CanRead, T!ToSet, T!OnReadFails, T!AtEnd,
      T!Cardinality, Trajectory!CallbackNext, Trajectory!OnWritten,
      Trajectory!WriteMayFail, Trajectory!OnRead, Trajectory!ReadFrom,
      Trajectory!Signalled, Trajectory!Response, Trajectory!CanRead,
      Trajectory!ToSet, Trajectory!OnReadFails, Trajectory!AtEnd,
      Trajectory!Cardinality
  <1>3. ASSUME NEW increment, Trajectory!AppendCell(increment)
        PROVE  T!AppendCell(increment)
    BY <1>3, ZenonT(60) DEF
      T!AppendCell, T!MayAppend, T!Last, T!CallFails, T!Returns,
      T!AppendToChunker, T!CellRef, T!NextChunkKey, T!FlushChunker, T!ToSet,
      T!Expire, T!Cardinality, Trajectory!AppendCell, Trajectory!MayAppend,
      Trajectory!Last, Trajectory!CallFails, Trajectory!Returns,
      Trajectory!AppendToChunker, Trajectory!CellRef,
      Trajectory!NextChunkKey, Trajectory!FlushChunker, Trajectory!ToSet,
      Trajectory!Expire, Trajectory!Cardinality
  <1>4. ASSUME NEW t, NEW n, NEW d, Trajectory!CreateItem(t, n, d)
        PROVE  T!CreateItem(t, n, d)
    BY <1>4, ZenonT(60) DEF
      T!CreateItem, T!Validate, T!Selection, T!CallFails, T!Returns,
      T!NewItem, T!MergeAdjacent, T!FoldLeft, T!MapThenFoldSet, T!Max,
      T!AddToSlices, T!Last, T!Cardinality, Trajectory!CreateItem,
      Trajectory!Validate, Trajectory!Selection, Trajectory!CallFails,
      Trajectory!Returns, Trajectory!NewItem, Trajectory!MergeAdjacent,
      Trajectory!FoldLeft, Trajectory!MapThenFoldSet, Trajectory!Max,
      Trajectory!AddToSlices, Trajectory!Last, Trajectory!Cardinality
  <1>5. ASSUME NEW ignore, Trajectory!Flush(ignore)
        PROVE  T!Flush(ignore)
    BY <1>5, ZenonT(60) DEF
      T!Flush, T!WaitFor, T!Signalled, T!ForceChunks, T!ToSet,
      T!FlushChunker, T!NextChunkKey, T!IsReady, T!Cardinality,
      Trajectory!Flush, Trajectory!WaitFor, Trajectory!Signalled,
      Trajectory!ForceChunks, Trajectory!ToSet, Trajectory!FlushChunker,
      Trajectory!NextChunkKey, Trajectory!IsReady, Trajectory!Cardinality
  <1>6. ASSUME NEW clear, Trajectory!EndEpisode(clear)
        PROVE  T!EndEpisode(clear)
    BY <1>6, ZenonT(60) DEF
      T!EndEpisode, T!CallFails, T!Returns, T!WaitFor, T!Signalled,
      T!ForceChunks, T!ToSet, T!FlushChunker, T!NextChunkKey, T!IsReady,
      T!Cardinality, Trajectory!EndEpisode, Trajectory!CallFails,
      Trajectory!Returns, Trajectory!WaitFor, Trajectory!Signalled,
      Trajectory!ForceChunks, Trajectory!ToSet, Trajectory!FlushChunker,
      Trajectory!NextChunkKey, Trajectory!IsReady, Trajectory!Cardinality
  <1>7. ASSUME NEW o, Trajectory!ConfigureChunker(o)
        PROVE  T!ConfigureChunker(o)
    BY <1>7, ZenonT(60) DEF
      T!ConfigureChunker, T!ApplyConfig, T!Expire, T!CallFails, T!Returns,
      T!MayApplyConfig, T!ValidOptions, T!Cardinality,
      Trajectory!ConfigureChunker, Trajectory!ApplyConfig, Trajectory!Expire,
      Trajectory!CallFails, Trajectory!Returns, Trajectory!MayApplyConfig,
      Trajectory!ValidOptions, Trajectory!Cardinality
  <1>8. ASSUME \/ Trajectory!AppendReturns \/ Trajectory!FlushReturns
               \/ Trajectory!EndEpisodeReturns \/ Trajectory!TimesOut
               \/ Trajectory!Close \/ Trajectory!Destroy
               \/ Trajectory!DestroyReturns
        PROVE  \/ T!AppendReturns \/ T!FlushReturns \/ T!EndEpisodeReturns
               \/ T!TimesOut \/ T!Close \/ T!Destroy \/ T!DestroyReturns
    BY <1>8, ZenonT(60) DEF
      T!DestroyReturns, T!Flushed, T!CloseWriter, T!Signalled,
      T!TryCancelled, T!Ended, T!OnCancel, T!SetReactorAsFinished, T!Live,
      T!Destroy, T!WaitFor, T!ForceChunks, T!ToSet, T!FlushChunker,
      T!NextChunkKey, T!IsReady, T!Close, T!TimesOut, T!CallFails, T!Returns,
      T!Waiting, T!EndEpisodeReturns, T!Reset, T!FlushReturns,
      T!AppendReturns, T!Cardinality, Trajectory!DestroyReturns,
      Trajectory!Flushed, Trajectory!CloseWriter, Trajectory!Signalled,
      Trajectory!TryCancelled, Trajectory!Ended, Trajectory!OnCancel,
      Trajectory!SetReactorAsFinished, Trajectory!Live, Trajectory!Destroy,
      Trajectory!WaitFor, Trajectory!ForceChunks, Trajectory!ToSet,
      Trajectory!FlushChunker, Trajectory!NextChunkKey, Trajectory!IsReady,
      Trajectory!Close, Trajectory!TimesOut, Trajectory!CallFails,
      Trajectory!Returns, Trajectory!Waiting, Trajectory!EndEpisodeReturns,
      Trajectory!Reset, Trajectory!FlushReturns, Trajectory!AppendReturns,
      Trajectory!Cardinality
  <1>9. ASSUME Trajectory!ServerNext
        PROVE  T!ServerNext
    BY <1>9, ZenonT(60) DEF
      T!ServerNext, T!ServerReads, T!HasRead, T!ProcessInsertRequest,
      T!ItemStatus, T!ChunksOf, T!MaybeStartRead, T!ReleaseOutOfRangeChunks,
      T!SetReactorAsFinished, T!SaveChunks, T!Accepted, T!OnReadDone,
      T!OnReadEnd, T!ShouldFinish, T!Live, T!ServerWriteDone, T!OnWriteDone,
      T!MaybeSendNextResponse, T!Break, T!Ended, T!OnCancel, T!TableInserts,
      T!InsertCompleted, T!ServerReadEnds, T!Cardinality,
      Trajectory!ServerNext, Trajectory!ServerReads, Trajectory!HasRead,
      Trajectory!ProcessInsertRequest, Trajectory!ItemStatus,
      Trajectory!ChunksOf, Trajectory!MaybeStartRead,
      Trajectory!ReleaseOutOfRangeChunks, Trajectory!SetReactorAsFinished,
      Trajectory!SaveChunks, Trajectory!Accepted, Trajectory!OnReadDone,
      Trajectory!OnReadEnd, Trajectory!ShouldFinish, Trajectory!Live,
      Trajectory!ServerWriteDone, Trajectory!OnWriteDone,
      Trajectory!MaybeSendNextResponse, Trajectory!Break, Trajectory!Ended,
      Trajectory!OnCancel, Trajectory!TableInserts,
      Trajectory!InsertCompleted, Trajectory!ServerReadEnds,
      Trajectory!Cardinality
  <1> QED
    BY <1>1, <1>2, <1>3, <1>4, <1>5, <1>6, <1>7, <1>8, <1>9, Zenon DEF T!Next, Trajectory!Next, T!ClientNext, Trajectory!ClientNext

LEMMA SameTunedNext ==
    ASSUME Tuned!Next
    PROVE  U!Next
  <1>1. ASSUME Tuned!WorkerNext
        PROVE  U!WorkerNext
    BY <1>1, ZenonT(60) DEF
      U!WorkerNext, U!SetContextAndCreateStream, U!Opened, U!NewStreamed,
      U!NextStream, U!Unopened, U!NoRequest, U!Request, U!MoveItem,
      U!WriteIfNotEmpty, U!Sent, U!Live, U!IsEmpty, U!FrontItem,
      U!OnItemFinalized, U!KeepKeys, U!ChunksOf, U!GetKeepKeys, U!ToSet,
      U!WorkerReturns, U!Transient, U!SetToSeqs, U!AtEnd, U!CanRead,
      U!Requeued, U!StreamStatus, U!AllChunksSent, U!AfterChunks,
      U!DoNotConnect, U!SendChunk, U!Sendable, U!IsReady, U!WriteReturns,
      U!CheckAllReady, U!WaitForPendingItems, U!Cardinality,
      Tuned!WorkerNext, Tuned!SetContextAndCreateStream, Tuned!Opened,
      Tuned!NewStreamed, Tuned!NextStream, Tuned!Unopened, Tuned!NoRequest,
      Tuned!Request, Tuned!MoveItem, Tuned!WriteIfNotEmpty, Tuned!Sent,
      Tuned!Live, Tuned!IsEmpty, Tuned!FrontItem, Tuned!OnItemFinalized,
      Tuned!KeepKeys, Tuned!ChunksOf, Tuned!GetKeepKeys, Tuned!ToSet,
      Tuned!WorkerReturns, Tuned!Transient, Tuned!SetToSeqs, Tuned!AtEnd,
      Tuned!CanRead, Tuned!Requeued, Tuned!StreamStatus, Tuned!AllChunksSent,
      Tuned!AfterChunks, Tuned!DoNotConnect, Tuned!SendChunk, Tuned!Sendable,
      Tuned!IsReady, Tuned!WriteReturns, Tuned!CheckAllReady,
      Tuned!WaitForPendingItems, Tuned!Cardinality
  <1>2. ASSUME Tuned!CallbackNext
        PROVE  U!CallbackNext
    BY <1>2, ZenonT(60) DEF
      U!CallbackNext, U!OnWritten, U!WriteMayFail, U!OnRead, U!ReadFrom,
      U!Signalled, U!Response, U!CanRead, U!ToSet, U!OnReadFails, U!AtEnd,
      U!Cardinality, Tuned!CallbackNext, Tuned!OnWritten, Tuned!WriteMayFail,
      Tuned!OnRead, Tuned!ReadFrom, Tuned!Signalled, Tuned!Response,
      Tuned!CanRead, Tuned!ToSet, Tuned!OnReadFails, Tuned!AtEnd,
      Tuned!Cardinality
  <1>3. ASSUME NEW increment, Tuned!AppendCell(increment)
        PROVE  U!AppendCell(increment)
    BY <1>3, ZenonT(60) DEF
      U!AppendCell, U!MayAppend, U!Last, U!CallFails, U!Returns,
      U!AppendToChunker, U!CellRef, U!NextChunkKey, U!FlushChunker, U!ToSet,
      U!Expire, U!Cardinality, Tuned!AppendCell, Tuned!MayAppend, Tuned!Last,
      Tuned!CallFails, Tuned!Returns, Tuned!AppendToChunker, Tuned!CellRef,
      Tuned!NextChunkKey, Tuned!FlushChunker, Tuned!ToSet, Tuned!Expire,
      Tuned!Cardinality
  <1>4. ASSUME NEW t, NEW n, NEW d, Tuned!CreateItem(t, n, d)
        PROVE  U!CreateItem(t, n, d)
    BY <1>4, ZenonT(60) DEF
      U!CreateItem, U!Validate, U!Selection, U!CallFails, U!Returns,
      U!NewItem, U!MergeAdjacent, U!FoldLeft, U!MapThenFoldSet, U!Max,
      U!AddToSlices, U!Last, U!Cardinality, Tuned!CreateItem, Tuned!Validate,
      Tuned!Selection, Tuned!CallFails, Tuned!Returns, Tuned!NewItem,
      Tuned!MergeAdjacent, Tuned!FoldLeft, Tuned!MapThenFoldSet, Tuned!Max,
      Tuned!AddToSlices, Tuned!Last, Tuned!Cardinality
  <1>5. ASSUME NEW ignore, Tuned!Flush(ignore)
        PROVE  U!Flush(ignore)
    BY <1>5, ZenonT(60) DEF
      U!Flush, U!WaitFor, U!Signalled, U!ForceChunks, U!ToSet,
      U!FlushChunker, U!NextChunkKey, U!IsReady, U!Cardinality, Tuned!Flush,
      Tuned!WaitFor, Tuned!Signalled, Tuned!ForceChunks, Tuned!ToSet,
      Tuned!FlushChunker, Tuned!NextChunkKey, Tuned!IsReady,
      Tuned!Cardinality
  <1>6. ASSUME NEW clear, Tuned!EndEpisode(clear)
        PROVE  U!EndEpisode(clear)
    BY <1>6, ZenonT(60) DEF
      U!EndEpisode, U!CallFails, U!Returns, U!WaitFor, U!Signalled,
      U!ForceChunks, U!ToSet, U!FlushChunker, U!NextChunkKey, U!IsReady,
      U!Cardinality, Tuned!EndEpisode, Tuned!CallFails, Tuned!Returns,
      Tuned!WaitFor, Tuned!Signalled, Tuned!ForceChunks, Tuned!ToSet,
      Tuned!FlushChunker, Tuned!NextChunkKey, Tuned!IsReady,
      Tuned!Cardinality
  <1>7. ASSUME NEW o, Tuned!ConfigureChunker(o)
        PROVE  U!ConfigureChunker(o)
    BY <1>7, ZenonT(60) DEF
      U!ConfigureChunker, U!ApplyConfig, U!Expire, U!CallFails, U!Returns,
      U!MayApplyConfig, U!ValidOptions, U!Cardinality,
      Tuned!ConfigureChunker, Tuned!ApplyConfig, Tuned!Expire,
      Tuned!CallFails, Tuned!Returns, Tuned!MayApplyConfig,
      Tuned!ValidOptions, Tuned!Cardinality
  <1>8. ASSUME \/ Tuned!AppendReturns \/ Tuned!FlushReturns
               \/ Tuned!EndEpisodeReturns \/ Tuned!TimesOut \/ Tuned!Close
               \/ Tuned!Destroy \/ Tuned!DestroyReturns
        PROVE  \/ U!AppendReturns \/ U!FlushReturns \/ U!EndEpisodeReturns
               \/ U!TimesOut \/ U!Close \/ U!Destroy \/ U!DestroyReturns
    BY <1>8, ZenonT(60) DEF
      U!DestroyReturns, U!Flushed, U!CloseWriter, U!Signalled,
      U!TryCancelled, U!Ended, U!OnCancel, U!SetReactorAsFinished, U!Live,
      U!Destroy, U!WaitFor, U!ForceChunks, U!ToSet, U!FlushChunker,
      U!NextChunkKey, U!IsReady, U!Close, U!TimesOut, U!CallFails, U!Returns,
      U!Waiting, U!EndEpisodeReturns, U!Reset, U!FlushReturns,
      U!AppendReturns, U!Cardinality, Tuned!DestroyReturns, Tuned!Flushed,
      Tuned!CloseWriter, Tuned!Signalled, Tuned!TryCancelled, Tuned!Ended,
      Tuned!OnCancel, Tuned!SetReactorAsFinished, Tuned!Live, Tuned!Destroy,
      Tuned!WaitFor, Tuned!ForceChunks, Tuned!ToSet, Tuned!FlushChunker,
      Tuned!NextChunkKey, Tuned!IsReady, Tuned!Close, Tuned!TimesOut,
      Tuned!CallFails, Tuned!Returns, Tuned!Waiting, Tuned!EndEpisodeReturns,
      Tuned!Reset, Tuned!FlushReturns, Tuned!AppendReturns, Tuned!Cardinality
  <1>9. ASSUME Tuned!ServerNext
        PROVE  U!ServerNext
    BY <1>9, ZenonT(60) DEF
      U!ServerNext, U!ServerReads, U!HasRead, U!ProcessInsertRequest,
      U!ItemStatus, U!ChunksOf, U!MaybeStartRead, U!ReleaseOutOfRangeChunks,
      U!SetReactorAsFinished, U!SaveChunks, U!Accepted, U!OnReadDone,
      U!OnReadEnd, U!ShouldFinish, U!Live, U!ServerWriteDone, U!OnWriteDone,
      U!MaybeSendNextResponse, U!Break, U!Ended, U!OnCancel, U!TableInserts,
      U!InsertCompleted, U!ServerReadEnds, U!Cardinality, Tuned!ServerNext,
      Tuned!ServerReads, Tuned!HasRead, Tuned!ProcessInsertRequest,
      Tuned!ItemStatus, Tuned!ChunksOf, Tuned!MaybeStartRead,
      Tuned!ReleaseOutOfRangeChunks, Tuned!SetReactorAsFinished,
      Tuned!SaveChunks, Tuned!Accepted, Tuned!OnReadDone, Tuned!OnReadEnd,
      Tuned!ShouldFinish, Tuned!Live, Tuned!ServerWriteDone,
      Tuned!OnWriteDone, Tuned!MaybeSendNextResponse, Tuned!Break,
      Tuned!Ended, Tuned!OnCancel, Tuned!TableInserts, Tuned!InsertCompleted,
      Tuned!ServerReadEnds, Tuned!Cardinality
  <1> QED
    BY <1>1, <1>2, <1>3, <1>4, <1>5, <1>6, <1>7, <1>8, <1>9, Zenon DEF U!Next, Tuned!Next, U!ClientNext, Tuned!ClientNext

LEMMA SameStreamingChunker ==
    ASSUME NEW c, NEW episode, NEW step
    PROVE  S!AppendToChunker(c, episode, step) = Streaming!AppendToChunker(c, episode, step)
  BY ZenonT(60) DEF
    S!AppendToChunker, S!Expire, S!CellRef, S!NextChunkKey, S!FlushChunker,
    S!ToSet, Streaming!AppendToChunker, Streaming!Expire, Streaming!CellRef,
    Streaming!NextChunkKey, Streaming!FlushChunker, Streaming!ToSet

LEMMA SameStreamChunks ==
    ASSUME NEW d, NEW refs, NEW cl, Streaming!StreamChunks(d, refs, cl)
    PROVE  S!StreamChunks(d, refs, cl)
  BY ZenonT(60) DEF
    S!StreamChunks, S!ToSet, S!Movable, S!FoldLeft, S!MapThenFoldSet, S!Max,
    S!IsReady, S!Sharded, S!Request, S!AddToRequests, S!Cardinality,
    Streaming!StreamChunks, Streaming!ToSet, Streaming!Movable,
    Streaming!FoldLeft, Streaming!MapThenFoldSet, Streaming!Max,
    Streaming!IsReady, Streaming!Sharded, Streaming!Request,
    Streaming!AddToRequests, Streaming!Cardinality

LEMMA SameStreamingAppend ==
    ASSUME NEW increment, Streaming!AppendCell(increment)
    PROVE  S!AppendCell(increment)
  <1>1. PICK d : d = Streaming!AppendToChunker(chunker, client.episode, client.step)
    OBVIOUS
  <1>2. d = S!AppendToChunker(chunker, client.episode, client.step)
    BY <1>1, SameStreamingChunker
  <1>3. PICK cl : cl = [client EXCEPT !.appended = @ + 1,
                                      !.step = IF increment THEN @ + 1 ELSE @]
    OBVIOUS
  <1>4. PICK refs : refs = <<Streaming!Last(d.active_refs)>>
    BY Zenon
  <1>5. refs = <<S!Last(d.active_refs)>>
    BY <1>4 DEF S!Last, Streaming!Last
  <1>6. /\ client.pc = "idle" /\ client.appended < MaxSteps.streaming
        /\ IF Streaming!Failed
              \/ ~Streaming!MayAppend(chunker, client.episode, client.step)
           THEN Streaming!CallReturns ELSE Streaming!StreamChunks(d, refs, cl)
    BY <1>1, <1>3, <1>4, Zenon DEF Streaming!AppendCell
  <1>7. Streaming!Failed <=> S!Failed
    BY DEF Streaming!Failed, S!Failed
  <1>9. ASSUME Streaming!CallReturns
        PROVE  S!CallReturns
    BY <1>9 DEF Streaming!CallReturns, S!CallReturns, Streaming!Returned, S!Returned
  <1>10. Streaming!MayAppend(chunker, client.episode, client.step)
            <=> S!MayAppend(chunker, client.episode, client.step)
    BY DEF Streaming!MayAppend, S!MayAppend, Streaming!Last, S!Last
  <1>8. Streaming!StreamChunks(d, refs, cl) => S!StreamChunks(d, refs, cl)
    BY SameStreamChunks
  <1> QED
    BY <1>2, <1>3, <1>5, <1>6, <1>7, <1>8, <1>9, <1>10, Zenon DEF S!AppendCell

LEMMA SameStreamingNext ==
    ASSUME Streaming!Next
    PROVE  S!Next
  <1>1. ASSUME \/ Streaming!WorkerReads \/ Streaming!WorkerEnds
               \/ Streaming!WriteSucceeds \/ Streaming!WriteFails
        PROVE  \/ S!WorkerReads \/ S!WorkerEnds \/ S!WriteSucceeds
               \/ S!WriteFails
    BY <1>1, ZenonT(60) DEF
      S!WriteFails, S!WriteMayFail, S!WriteSucceeds, S!ItemKeys, S!Sent,
      S!Live, S!Returned, S!WorkerEnds, S!AtEnd, S!CanRead, S!WorkerReads,
      S!ReadFrom, S!Response, S!ToSet, S!Cardinality, Streaming!WriteFails,
      Streaming!WriteMayFail, Streaming!WriteSucceeds, Streaming!ItemKeys,
      Streaming!Sent, Streaming!Live, Streaming!Returned,
      Streaming!WorkerEnds, Streaming!AtEnd, Streaming!CanRead,
      Streaming!WorkerReads, Streaming!ReadFrom, Streaming!Response,
      Streaming!ToSet, Streaming!Cardinality
  <1>2. ASSUME \/ Streaming!StreamReplaced \/ Streaming!ChunksStreamed
        PROVE  \/ S!StreamReplaced \/ S!ChunksStreamed
    BY <1>2, ZenonT(60) DEF
      S!ChunksStreamed, S!Returned, S!KeysStreamed, S!Request,
      S!StreamReplaced, S!Opened, S!AtEnd, S!CanRead, S!IsTransientError,
      S!NextStream, S!Unopened, S!StreamStatus, S!Cardinality,
      Streaming!ChunksStreamed, Streaming!Returned, Streaming!KeysStreamed,
      Streaming!Request, Streaming!StreamReplaced, Streaming!Opened,
      Streaming!AtEnd, Streaming!CanRead, Streaming!IsTransientError,
      Streaming!NextStream, Streaming!Unopened, Streaming!StreamStatus,
      Streaming!Cardinality
  <1>3. ASSUME NEW t, NEW n, Streaming!CreateItem(t, n)
        PROVE  S!CreateItem(t, n)
    BY <1>3, ZenonT(60) DEF
      S!CreateItem, S!Failed, S!Selection, S!CallReturns, S!Returned,
      S!FlushChunker, S!ToSet, S!NextChunkKey, S!NewItem, S!MergeAdjacent,
      S!FoldLeft, S!MapThenFoldSet, S!Max, S!AddToSlices, S!Last,
      S!StreamChunks, S!Sharded, S!AddToRequests, S!Request, S!Movable,
      S!IsReady, S!Cardinality, Streaming!CreateItem, Streaming!Failed,
      Streaming!Selection, Streaming!CallReturns, Streaming!Returned,
      Streaming!FlushChunker, Streaming!ToSet, Streaming!NextChunkKey,
      Streaming!NewItem, Streaming!MergeAdjacent, Streaming!FoldLeft,
      Streaming!MapThenFoldSet, Streaming!Max, Streaming!AddToSlices,
      Streaming!Last, Streaming!StreamChunks, Streaming!Sharded,
      Streaming!AddToRequests, Streaming!Request, Streaming!Movable,
      Streaming!IsReady, Streaming!Cardinality
  <1>4. ASSUME NEW ignore, Streaming!Flush(ignore)
        PROVE  S!Flush(ignore)
    BY <1>4, ZenonT(60) DEF
      S!Flush, S!Cardinality, Streaming!Flush, Streaming!Cardinality
  <1>5. ASSUME NEW clear, Streaming!EndEpisode(clear)
        PROVE  S!EndEpisode(clear)
    BY <1>5, ZenonT(60) DEF
      S!EndEpisode, S!Cardinality, Streaming!EndEpisode,
      Streaming!Cardinality
  <1>6. ASSUME \/ Streaming!FlushReturns \/ Streaming!FlushTimesOut
               \/ Streaming!EndEpisodeReturns \/ Streaming!Destroy
               \/ Streaming!DestroyReturns
        PROVE  \/ S!FlushReturns \/ S!FlushTimesOut \/ S!EndEpisodeReturns
               \/ S!Destroy \/ S!DestroyReturns
    BY <1>6, ZenonT(60) DEF
      S!DestroyReturns, S!AtEnd, S!CanRead, S!Destroy, S!HalfClosed,
      S!EndEpisodeReturns, S!EpisodeCleared, S!Returned, S!Flushed, S!Failed,
      S!Reset, S!FlushTimesOut, S!CallReturns, S!FlushReturns, S!Cardinality,
      Streaming!DestroyReturns, Streaming!AtEnd, Streaming!CanRead,
      Streaming!Destroy, Streaming!HalfClosed, Streaming!EndEpisodeReturns,
      Streaming!EpisodeCleared, Streaming!Returned, Streaming!Flushed,
      Streaming!Failed, Streaming!Reset, Streaming!FlushTimesOut,
      Streaming!CallReturns, Streaming!FlushReturns, Streaming!Cardinality
  <1>7. ASSUME Streaming!ServerNext
        PROVE  S!ServerNext
    BY <1>7, ZenonT(60) DEF
      S!ServerNext, S!ServerReads, S!HasRead, S!ProcessInsertRequest,
      S!ItemStatus, S!ChunksOf, S!MaybeStartRead, S!ReleaseOutOfRangeChunks,
      S!SetReactorAsFinished, S!SaveChunks, S!Accepted, S!OnReadDone,
      S!OnReadEnd, S!ShouldFinish, S!Live, S!ServerWriteDone, S!OnWriteDone,
      S!MaybeSendNextResponse, S!Break, S!Ended, S!OnCancel, S!TableInserts,
      S!InsertCompleted, S!ServerReadEnds, S!Cardinality,
      Streaming!ServerNext, Streaming!ServerReads, Streaming!HasRead,
      Streaming!ProcessInsertRequest, Streaming!ItemStatus,
      Streaming!ChunksOf, Streaming!MaybeStartRead,
      Streaming!ReleaseOutOfRangeChunks, Streaming!SetReactorAsFinished,
      Streaming!SaveChunks, Streaming!Accepted, Streaming!OnReadDone,
      Streaming!OnReadEnd, Streaming!ShouldFinish, Streaming!Live,
      Streaming!ServerWriteDone, Streaming!OnWriteDone,
      Streaming!MaybeSendNextResponse, Streaming!Break, Streaming!Ended,
      Streaming!OnCancel, Streaming!TableInserts, Streaming!InsertCompleted,
      Streaming!ServerReadEnds, Streaming!Cardinality
  <1> QED
    BY <1>1, <1>2, <1>3, <1>4, <1>5, <1>6, <1>7, SameStreamingAppend, Zenon DEF S!Next, Streaming!Next

LEMMA SameRows ==
    O!Rows = Old!Rows
  BY ZenonT(60) DEF
    O!Rows, O!FoldLeft, O!MapThenFoldSet, O!Max, Old!Rows, Old!FoldLeft,
    Old!MapThenFoldSet, Old!Max

LEMMA SameChunksBackTo ==
    ASSUME NEW n
    PROVE  O!ChunksBackTo(n) = Old!ChunksBackTo(n)
  BY ZenonT(60) DEF
    O!ChunksBackTo, O!FoldLeft, O!MapThenFoldSet, O!Max, O!NextKey,
    Old!ChunksBackTo, Old!FoldLeft, Old!MapThenFoldSet, Old!Max, Old!NextKey

LEMMA SameFlatTrajectory ==
    ASSUME NEW chunks, NEW offset, NEW length
    PROVE  O!FlatTimestepTrajectory(chunks, offset, length) = Old!FlatTimestepTrajectory(chunks, offset, length)
  BY ZenonT(60) DEF
    O!FlatTimestepTrajectory, O!FoldLeft, O!MapThenFoldSet, O!Max,
    Old!FlatTimestepTrajectory, Old!FoldLeft, Old!MapThenFoldSet, Old!Max

LEMMA SameOldItem ==
    ASSUME NEW t, NEW n
    PROVE  O!NewItem(t, n) = Old!NewItem(t, n)
  BY SameRows, SameChunksBackTo, SameFlatTrajectory, Zenon DEF
    O!NewItem, Old!NewItem

LEMMA SameOldCreate ==
    ASSUME NEW t, NEW n, Old!CreateItem(t, n)
    PROVE  O!CreateItem(t, n)
  BY SameRows, SameOldItem, ZenonT(60) DEF
    O!CreateItem, Old!CreateItem, O!GetFlatSignature, Old!GetFlatSignature

LEMMA SameOldNext ==
    ASSUME Old!Next
    PROVE  O!Next
  <1>1. ASSUME \/ Old!WorkerWakes \/ Old!WorkerReads \/ Old!OpenStream
               \/ Old!OldStream
        PROVE  \/ O!WorkerWakes \/ O!WorkerReads \/ O!OpenStream
               \/ O!OldStream
    BY <1>1, ZenonT(60) DEF
      O!OldStream, O!OpenStream, O!Opened, O!NextStream, O!Unopened,
      O!StreamedOnNew, O!WorkerReads, O!ReadFrom, O!Response, O!ConfirmedBy,
      O!CanRead, O!AtEnd, O!WorkerWakes, O!Cardinality, Old!OldStream,
      Old!OpenStream, Old!Opened, Old!NextStream, Old!Unopened,
      Old!StreamedOnNew, Old!WorkerReads, Old!ReadFrom, Old!Response,
      Old!ConfirmedBy, Old!CanRead, Old!AtEnd, Old!WorkerWakes,
      Old!Cardinality
  <1>2. ASSUME \/ Old!SendChunks \/ Old!SendItem \/ Old!CountItem
        PROVE  \/ O!SendChunks \/ O!SendItem \/ O!CountItem
    BY <1>2, ZenonT(60) DEF
      O!CountItem, O!SendItem, O!Sent, O!Live, O!MayWrite, O!WriteFails,
      O!WriteMayFail, O!ConfirmReturns, O!Running, O!SendChunks, O!Missing,
      O!FoldLeft, O!MapThenFoldSet, O!Max, O!PendingChunks, O!ChunksOf,
      O!ToSet, O!Request, O!KeysOf, O!Cardinality, Old!CountItem,
      Old!SendItem, Old!Sent, Old!Live, Old!MayWrite, Old!WriteFails,
      Old!WriteMayFail, Old!ConfirmReturns, Old!Running, Old!SendChunks,
      Old!Missing, Old!FoldLeft, Old!MapThenFoldSet, Old!Max,
      Old!PendingChunks, Old!ChunksOf, Old!ToSet, Old!Request, Old!KeysOf,
      Old!Cardinality
  <1>3. ASSUME \/ Old!StopRequested \/ Old!DataLost \/ Old!StreamFails
               \/ Old!Written
        PROVE  \/ O!StopRequested \/ O!DataLost \/ O!StreamFails
               \/ O!Written
    BY <1>3, ZenonT(60) DEF
      O!Written, O!KeptChunks, O!Idle, O!Request, O!KeysOf, O!ToSet,
      O!StreamFails, O!AtEnd, O!CanRead, O!Undo, O!Reset0, O!Stopped,
      O!Running, O!StreamStatus, O!DataLost, O!StopRequested, O!HalfClosed,
      O!Cardinality, Old!Written, Old!KeptChunks, Old!Idle, Old!Request,
      Old!KeysOf, Old!ToSet, Old!StreamFails, Old!AtEnd, Old!CanRead,
      Old!Undo, Old!Reset0, Old!Stopped, Old!Running, Old!StreamStatus,
      Old!DataLost, Old!StopRequested, Old!HalfClosed, Old!Cardinality
  <1>4. ASSUME \/ Old!AppendRow \/ Old!Flush \/ Old!FlushConfirmed
        PROVE  \/ O!AppendRow \/ O!Flush \/ O!FlushConfirmed
    BY <1>4, ZenonT(60) DEF
      O!FlushConfirmed, O!Idle, O!Request, O!ConfirmReturns, O!Running,
      O!Flush, O!MakeChunk, O!NextKey, O!AppendRow, O!Cardinality,
      Old!FlushConfirmed, Old!Idle, Old!Request, Old!ConfirmReturns,
      Old!Running, Old!Flush, Old!MakeChunk, Old!NextKey, Old!AppendRow,
      Old!Cardinality
  <1>5. ASSUME NEW retry, Old!Close(retry)
        PROVE  O!Close(retry)
    BY <1>5, ZenonT(60) DEF
      O!Close, O!MakeChunk, O!NextKey, O!Cardinality, Old!Close,
      Old!MakeChunk, Old!NextKey, Old!Cardinality
  <1>6. ASSUME \/ Old!CloseStream \/ Old!CloseConfirmed \/ Old!CloseFinishes
        PROVE  \/ O!CloseStream \/ O!CloseConfirmed \/ O!CloseFinishes
    BY <1>6, ZenonT(60) DEF
      O!CloseFinishes, O!Stopped, O!Running, O!Closed, O!Idle, O!Request,
      O!AtEnd, O!CanRead, O!CloseConfirmed, O!ConfirmReturns, O!CloseStream,
      O!HalfClosed, O!Cardinality, Old!CloseFinishes, Old!Stopped,
      Old!Running, Old!Closed, Old!Idle, Old!Request, Old!AtEnd, Old!CanRead,
      Old!CloseConfirmed, Old!ConfirmReturns, Old!CloseStream,
      Old!HalfClosed, Old!Cardinality
  <1>7. ASSUME Old!ServerNext
        PROVE  O!ServerNext
    BY <1>7, ZenonT(60) DEF
      O!ServerNext, O!ServerReads, O!HasRead, O!ProcessInsertRequest,
      O!ItemStatus, O!ChunksOf, O!MaybeStartRead, O!ReleaseOutOfRangeChunks,
      O!SetReactorAsFinished, O!SaveChunks, O!Accepted, O!OnReadDone,
      O!OnReadEnd, O!ShouldFinish, O!Live, O!ServerWriteDone, O!OnWriteDone,
      O!MaybeSendNextResponse, O!Break, O!Ended, O!OnCancel, O!TableInserts,
      O!InsertCompleted, O!ServerReadEnds, O!Cardinality, Old!ServerNext,
      Old!ServerReads, Old!HasRead, Old!ProcessInsertRequest, Old!ItemStatus,
      Old!ChunksOf, Old!MaybeStartRead, Old!ReleaseOutOfRangeChunks,
      Old!SetReactorAsFinished, Old!SaveChunks, Old!Accepted, Old!OnReadDone,
      Old!OnReadEnd, Old!ShouldFinish, Old!Live, Old!ServerWriteDone,
      Old!OnWriteDone, Old!MaybeSendNextResponse, Old!Break, Old!Ended,
      Old!OnCancel, Old!TableInserts, Old!InsertCompleted,
      Old!ServerReadEnds, Old!Cardinality
  <1> QED
    BY <1>1, <1>2, <1>3, <1>4, <1>5, <1>6, <1>7, SameOldCreate, Zenon DEF O!Next, Old!Next

-----------------------------------------------------------------------------
(* The options that WritersAssumption gives to the writer that was chosen. *)

LEMMA TrajectoryConstants ==
    ASSUME "trajectory" \in Kinds
    PROVE  T!ConstantsOk
  BY WritersAssumption DEF T!ConstantsOk, T!ValidOptions, Trajectory!ValidOptions

LEMMA TunedConstants ==
    ASSUME "tuned" \in Kinds
    PROVE  U!ConstantsOk
  BY WritersAssumption DEF U!ConstantsOk, U!ValidOptions, Trajectory!ValidOptions

LEMMA StreamingConstants ==
    ASSUME "streaming" \in Kinds
    PROVE  S!ConstantsOk
  BY WritersAssumption DEF S!ConstantsOk, S!ValidOptions, Trajectory!ValidOptions

LEMMA OldConstants ==
    ASSUME "writer" \in Kinds
    PROVE  O!ConstantsOk
  BY WritersAssumption DEF O!ConstantsOk

-----------------------------------------------------------------------------
(* The invariant. *)

WritersInv ==
    /\ kind \in Kinds
    /\ kind \in {"trajectory", "tuned", "streaming", "writer", "structured"}
    /\ kind = "trajectory" => T!TrajectoryInv
    /\ kind = "tuned" => U!TrajectoryInv
    /\ kind = "streaming" => S!StreamingInv
    /\ kind = "writer" => O!WriterInv /\ O!Counted
    /\ kind = "structured" => NoStreams /\ EmptyTable

LEMMA WritersStart ==
    ASSUME Init
    PROVE  WritersInv
  <1>1. CASE kind = "trajectory"
    <2>1. Trajectory!Init /\ "trajectory" \in Kinds
      BY <1>1 DEF Init
    <2>2. T!TrajectoryInv
      BY <2>1, TrajectoryConstants, SameTrajectoryInit,
        T!TrajectoryInit, InsertStreamAssumption
    <2> QED
      BY <1>1, <2>1, <2>2, Zenon DEF WritersInv
  <1>2. CASE kind = "tuned"
    <2>1. Tuned!Init /\ "tuned" \in Kinds
      BY <1>2 DEF Init
    <2>2. U!TrajectoryInv
      BY <2>1, TunedConstants, SameTunedInit,
        U!TrajectoryInit, InsertStreamAssumption
    <2> QED
      BY <1>2, <2>1, <2>2, Zenon DEF WritersInv
  <1>3. CASE kind = "streaming"
    <2>1. Streaming!Init /\ "streaming" \in Kinds
      BY <1>3 DEF Init
    <2>2. S!StreamingInv
      BY <2>1, StreamingConstants, SameStreamingInit,
        S!StreamingInit, InsertStreamAssumption
    <2> QED
      BY <1>3, <2>1, <2>2, Zenon DEF WritersInv
  <1>4. CASE kind = "writer"
    <2>1. Old!Init /\ "writer" \in Kinds
      BY <1>4 DEF Init
    <2>2. O!WriterInv /\ O!Counted
      BY <2>1, SameOldInit,
        O!WriterInit, O!CountedInit, InsertStreamAssumption
    <2> QED
      BY <1>4, <2>1, <2>2, Zenon DEF WritersInv
  <1>5. CASE kind = "structured"
    <2>1. NoStreams /\ EmptyTable /\ "structured" \in Kinds
      BY <1>5 DEF Init
    <2> QED
      BY <1>5, <2>1, Zenon DEF WritersInv
  <1> QED
    BY <1>1, <1>2, <1>3, <1>4, <1>5 DEF Init

LEMMA WritersStutter ==
    ASSUME WritersInv, UNCHANGED vars
    PROVE  WritersInv'
  <1>1. /\ kind' = kind /\ writer' = writer /\ worker' = worker
        /\ client' = client /\ chunker' = chunker /\ stream' = stream
        /\ table' = table
    BY DEF vars
  <1>2. T!TrajectoryInv => T!TrajectoryInv'
    BY <1>1 DEF T!TrajectoryInv, T!OnStream, T!ServerInv, T!TableOk,
      T!WaitsForInsert
  <1>3. U!TrajectoryInv => U!TrajectoryInv'
    BY <1>1 DEF U!TrajectoryInv, U!OnStream, U!ServerInv, U!TableOk,
      U!WaitsForInsert
  <1>4. S!StreamingInv => S!StreamingInv'
    BY <1>1 DEF S!StreamingInv, S!ServerInv, S!TableOk, S!WaitsForInsert
  <1>5. O!WriterInv /\ O!Counted => O!WriterInv' /\ O!Counted'
    BY <1>1 DEF O!WriterInv, O!ServerInv, O!TableOk, O!WaitsForInsert, O!Counted
  <1>6. NoStreams /\ EmptyTable => NoStreams' /\ EmptyTable'
    BY <1>1 DEF NoStreams, EmptyTable
  <1> QED
    BY <1>1, <1>2, <1>3, <1>4, <1>5, <1>6, Zenon DEF WritersInv

LEMMA WritersStep ==
    ASSUME WritersInv, [Next]_vars
    PROVE  WritersInv'
  <1>1. CASE TrajectoryNext
    <2>1. /\ T!TrajectoryInv /\ Trajectory!Next /\ kind' = kind
          /\ kind = "trajectory" /\ "trajectory" \in Kinds
      BY <1>1, Zenon DEF TrajectoryNext, WritersInv
    <2>2. T!TrajectoryInv'
      BY <2>1, TrajectoryConstants, SameTrajectoryNext,
        T!TrajectoryStep, InsertStreamAssumption
    <2> QED
      BY <2>1, <2>2, Zenon DEF WritersInv
  <1>2. CASE TunedNext
    <2>1. /\ U!TrajectoryInv /\ Tuned!Next /\ kind' = kind
          /\ kind = "tuned" /\ "tuned" \in Kinds
      BY <1>2, Zenon DEF TunedNext, WritersInv
    <2>2. U!TrajectoryInv'
      BY <2>1, TunedConstants, SameTunedNext,
        U!TrajectoryStep, InsertStreamAssumption
    <2> QED
      BY <2>1, <2>2, Zenon DEF WritersInv
  <1>3. CASE StreamingNext
    <2>1. /\ S!StreamingInv /\ Streaming!Next /\ kind' = kind
          /\ kind = "streaming" /\ "streaming" \in Kinds
      BY <1>3, Zenon DEF StreamingNext, WritersInv
    <2>2. S!StreamingInv'
      BY <2>1, StreamingConstants, SameStreamingNext,
        S!StreamingStep, InsertStreamAssumption
    <2> QED
      BY <2>1, <2>2, Zenon DEF WritersInv
  <1>4. CASE OldNext
    <2>1. /\ O!WriterInv /\ O!Counted /\ Old!Next /\ kind' = kind
          /\ kind = "writer" /\ "writer" \in Kinds
      BY <1>4, Zenon DEF OldNext, WritersInv
    <2>2. O!WriterInv' /\ O!Counted'
      BY <2>1, OldConstants, SameOldNext,
        O!WriterStep, O!CountedStep, InsertStreamAssumption
    <2> QED
      BY <2>1, <2>2, Zenon DEF WritersInv
  <1>5. CASE StructuredNext
    <2>1. /\ NoStreams /\ EmptyTable /\ kind' = kind /\ kind = "structured"
          /\ "structured" \in Kinds /\ stream' = stream /\ table' = table
      BY <1>5 DEF StructuredNext, WritersInv
    <2>2. NoStreams' /\ EmptyTable'
      BY <2>1 DEF NoStreams, EmptyTable
    <2> QED
      BY <2>1, <2>2, Zenon DEF WritersInv
  <1> QED
    BY <1>1, <1>2, <1>3, <1>4, <1>5, WritersStutter, Zenon DEF Next

LEMMA Invariance == Spec => []WritersInv
  BY WritersStart, WritersStep, PTL DEF Spec

-----------------------------------------------------------------------------
(* What the server finds. *)

\* A stream that was never opened is no counterexample to what follows.
LEMMA UnusedFacts ==
    ASSUME NoStreams, NEW s \in Streams
    PROVE  /\ ~stream[s].open
           /\ stream[s].reactor.status \notin {"internal", "failed_precondition"}
  <1>1. /\ stream[s] = UnusedStream
        /\ None \notin {"internal", "failed_precondition"}
    BY InsertStreamAssumption DEF NoStreams
  <1>2. PICK empty : empty = << >>
    OBVIOUS
  <1>3. PICK r : r = NewInsertReactor
    OBVIOUS
  <1>4. r.status = None
    BY <1>3 DEF NewInsertReactor, MaybeStartRead
  <1>5. UnusedStream = [open |-> FALSE, requests |-> empty, writes_done |-> FALSE,
                        ended |-> "no", reactor |-> r]
    BY <1>2, <1>3 DEF UnusedStream
  <1> QED
    BY <1>1, <1>4, <1>5

LEMMA ServerFacts ==
    ASSUME WritersInv
    PROVE  ServerFindsChunks /\ ReadingResumes
  <1>1. CASE kind = "trajectory"
    BY <1>1 DEF WritersInv, T!TrajectoryInv, T!ServerInv, T!StreamOk,
      T!EndsRightly, T!WaitsForInsert, ServerFindsChunks, ReadingResumes
  <1>2. CASE kind = "tuned"
    BY <1>2 DEF WritersInv, U!TrajectoryInv, U!ServerInv, U!StreamOk,
      U!EndsRightly, U!WaitsForInsert, ServerFindsChunks, ReadingResumes
  <1>3. CASE kind = "streaming"
    BY <1>3 DEF WritersInv, S!StreamingInv, S!ServerInv, S!StreamOk,
      S!EndsRightly, S!WaitsForInsert, ServerFindsChunks, ReadingResumes
  <1>4. CASE kind = "writer"
    BY <1>4 DEF WritersInv, O!WriterInv, O!ServerInv, O!StreamOk,
      O!EndsRightly, O!WaitsForInsert, ServerFindsChunks, ReadingResumes
  <1>5. CASE kind = "structured"
    BY <1>5, UnusedFacts DEF WritersInv, ServerFindsChunks, ReadingResumes
  <1> QED
    BY <1>1, <1>2, <1>3, <1>4, <1>5 DEF WritersInv

\* Whatever the order in which chunks are finished, batched, streamed and
\* released, and however often a stream breaks and is replaced, no reactor has
\* to refuse an item because a chunk is missing (GetItemWithChunks), nor a
\* request because it is told to keep a chunk it never got
\* (ReleaseOutOfRangeChunks): for every writer of the library, any number of
\* streams, items and chunks.
THEOREM ServerFindsChunksTheorem == Spec => []ServerFindsChunks
  BY Invariance, ServerFacts, PTL

\* A reactor that stopped reading because the table was full has an insert of
\* its own stream in the queue of the table, whose callback resumes reading
\* (reverb_service_impl.cc, the callback of TryInsertOrAssign).
THEOREM ReadingResumesTheorem == Spec => []ReadingResumes
  BY Invariance, ServerFacts, PTL

-----------------------------------------------------------------------------
(* What the client relies on. *)

LEMMA WaitingItemsUsable ==
    ASSUME WritersInv, kind \in {"trajectory", "tuned"},
           NEW i \in DOMAIN writer.write_queue,
           NEW c \in ToSet(writer.write_queue[i].cells)
    PROVE  \/ c \in chunker.ready
           \/ /\ c \in ToSet(chunker.active_refs)
              /\ c.chunk = <<chunker.column, chunker.next>>
  <1>1. CASE kind = "trajectory"
    BY <1>1 DEF WritersInv, T!TrajectoryInv, T!ItemsOk, T!ItemsOf, T!Usable,
      T!ToSet, ToSet
  <1>2. CASE kind = "tuned"
    BY <1>2 DEF WritersInv, U!TrajectoryInv, U!ItemsOk, U!ItemsOf, U!Usable,
      U!ToSet, ToSet
  <1> QED
    BY <1>1, <1>2

LEMMA StreamedRefs ==
    ASSUME WritersInv, kind = "streaming", client.pc = "idle", ~Streaming!Failed,
           NEW c \in ToSet(chunker.active_refs), c.chunk \in writer.moved
    PROVE  c.chunk \in writer.streamed
  <1>1. S!StreamingInv /\ ~S!FailedIn(writer)
    BY DEF WritersInv, Streaming!Failed, S!FailedIn
  <1>2. \A r \in S!ToSet(chunker.active_refs) :
            r.chunk \in writer.moved => r.chunk \in writer.streamed
    BY <1>1, S!IdleRefs, InsertStreamAssumption
  <1> QED
    BY <1>2 DEF S!ToSet, ToSet

\* The worker of a TrajectoryWriter never waits for a chunk nobody makes: every
\* cell of an item in write_queue_ is in a finished chunk, or still in the
\* buffer of its chunker (CellRef::IsReady, Chunker::Flush).  An idle
\* StreamingTrajectoryWriter without error has streamed, on the stream it now
\* has, every chunk it moved out that the client can still refer to
\* (StreamChunks, streamed_chunk_keys_).
THEOREM ReferencesAreUsableTheorem == Spec => []ReferencesAreUsable
  <1>1. WritersInv => ReferencesAreUsable
    BY WaitingItemsUsable, StreamedRefs DEF ReferencesAreUsable
  <1> QED
    BY <1>1, Invariance, PTL

-----------------------------------------------------------------------------
(* What becomes of the items. *)

\* A set of the last keys has no more members than there are such keys.
LEMMA CountBound ==
    ASSUME NEW c \in Nat, NEW g \in Nat, c <= g, NEW X, X \subseteq c + 1 .. g
    PROVE  Cardinality(X) <= g - c
  <1>1. PICK a, I : a = c + 1 /\ I = a .. g
    OBVIOUS
  <1>2. a \in Int /\ g \in Int /\ X \in SUBSET I
    BY <1>1
  <1>3. IsFiniteSet(I) /\ Cardinality(I) = IF a > g THEN 0 ELSE g - a + 1
    BY <1>1, <1>2, FS_Interval
  <1>4. Cardinality(X) <= Cardinality(I)
    BY <1>2, <1>3, FS_Subset, Zenon
  <1>5. Cardinality(I) = g - c
    BY <1>1, <1>3
  <1> QED
    BY <1>4, <1>5

LEMMA ItemsOnBooks ==
    ASSUME WritersInv
    PROVE  NothingLostSilently
  <1>1. CASE kind = "trajectory"
    <2>1. T!Booked(client.made, writer, table.items)
      BY <1>1 DEF WritersInv, T!TrajectoryInv
    <2> QED
      BY <1>1, <2>1 DEF T!Booked, T!ItemsOf, T!ToSet, ToSet,
        NothingLostSilently, Made
  <1>2. CASE kind = "tuned"
    <2>1. U!Booked(client.made, writer, table.items)
      BY <1>2 DEF WritersInv, U!TrajectoryInv
    <2> QED
      BY <1>2, <2>1 DEF U!Booked, U!ItemsOf, U!ToSet, ToSet,
        NothingLostSilently, Made
  <1>3. CASE kind = "streaming"
    <2>1. S!Booked(client.made, writer, table.items)
      BY <1>3 DEF WritersInv, S!StreamingInv
    <2> QED
      BY <1>3, <2>1 DEF S!Booked, S!ToSet, NothingLostSilently, Made
  <1>4. CASE kind = "writer"
    <2>1. O!WriterInv /\ O!Counted
      BY <1>4 DEF WritersInv
    <2>2. PICK X, g, b :
              /\ X = Made \ table.items /\ g = Len(client.made)
              /\ b = Len(writer.pending_items) + writer.num_items_in_flight
                         + (IF client.pc = "count" THEN 1 ELSE 0)
      BY Zenon
    <2>3. PICK c \in Nat : c <= g /\ X \subseteq c + 1 .. g /\ g - c = b
      BY <2>1, <2>2, O!MissingAreLast, InsertStreamAssumption DEF Made
    <2>4. g \in Nat
      BY <2>1, <2>2, O!IsSeqFacts, InsertStreamAssumption DEF O!WriterInv, O!IsClient
    <2>5. Cardinality(X) <= b
      BY <2>3, <2>4, CountBound, Zenon
    <2> QED
      BY <1>4, <2>2, <2>5 DEF NothingLostSilently
  <1>5. CASE kind = "structured"
    BY <1>5 DEF NothingLostSilently
  <1> QED
    BY <1>1, <1>2, <1>3, <1>4, <1>5 DEF WritersInv

\* An item that CreateItem accepted is in the table or still on the books of
\* the writer, however often streams break between the write of the request,
\* the insert and the confirmation: in write_queue_ or in_flight_items_
\* (trajectory_writer.cc, SendItem and ProcessItemConfirmations), in
\* in_flight_items_ (streaming_trajectory_writer.cc), or counted in
\* pending_items_ and num_items_in_flight_, although the confirmation of an item
\* may be read before the item is counted (writer.cc, WritePendingData).
THEOREM NothingLostSilentlyTheorem == Spec => []NothingLostSilently
  BY Invariance, ItemsOnBooks, PTL

=============================================================================
