------------------------------ MODULE Writers -------------------------------
(***************************************************************************)
(* The writers of the client library, each against the same server: Init   *)
(* chooses one, and its module says what it does.  Every writer gets its   *)
(* own bounds, by kind.                                                    *)
(***************************************************************************)
EXTENDS InsertStream

CONSTANTS
    Kinds,              \* the writers: "trajectory", "tuned" (the same with
                        \* options that tune themselves), "streaming",
                        \* "writer" and "structured"
    Strides, SignatureTables, LargeChunks, Ignored, NumItemsToScore,
    ChunkLength, MaxTimesteps, MaxInFlightItems,
    Configs, Columns, Values,
    ChunkerOptions, ItemTables, ItemLengths, Increments,\* by kind, as are
    MaxSteps, MaxItems, MaxEpisodes                     \* these bounds

VARIABLES kind, writer, worker, client, chunker

Trajectory == INSTANCE TrajectoryWriter
    WITH ChunkerOptions <- ChunkerOptions.trajectory,
         Increments <- Increments.trajectory, ItemLengths <- ItemLengths.trajectory,
         ItemTables <- ItemTables.trajectory, MaxSteps <- MaxSteps.trajectory,
         MaxItems <- MaxItems.trajectory, MaxEpisodes <- MaxEpisodes.trajectory
Tuned == INSTANCE TrajectoryWriter
    WITH ChunkerOptions <- ChunkerOptions.tuned,
         Increments <- Increments.tuned, ItemLengths <- ItemLengths.tuned,
         ItemTables <- ItemTables.tuned, MaxSteps <- MaxSteps.tuned,
         MaxItems <- MaxItems.tuned, MaxEpisodes <- MaxEpisodes.tuned
Streaming == INSTANCE StreamingTrajectoryWriter
    WITH ChunkerOptions <- ChunkerOptions.streaming,
         Increments <- Increments.streaming, ItemLengths <- ItemLengths.streaming,
         ItemTables <- ItemTables.streaming, MaxSteps <- MaxSteps.streaming,
         MaxItems <- MaxItems.streaming, MaxEpisodes <- MaxEpisodes.streaming
Old == INSTANCE Writer
    WITH ItemLengths <- ItemLengths.writer, ItemTables <- ItemTables.writer,
         MaxSteps <- MaxSteps.writer, MaxItems <- MaxItems.writer
Structured == INSTANCE StructuredWriter
    WITH MaxCalls <- MaxSteps.structured, MaxEpisodes <- MaxEpisodes.structured

ASSUME WritersAssumption ==
    /\ Kinds \cap {"trajectory", "tuned", "streaming"}
          \subseteq DOMAIN ChunkerOptions
    /\ \A k \in DOMAIN ChunkerOptions : \A o \in ChunkerOptions[k] :
          /\ o \in [max_chunk_length : Nat, num_keep_alive_refs : Nat,
                    auto_tuned : BOOLEAN]
          /\ Trajectory!ValidOptions(o)
    /\ Kinds \cap {"trajectory", "tuned", "streaming", "writer"}
          \subseteq DOMAIN ItemLengths
    /\ \A k \in DOMAIN ItemLengths : ItemLengths[k] \subseteq Nat \ {0}
    /\ Strides \subseteq Nat \ {0}
    /\ \A k \in DOMAIN Increments : Increments[k] \subseteq BOOLEAN
    /\ Ignored \subseteq Nat
    /\ ChunkLength \in Nat \ {0} /\ MaxTimesteps \in Nat \ {0}
    /\ NumItemsToScore \in Nat \ {0} /\ MaxInFlightItems \in Nat \ {0}
    \* The constructor of StructuredWriter checks it.
    /\ \A i \in DOMAIN Configs :
          Structured!ValidateStructuredWriterConfig(Configs[i])

Init ==
    /\ kind \in Kinds
    /\ \/ kind = "trajectory" /\ Trajectory!Init
       \/ kind = "tuned" /\ Tuned!Init
       \/ kind = "streaming" /\ Streaming!Init
       \/ kind = "writer" /\ Old!Init
       \/ kind = "structured" /\ Structured!Init /\ NoStreams /\ EmptyTable

TrajectoryNext == kind = "trajectory" /\ Trajectory!Next /\ UNCHANGED kind
TunedNext == kind = "tuned" /\ Tuned!Next /\ UNCHANGED kind
StreamingNext == kind = "streaming" /\ Streaming!Next /\ UNCHANGED kind
OldNext == kind = "writer" /\ Old!Next /\ UNCHANGED kind
StructuredNext ==
    kind = "structured" /\ Structured!Next /\ UNCHANGED <<kind, stream, table>>

Next ==
    \/ TrajectoryNext \/ TunedNext \/ StreamingNext \/ OldNext
    \/ StructuredNext

vars == <<kind, writer, worker, client, chunker, stream, table>>

Spec == Init /\ [][Next]_vars
=============================================================================
