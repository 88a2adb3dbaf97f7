----------------------------- MODULE MCSampler ------------------------------
(***************************************************************************)
(* Instances of Sampler for TLC.                                           *)
(***************************************************************************)
EXTENDS SamplerProperties

CONSTANT Split      \* the samples with two chunks, each too big for a response

Option(kind, num_workers, max_in_flight, call) ==
    [kind |-> kind, num_workers |-> num_workers,
     max_in_flight |-> max_in_flight, call |-> call]

MCOptions == {Option("grpc", 1, 2, "trajectory"), Option("local", 2, 1, "timestep")}

MCLargeChunks ==
    [s \in Samples |-> IF s \in Split THEN <<TRUE, TRUE>> ELSE <<FALSE>>]
=============================================================================
