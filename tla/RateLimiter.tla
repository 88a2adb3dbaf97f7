---------------------------- MODULE RateLimiter ----------------------------
(***************************************************************************)
(* The rate limiter of a table (reverb/cc/rate_limiter.{h,cc}): three      *)
(* counters and the two conditions under which the table worker may        *)
(* insert or sample.  The limiter has no lock and no thread of its own; it *)
(* is a value guarded by the table's mu_, so its operations are functions  *)
(* on the record of its counters.                                          *)
(*                                                                         *)
(* samples_per_insert, min_diff and max_diff are doubles.  They are        *)
(* modelled as integer multiples of 1/Unit: Unit is the cost of one        *)
(* sample, SamplesPerInsert the credit of one insert.                      *)
(***************************************************************************)
EXTENDS Integers

CONSTANTS SamplesPerInsert, Unit, MinSizeToSample, MinDiff, MaxDiff

\* The checks of the constructor (REVERB_CHECK_GT), and the types.
ASSUME LimiterAssumption ==
    /\ SamplesPerInsert \in Nat \ {0}
    /\ Unit \in Nat \ {0}
    /\ MinSizeToSample \in Nat \ {0}
    /\ MinDiff \in Int
    /\ MaxDiff \in Int

Limiter == [inserts : Nat, samples : Nat, deletes : Nat]

\* The counters after construction and after RateLimiter::Reset.
ResetLimiter == [inserts |-> 0, samples |-> 0, deletes |-> 0]

\* The cursor of rate_limiter.h: inserts * samples_per_insert - samples.
Cursor(l) == l.inserts * SamplesPerInsert - l.samples * Unit

CanSample(l, n) ==
    /\ l.inserts - l.deletes >= MinSizeToSample
    /\ Cursor(l) - n * Unit >= MinDiff

\* Faulty: the insert itself is left out of the cursor.
CanInsertOneTooMany(l, n) ==
    \/ l.inserts + n - l.deletes <= MinSizeToSample
    \/ Cursor(l) + (n - 1) * SamplesPerInsert <= MaxDiff

\* Faulty: a table below its minimum size is held to max_diff too.
CanInsertIgnoresSize(l, n) == Cursor(l) + n * SamplesPerInsert <= MaxDiff

CanInsert(l, n) ==
    \/ l.inserts + n - l.deletes <= MinSizeToSample
    \/ Cursor(l) + n * SamplesPerInsert <= MaxDiff

LimiterInsert(l) == [l EXCEPT !.inserts = @ + 1]

\* Faulty: deletes are not counted.
LimiterDeleteUncounted(l) == l

LimiterDelete(l) == [l EXCEPT !.deletes = @ + 1]

\* The effect of MaybeCommitSample when CanSample(l, 1).
CommitSample(l) == [l EXCEPT !.samples = @ + 1]

\* The error buffer that the Python constructor SampleToInsertRatio insists
\* on: max_diff - min_diff >= 2 * max(1.0, samples_per_insert).
WideBuffer ==
    /\ MaxDiff - MinDiff >= 2 * Unit
    /\ MaxDiff - MinDiff >= 2 * SamplesPerInsert
=============================================================================
