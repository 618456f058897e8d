------------------------------ MODULE Windows ------------------------------
(***************************************************************************)
(* Time windows and buckets (backend/app/domain/window.py).  Moments are   *)
(* integers, Minute of them to a bucket.                                   *)
(***************************************************************************)
EXTENDS Integers

CONSTANTS
  Minute,   \* clock units per bucket
  MaxSpan   \* MAX_QUERY_SPAN_HOURS, in clock units

ASSUME WindowsAssumption == Minute \in Nat \ {0} /\ MaxSpan \in Nat

Window == [start : Int, end : Int]

BucketStart(t) == t - (t % Minute)

\* Half-open: the start is inside, the end is not.
InWindow(w, t) == w.start <= t /\ t < w.end

\* _validated.
Validated(w) == w.start < w.end /\ w.end - w.start <= MaxSpan

\* A preset ends now.
Preset(t, span) == [start |-> t - span, end |-> t]

\* Mutant: only a current period that starts inside the baseline is refused.
OverlapOneSided(b, c) == b.start <= c.start /\ c.start < b.end

\* What validate_diff_periods refuses.
Overlap(b, c) == b.start < c.end /\ c.start < b.end
=============================================================================
