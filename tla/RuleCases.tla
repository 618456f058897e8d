----------------------------- MODULE RuleCases -----------------------------
(***************************************************************************)
(* The rules of Rules against what they are meant to compute: one edge,    *)
(* <<1, 2>>, with aggregates of a baseline and of a current period.  The   *)
(* baseline also has another edge, so that the edge can be new.            *)
(***************************************************************************)
EXTENDS Rules

CONSTANT Cases  \* pairs of aggregates <<before, after>>

VARIABLE case

\* The aggregates of an edge: a count that is not measured is not a number.
EdgeAggregate ==
  [conns : Nat, failed : Nat \cup {NotMeasured}, bytes : Nat \cup {NotMeasured},
   setups : Nat, setupSum : Nat]

\* SLOW_SETUP_FLOOR_US is a positive constant; a diff capped at no edge shows nothing.
ASSUME RuleCasesAssumption ==
  /\ Cases \subseteq EdgeAggregate \X EdgeAggregate
  /\ MaxEdges > 0 /\ SetupFloor > 0

NoCase == <<>>
Edge == <<1, 2>>
Other == <<3, 3>>
Baseline(a) == [e \in {Edge, Other} |-> IF e = Edge THEN a ELSE [Nothing EXCEPT !.conns = 1]]
Current(a) == [e \in {Edge} |-> a]

DiffClass(b, c) ==
  LET d == Compare(Current(b), Current(c), TRUE)
  IN  IF d.edges = <<>> THEN "absent" ELSE d.class[1]

\* detect's rules without the canary's.
Fired(b, c) == {a[2] : a \in Detect(Current(c), Baseline(b), {})}

Change(b, c) == Magnitude(c - b)

\* _classify compares a rounded percentage with the threshold.  A change at or
\* beyond the threshold is never reported as unchanged, and a change reported on
\* the connection count alone is at most half a hundredth of a percent below it.
ThresholdExact ==
  LET b == case[1]
      c == case[2]
  IN  case # NoCase /\ b.conns > 0 /\ c.conns > 0 /\ b.bytes = NotMeasured =>
        /\ 100 * Change(b.conns, c.conns) >= Threshold * b.conns => DiffClass(b, c) = "CHANGED"
        /\ DiffClass(b, c) = "CHANGED" =>
             20000 * Change(b.conns, c.conns) >= (200 * Threshold - 1) * b.conns

\* Comparing the periods the other way round turns new edges into removed ones
\* and back, and leaves in both what was in both: presence decides before size.
DiffMirrors ==
  LET there == DiffClass(case[1], case[2])
      back == DiffClass(case[2], case[1])
  IN  case # NoCase =>
      /\ (there = "NEW") <=> (back = "REMOVED")
      /\ (there \in {"CHANGED", "UNCHANGED"}) <=> (back \in {"CHANGED", "UNCHANGED"})

\* A period like the one before it raises no anomaly, whatever it is like.
SteadyIsQuiet == case # NoCase /\ Attempts(case[1]) > 0 => Fired(case[1], case[1]) = {}

\* Turning successes into failures never clears a failure spike, and a slower
\* setup never clears a slow one.
WorseIsNotQuieter ==
  LET b == case[1]
      c == case[2]
      fail == [c EXCEPT !.conns = c.conns - 1, !.failed = c.failed + 1]
      slow == [c EXCEPT !.setupSum = @ + 1]
  IN  case # NoCase =>
      /\ c.conns > 0 /\ c.failed # NotMeasured /\ "FAILURE_SPIKE" \in Fired(b, c) =>
           "FAILURE_SPIKE" \in Fired(b, fail)
      /\ c.setups > 0 /\ "SLOW_SETUP" \in Fired(b, c) => "SLOW_SETUP" \in Fired(b, slow)

\* compare against its reference: size by the exact percentage, presence before size.
DiffSound == ThresholdExact /\ DiffMirrors

\* detect against its reference: quiet when nothing changed, and monotonic.
AnomalySound == SteadyIsQuiet /\ WorseIsNotQuieter
=============================================================================
