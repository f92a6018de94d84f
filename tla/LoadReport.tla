----------------------------- MODULE LoadReport -----------------------------
(****************************************************************************)
(* What scripts/load_test.py makes of its results: percentile and summarize *)
(* on the SubmissionResults that run has gathered.  Latencies and durations *)
(* are whole numbers; a fraction is kept as a pair, so nothing is rounded.  *)
(****************************************************************************)
EXTENDS Integers, Sequences, SequencesExt, Functions

CONSTANTS MaxLatency,  \* bound: latencies and durations go from 0 to it
          Submissions  \* --tasks

ASSUME ReportAssumption == MaxLatency \in Nat /\ Submissions \in Nat \ {0}

VARIABLES results,    \* what gather has, in the order of the numbers
          summarized  \* the summary, once there is one

loadReportVars == <<results, summarized>>

SubmissionResult == [success : BOOLEAN, latency : 0..MaxLatency]

ReportInit == results = <<>> /\ summarized = <<>>

\* Python's sorted: the values in an order of their positions that ascends.
sorted(values) ==
  LET Ascending(p) == \A m, n \in DOMAIN values : m < n => values[p[m]] <= values[p[n]]
      order        == CHOOSE p \in Bijection(DOMAIN values, DOMAIN values) : Ascending(p)
  IN  [n \in DOMAIN values |-> values[order[n]]]

Latencies == [n \in DOMAIN results |-> results[n].latency]

\* Mutant of percentile: the values are not sorted.
percentile_Unsorted(values, percent) ==
  LET last  == Len(values) - 1
      lower == (last * percent) \div 100
      upper == IF lower < last THEN lower + 1 ELSE last
  IN  values[lower + 1] * 100
        + (values[upper + 1] - values[lower + 1]) * ((last * percent) % 100)

\* Linear interpolation between the two values around the index, in hundredths.
percentile(values, percent) ==
  LET ordered == sorted(values)
      last    == Len(values) - 1
      lower   == (last * percent) \div 100
      upper   == IF lower < last THEN lower + 1 ELSE last
  IN  ordered[lower + 1] * 100
        + (ordered[upper + 1] - ordered[lower + 1]) * ((last * percent) % 100)

Successes == {n \in DOMAIN results : results[n].success}

-----------------------------------------------------------------------------
\* A submission ends; one that failed has a latency too.
Gather(result) == /\ Len(results) < Submissions
                  /\ results' = Append(results, result)
                  /\ UNCHANGED summarized

\* summarize: requests_per_second is a fraction of numbers.
Summarize(duration) ==
  /\ Len(results) = Submissions
  /\ summarized = <<>>
  /\ summarized' =
       [successful_submissions |-> Cardinality(Successes),
        failed_submissions     |-> Len(results) - Cardinality(Successes),
        requests_per_second    |-> <<Len(results), duration>>,
        min |-> 100 * Min(ToSet(Latencies)), max |-> 100 * Max(ToSet(Latencies)),
        p50 |-> percentile(Latencies, 50), p95 |-> percentile(Latencies, 95),
        p99 |-> percentile(Latencies, 99)]
  /\ UNCHANGED results

ReportNext == \/ \E result \in SubmissionResult : Gather(result)
              \/ \E duration \in 1..MaxLatency : Summarize(duration)

ReportSpec == ReportInit /\ [][ReportNext]_loadReportVars

-----------------------------------------------------------------------------
(* Properties *)

\* The median as it is defined: half of the values on either side.
Median == LET ordered == sorted(Latencies)
              n == Len(ordered) IN
          50 * (ordered[(n + 1) \div 2] + ordered[(n + 2) \div 2])

\* p50 is the median, and the percentiles lie between minimum and maximum in
\* their order, however few the values: interpolation never leaves them.
PercentilesAreRight ==
  summarized # <<>> =>
    /\ summarized.p50 = Median
    /\ summarized.min <= summarized.p50 /\ summarized.p50 <= summarized.p95
    /\ summarized.p95 <= summarized.p99 /\ summarized.p99 <= summarized.max
=============================================================================
