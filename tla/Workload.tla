------------------------------- MODULE Workload -------------------------------
(***************************************************************************)
(* How the experiment runner turns a scenario into the sequence of events  *)
(* it executes (experiments/runner.py, _build_events_for_scenario and what *)
(* it calls) and how it sums up the fetches (_summarize_results).          *)
(*                                                                         *)
(* Abstractions.  Seconds and milliseconds are natural numbers.  What the  *)
(* random generator chooses is any of its outcomes.  An event is its time, *)
(* action and target; of a request the object is left out.                 *)
(***************************************************************************)
EXTENDS Naturals, Sequences, FiniteSets, SequencesExt, Sorting

\* _priority_for_action
Priority(action) ==
    CASE action \in {"kill", "disconnect", "delay"} -> 0
      [] action \in {"restart", "connect", "clear_delay", "invalidate"} -> 1
      [] action = "fetch" -> 2
      [] action = "sleep" -> 3
      [] OTHER -> 99

At(time, action, target, step) ==
    [at |-> time, action |-> action, target |-> target, step |-> step]

\* key = (at_seconds, priority)
Earlier(d, e) ==
    \/ d.at < e.at
    \/ d.at = e.at /\ Priority(d.action) < Priority(e.action)

Lesser(events) ==
    {ij \in (DOMAIN events) \X (DOMAIN events) : Earlier(events[ij[1]], events[ij[2]])}

\* Mutant: the priority comes before the time.
MutSorted(events) ==
    LET D == DOMAIN events IN
    InOrder(events, Stable(D, {ij \in D \X D :
        Priority(events[ij[1]].action) < Priority(events[ij[2]].action)}))

Sorted(events) == InOrder(events, Stable(DOMAIN events, Lesser(events)))

-----------------------------------------------------------------------------
(***************************************************************************)
(* Explicit steps: only a "wait" moves the cursor.                         *)
(***************************************************************************)
\* What the first of some numbers add up to.
RunningTotal(numbers) ==
    LET total[n \in 0..Len(numbers)] == IF n = 0 THEN 0 ELSE total[n - 1] + numbers[n]
    IN  total

Waited(step) == IF step.action = "wait" THEN step.seconds ELSE 0

Cursor(steps) == RunningTotal([i \in DOMAIN steps |-> Waited(steps[i])])

ExplicitEvents(steps) ==
    [i \in {i \in DOMAIN steps : steps[i].action # "wait"} |->
        At(Cursor(steps)[i - 1], steps[i].action, steps[i].target, i)]

-----------------------------------------------------------------------------
(***************************************************************************)
(* Requests and churn: the sequences that may come of a profile.           *)
(***************************************************************************)
RequestTimes(profile) == profile.start .. profile.end

\* random_uniform, and course_burst with its end for start + duration.
RequestEvents(profile) ==
    LET choices == [1..profile.count -> RequestTimes(profile) \X profile.peers]
    IN  {[k \in 1..profile.count |-> At(c[k][1], "fetch", c[k][2], 0)] : c \in choices}

\* One peer's outage.  Without a downtime it is for good.
Outage(peer, down, downtime) ==
    IF downtime = 0 THEN <<At(down, "kill", peer, 0)>>
    ELSE <<At(down, "kill", peer, 0), At(down + downtime, "restart", peer, 0)>>

\* independent: a sample of the peers, each down at a time of its own.
IndependentChurn(profile) ==
    LET size == IF profile.count < Cardinality(profile.peers)
                THEN profile.count ELSE Cardinality(profile.peers)
        samples == {s \in [1..size -> profile.peers] :
                       \A i, j \in 1..size : s[i] = s[j] => i = j}
    IN  {FlattenSeq([k \in 1..size |-> Outage(s[k], t[k], profile.downtime)]) :
            s \in samples, t \in [1..size -> RequestTimes(profile)]}

\* correlated: at each of the given times, all of the given peers.
CorrelatedChurn(profile) ==
    LET Exit(event) == FlattenSeq([k \in DOMAIN event.peers |->
                           Outage(event.peers[k], event.at, event.downtime)])
    IN  FlattenSeq([i \in DOMAIN profile.events |-> Exit(profile.events[i])])

Churn(profile) ==
    IF profile.kind = "independent" THEN IndependentChurn(profile)
    ELSE {CorrelatedChurn(profile)}

\* One sequence of each of the given sets after the other.
Chained(choices) ==
    LET all == UNION {choices[k] : k \in DOMAIN choices}
    IN  {FlattenSeq(c) : c \in {c \in [DOMAIN choices -> all] :
                                   \A k \in DOMAIN choices : c[k] \in choices[k]}}

\* _build_events_for_scenario: the steps, if any, or else requests and churn.
Plans(scenario) ==
    LET requests == [k \in DOMAIN scenario.requests |-> RequestEvents(scenario.requests[k])]
        churn == [k \in DOMAIN scenario.churn |-> Churn(scenario.churn[k])]
    IN  IF scenario.steps # <<>> THEN {Sorted(ExplicitEvents(scenario.steps))}
        ELSE {Sorted(events) : events \in Chained(requests \o churn)}

-----------------------------------------------------------------------------
(***************************************************************************)
(* The summary of a scenario's results.                                    *)
(***************************************************************************)
\* sorted(latencies), of a function to numbers
Ordered(values) ==
    LET D == DOMAIN values IN
    InOrder(values, Stable(D, {ij \in D \X D : values[ij[1]] < values[ij[2]]}))

\* Mutant: the index is a share of the count, not of the last index.
MutPercentile(values, percentile) ==
    LET index == Len(values) * percentile
        lower == 1 + (index \div 100)
    IN  100 * values[IF lower > Len(values) THEN Len(values) ELSE lower]

\* _percentile of ordered values, a hundredfold: linear between two of them.
Percentile(values, percentile) ==
    LET index == (Len(values) - 1) * percentile
        lower == 1 + (index \div 100)
        upper == IF lower < Len(values) THEN lower + 1 ELSE lower
    IN  100 * values[lower] + (values[upper] - values[lower]) * (index % 100)

\* statistics.median, a hundredfold.
Median(values) ==
    LET n == Len(values) IN
    IF n % 2 = 1 THEN 100 * values[(n + 1) \div 2]
    ELSE 50 * (values[n \div 2] + values[n \div 2 + 1])

Mean(values) == (100 * RunningTotal(values)[Len(values)]) \div Len(values)

NoLatencies == [min |-> 0, mean |-> 0, median |-> 0, p95 |-> 0, max |-> 0]

\* _latency_summary
LatencySummary(latencies) ==
    LET ordered == Ordered(latencies) IN
    IF ordered = <<>> THEN NoLatencies
    ELSE [min |-> 100 * ordered[1], mean |-> Mean(ordered), median |-> Median(ordered),
          p95 |-> Percentile(ordered, 95), max |-> 100 * ordered[Len(ordered)]]

Sources == {"cache", "peer", "origin"}

\* _summarize_results
Summary(results) ==
    LET fetches == {i \in DOMAIN results : results[i].event.action = "fetch"}
        successes == {i \in fetches : results[i].status = "success"}
    IN  [fetches |-> Cardinality(fetches),
         successes |-> Cardinality(successes),
         failures |-> Cardinality(fetches) - Cardinality(successes),
         sources |-> [s \in Sources |->
                         Cardinality({i \in successes : results[i].source = s})],
         latencies |-> LatencySummary([i \in successes |-> results[i].latency])]
=============================================================================
