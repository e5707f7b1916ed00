----------------------------- MODULE SampleStore -----------------------------
(***************************************************************************)
(* RealtimeSampleStore (acquisition/sample_store.py): the recent samples a *)
(* plot is drawn from, kept in chunks as the frames brought them, and the  *)
(* display-sized snapshot of a window of them.  A sample is a record with  *)
(* a time t and a magnitude mag.                                           *)
(***************************************************************************)
EXTENDS Integers, Sequences, FiniteSets, SequencesExt, FiniteSetsExt

CONSTANTS
  Retention,  \* retention_s
  MaxPoints   \* the display's point budget

ASSUME SampleStoreAssumption == Retention \in Nat \ {0} /\ MaxPoints \in Nat \ {0, 1}

Latest(chunk) == Last(chunk).t

\* A new store's samples, and those of clear_samples, which keeps the orientation.
NoSamples == <<>>

\* np.searchsorted(timestamps, cutoff, side="left") and the slice from there on.
From(chunk, cutoff) ==
  SubSeq(chunk, 1 + Cardinality({i \in DOMAIN chunk : chunk[i].t < cutoff}), Len(chunk))

\* _prune_locked: chunks leave at the front, and the first one left is trimmed.
Pruned(chunks) ==
  LET cutoff == Latest(Last(chunks)) - Retention
      first  == Min({i \in DOMAIN chunks : Latest(chunks[i]) >= cutoff})
  IN  <<From(chunks[first], cutoff)>> \o SubSeq(chunks, first + 1, Len(chunks))

\* append_iis_arrays
AppendIis(chunks, chunk) == IF chunk = <<>> THEN chunks ELSE Pruned(Append(chunks, chunk))

\* _window_arrays_locked: the window ends with the last chunk's last sample.
WindowArrays(chunks, window) ==
  IF chunks = <<>> THEN <<>>
  ELSE LET cutoff == Latest(Last(chunks)) - window
           upTo[i \in 0..Len(chunks)] ==
             IF i = 0 THEN <<>>
             ELSE IF Latest(chunks[i]) < cutoff THEN upTo[i - 1]
             ELSE upTo[i - 1] \o From(chunks[i], cutoff)
       IN  upTo[Len(chunks)]

-----------------------------------------------------------------------------
(* envelope_indices, with indices from 1.                                    *)

Weakest(samples, S)   == CHOOSE i \in S : \A j \in S : \/ samples[i].mag < samples[j].mag
                                                       \/ samples[i].mag = samples[j].mag /\ i <= j
Strongest(samples, S) == CHOOSE i \in S : \A j \in S : \/ samples[i].mag > samples[j].mag
                                                       \/ samples[i].mag = samples[j].mag /\ i <= j

\* np.linspace(1, n - 1, buckets + 1, dtype=np.int64), as positions from 1.
Edge(n, buckets, k) == 2 + (k * (n - 2)) \div buckets

Candidates(samples, buckets) ==
  UNION {LET n      == Len(samples)
             bucket == Edge(n, buckets, k)..(Edge(n, buckets, k + 1) - 1)
         IN  IF bucket = {} THEN {} ELSE {Weakest(samples, bucket), Strongest(samples, bucket)}
           : k \in 0..(buckets - 1)}

\* The strongest of S, as many as fit the budget.
Best(samples, S, budget) ==
  {i \in S : Cardinality({j \in S : \/ samples[j].mag > samples[i].mag
                                    \/ samples[j].mag = samples[i].mag /\ j < i}) < budget}

Envelope(samples) ==
  IF Len(samples) <= MaxPoints THEN DOMAIN samples
  ELSE LET budget  == MaxPoints - 2
           buckets == Max({1, (budget + 1) \div 2})
       IN  {1, Len(samples)} \cup
             IF budget = 0 THEN {}
             ELSE Best(samples, Candidates(samples, buckets) \ {1, Len(samples)}, budget)

-----------------------------------------------------------------------------
\* snapshot: the window, and the samples of it that are plotted.
Snapshot(chunks, window) ==
  LET samples == WindowArrays(chunks, window) IN [samples |-> samples, points |-> Envelope(samples)]
=============================================================================
