------------------------------- MODULE UsageDays -------------------------------
(***************************************************************************)
(* GPU time by day (collector.py:907-1001; usage.py:146-223): the job that  *)
(* slurmdbd reports is split over the days it ran on by a worker thread,   *)
(* and a reader merges the days with the sampled ones.                     *)
(*                                                                         *)
(* Days follow one another and have the lengths of the local calendar,     *)
(* where a clock change makes a day shorter or longer than Nominal.  Other *)
(* users than the job's have sampled time only.                            *)
(***************************************************************************)
EXTENDS Naturals, FiniteSetsExt

CONSTANTS
  LastDay,      \* bound: days are 1..LastDay
  Nominal,      \* 24 hours
  Lengths,      \* lengths a day may have
  Worker, Other, \* the job's user, another user
  Amounts       \* bound: sampled amounts

ASSUME DaysAssumption ==
  /\ LastDay \in Nat \ {0} /\ Nominal \in Nat \ {0} /\ Lengths \subseteq Nat \ {0}
  /\ Worker # Other /\ Amounts \subseteq Nat

Days == 1..LastDay
DayUsers == {Worker, Other}

VARIABLES
  length,        \* the length of each day
  begin, end, now, gpus, \* the job's record and the time of the query
  cutoff,        \* the first day that is kept
  cursor,        \* the loop's "cur"
  bucket,        \* sacct_days: the job's share of each day
  recorded       \* days: sampled amounts, by day and user

calendar == <<length, begin, end, now, gpus, cutoff, recorded>>
usageVars == <<calendar, cursor, bucket>>

StartOf(d) == SumFunctionOnSet(length, 1..(d - 1))
DayOf(t) == CHOOSE d \in Days : StartOf(d) <= t /\ t < StartOf(d) + length[d]
Span == StartOf(LastDay) + length[LastDay]
Least(a, b) == IF a <= b THEN a ELSE b
Most(a, b) == IF a <= b THEN b ELSE a

-----------------------------------------------------------------------------
(* _sacct_backfill, for one record.                                        *)

Until == Least(end, now)

\* Mistaken variant of DayEnd: days from the job's begin on.
DayEndFromBegin(t) == t + Nominal
DayEnd(t) == StartOf(DayOf(t)) + Nominal

SplitDay ==
  /\ cursor < Until
  /\ LET d == DayOf(cursor) IN
     bucket' = [bucket EXCEPT ![d] =
       IF d >= cutoff THEN @ + gpus * (Least(Until, DayEnd(cursor)) - cursor) ELSE @]
  /\ cursor' = DayEnd(cursor)
  /\ UNCHANGED calendar

-----------------------------------------------------------------------------
(* merge_usage_window.                                                     *)

Accounted(d, u) == IF u = Worker THEN bucket[d] ELSE 0
\* Mistaken variant of Merged: what both sources saw counts twice.
MergedTwice(d, u) == recorded[d][u] + Accounted(d, u)
Merged(d, u) == Most(recorded[d][u], Accounted(d, u))

Window(first) == {d \in Days : d >= first}
TotalOf(u, first) == SumFunctionOnSet([d \in Days |-> Merged(d, u)], Window(first))
TotalOn(d) == SumFunction([u \in DayUsers |-> Merged(d, u)])

-----------------------------------------------------------------------------
UsageInit ==
  /\ length \in [Days -> Lengths]
  /\ begin \in 0..(Span - 1) /\ end \in 0..(Span - 1) /\ now \in 0..(Span - 1)
  /\ begin < Until
  /\ gpus \in 1..2 /\ cutoff \in Days
  /\ cursor = begin
  /\ bucket = [d \in Days |-> 0]
  /\ recorded \in [Days -> [DayUsers -> Amounts]]

UsageNext == SplitDay

\* The worker runs on its own thread, which the scheduler of threads serves.
UsageSpec == UsageInit /\ [][UsageNext]_usageVars /\ WF_usageVars(SplitDay)

-----------------------------------------------------------------------------
Overlap(d) ==
  LET from == Most(begin, StartOf(d))
      to == Least(Until, StartOf(d) + length[d]) IN
  IF from < to THEN to - from ELSE 0

\* When the loop is over, a kept day has the time the job ran on it and no other day
\* has any; what a reader then shows is, for a user and a day, the larger of the two
\* sources and never less than one or more than both together, and the totals of the
\* users are the totals of the days (collector.py:955; usage.py:149).
SplitIsExact ==
  cursor >= Until =>
    /\ \A d \in Days : bucket[d] = IF d >= cutoff THEN gpus * Overlap(d) ELSE 0
    /\ \A u \in DayUsers :
         LET sampled == SumFunctionOnSet([d \in Days |-> recorded[d][u]], Window(cutoff))
             counted == SumFunctionOnSet([d \in Days |-> Accounted(d, u)], Window(cutoff))
         IN Most(sampled, counted) <= TotalOf(u, cutoff) /\ TotalOf(u, cutoff) <= sampled + counted
    /\ SumFunction([u \in DayUsers |-> TotalOf(u, cutoff)])
         = SumFunctionOnSet([d \in Days |-> TotalOn(d)], Window(cutoff))
    /\ \A d \in Days : recorded[d][Worker] = Overlap(d) * gpus /\ d >= cutoff =>
         Merged(d, Worker) = recorded[d][Worker]

\* Does the loop over a job's days come to an end?  It is to "split the job's [t0, t1)
\* across day boundaries" (collector.py:955).
SplitEnds == <>(cursor >= Until)
=============================================================================
