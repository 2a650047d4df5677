---------------------------- MODULE WaitHistory ----------------------------
(***************************************************************************)
(* The history of a location's wait times, crates/api/src/db.rs: one point *)
(* for every minute, interpolated between the observations around it, and  *)
(* the comparison of today with the days before.  Observations arrive as   *)
(* time passes; a query may be made at any moment.                         *)
(*                                                                         *)
(* A minute, the gap and a day are constants, far shorter than in the code *)
(* but in the same order; the local midnights are a constant too.          *)
(***************************************************************************)
EXTENDS Integers, FiniteSetsExt

CONSTANTS
    Minute,        \* units of time in a minute
    MaxGap,        \* MAX_INTERPOLATION_GAP_SECONDS
    Day, Days,     \* a day, and the days of the comparison (7)
    Midnights,     \* local midnights
    Lookback,      \* the ranges other than "today", "week" of aggregates among
                   \* them: range |-> how far back
    Values,        \* waits; multiples of every gap, so that division is exact
    NoValue, NoSample,
    MaxSamples, MaxTime   \* bounds

ASSUME HistoryAssumption ==
    /\ Minute \in Nat \ {0} /\ MaxGap \in Nat \ {0}
    /\ Day \in Nat \ {0} /\ Days \in Nat \ {0}
    /\ Midnights \subseteq Nat /\ 0 \in Midnights
    /\ \A m \in Midnights : m % Minute = 0
    /\ \A range \in DOMAIN Lookback : Lookback[range] \in Nat
    /\ Values \subseteq Nat /\ NoValue \notin Values
    /\ NoSample \notin [at : Nat, value : Nat \cup {NoValue}]
    /\ MaxSamples \in Nat /\ MaxTime \in Nat

VARIABLES
    now,
    samples    \* location_wait_time_observations: one per time at most

vars == <<now, samples>>

Init == now = 0 /\ samples = {}

Tick == now < MaxTime /\ now' = now + 1 /\ UNCHANGED samples

(* A wait answer may lack the pickup estimate. *)
Observe(value) ==
    /\ Cardinality(samples) < MaxSamples
    /\ \A s \in samples : s.at < now
    /\ samples' = samples \cup {[at |-> now, value |-> value]}
    /\ UNCHANGED now

Next == Tick \/ \E value \in Values \cup {NoValue} : Observe(value)

Spec == Init /\ [][Next]_vars

-----------------------------------------------------------------------------
(* Samples.                                                                *)

FloorMinute(t) == t - (t % Minute)

Midnight(t) == Max({m \in Midnights : m <= t})

RawSamples(S, start, end) == {s \in S : s.at >= start /\ s.at <= end}

Mean(S) == LET valued == {s \in S : s.value # NoValue}
           IN  IF valued = {} THEN NoValue
               ELSE MapThenSumSet(LAMBDA s : s.value, valued) \div Cardinality(valued)

(* location_wait_time_1m: the observations of a minute under its start. *)
AggregateSamples(S, start, end) ==
    { [at |-> b, value |-> Mean({s \in S : FloorMinute(s.at) = b})] :
        b \in {FloorMinute(s.at) : s \in S} \cap (start .. end) }

Before(S, t) == LET earlier == {s \in S : s.at < t}
                IN  IF earlier = {} THEN NoSample
                    ELSE CHOOSE s \in earlier : \A o \in earlier : o.at <= s.at

AfterStrictly(S, t) ==           \* mutant of After
    LET later == {s \in S : s.at > t}
    IN  IF later = {} THEN NoSample
        ELSE CHOOSE s \in later : \A o \in later : s.at <= o.at

After(S, t) == LET later == {s \in S : s.at >= t}
               IN  IF later = {} THEN NoSample
                   ELSE CHOOSE s \in later : \A o \in later : s.at <= o.at

ValueOf(s) == IF s = NoSample THEN NoValue ELSE s.value

-----------------------------------------------------------------------------
(* interpolate_value                                                       *)

BetweenUnbounded(b, a, t) ==     \* mutant of Between
    b.value + ((a.value - b.value) * (t - b.at)) \div (a.at - b.at)

Between(b, a, t) ==
    IF a.at - b.at > MaxGap THEN NoValue
    ELSE b.value + ((a.value - b.value) * (t - b.at)) \div (a.at - b.at)

Interpolated(b, a, t) ==
    LET vb == ValueOf(b)
        va == ValueOf(a)
    IN  CASE vb # NoValue /\ va # NoValue -> Between(b, a, t)
          [] vb # NoValue /\ va = NoValue -> IF t - b.at <= MaxGap THEN vb ELSE NoValue
          [] vb = NoValue /\ va # NoValue -> IF a.at - t <= MaxGap THEN va ELSE NoValue
          [] OTHER -> NoValue

ValueAt(S, t) == Interpolated(Before(S, t), After(S, t), t)

-----------------------------------------------------------------------------
(* history_for_slug                                                        *)

Ranges == {"today"} \cup DOMAIN Lookback

HistoryStart(range, at) ==
    IF range = "today" THEN Midnight(at) ELSE at - Lookback[range]

SampleStartAtStart(start) == start      \* mutant of SampleStart

SampleStart(start) == start - MaxGap

MinutesToTheLast(range, at) ==          \* mutant of Minutes
    {t \in FloorMinute(HistoryStart(range, at)) .. FloorMinute(at) - 1 : t % Minute = 0}

Minutes(range, at) ==
    {t \in FloorMinute(HistoryStart(range, at)) .. FloorMinute(at) : t % Minute = 0}

(* The points of a range, asked for at a moment. *)
Points(S, range, at) ==
    LET start == SampleStart(HistoryStart(range, at))
        seen  == IF range = "week" THEN AggregateSamples(S, start, at)
                 ELSE RawSamples(S, start, at)
    IN  [t \in Minutes(range, at) |-> ValueAt(seen, t)]

ComparisonOneDayMore(S, today) ==       \* mutant of ComparisonSamples
    {s \in AggregateSamples(S, SampleStart(today - (Days + 1) * Day), today) :
        Midnight(s.at) < today}

(* interpolated_comparison_points: the days that have a value for a minute *)
(* of the day, each interpolated from its own samples.                     *)
ComparisonSamples(S, today) ==
    {s \in AggregateSamples(S, SampleStart(today - Days * Day), today) :
        Midnight(s.at) < today}

DaysWithValue(S, today, minute) ==
    LET past == ComparisonSamples(S, today)
        ofDay(m) == {s \in past : Midnight(s.at) = m}
    IN  { m \in {Midnight(s.at) : s \in past} :
            ValueAt(ofDay(m), m + minute * Minute) # NoValue }

-----------------------------------------------------------------------------
(* Properties.                                                             *)

TypeOK ==
    /\ now \in 0 .. MaxTime
    /\ samples \subseteq [at : 0 .. now, value : Values \cup {NoValue}]
    /\ \A s1, s2 \in samples : s1.at = s2.at => s1 = s2

(* A point with a value has an observed value no further than the gap, and *)
(* lies between observed values that near: gaps are left empty, nothing is *)
(* extrapolated (interpolate_value, at every edge of the gap).             *)
NothingInvented ==
    \A range \in Ranges :
      LET points == Points(samples, range, now) IN
      \A t \in DOMAIN points :
        LET v == points[t]
            nearby(d) == IF range = "week" THEN d < MaxGap + Minute ELSE d <= MaxGap
            near == {s \in samples : s.value # NoValue /\ nearby(s.at - t)
                                       /\ nearby(t - s.at)}
        IN  v # NoValue =>
              /\ \E s \in near : s.value <= v
              /\ \E s \in near : s.value >= v

(* Two ranges of raw samples give a minute different values for one reason *)
(* only: an observation near enough to the minute to count in the longer   *)
(* range was made just before what the shorter one reads.  A range reads a *)
(* gap more than it shows (history_for_slug), but counted from its start   *)
(* before that is rounded down to the minute, so that its first minute may *)
(* miss an observation; every later minute has all it needs.               *)
RawRanges == Ranges \ {"week"}
Longer(range) ==
    {r \in RawRanges \ {range} : HistoryStart(r, now) <= HistoryStart(range, now)}

ReadsTooLate(range, t) ==
    /\ t < HistoryStart(range, now)
    /\ \E s \in samples : /\ t - MaxGap <= s.at
                          /\ s.at < SampleStart(HistoryStart(range, now))

RawRangesAgree ==
    \A r1 \in RawRanges : \A r2 \in Longer(r1) :
        LET p1 == Points(samples, r1, now)
            p2 == Points(samples, r2, now)
        IN  \A t \in DOMAIN p1 \cap DOMAIN p2 :
                p1[t] # NoValue /\ p2[t] # NoValue /\ p1[t] # p2[t] => ReadsTooLate(r1, t)

(* A point of today is final once an observation was made at its minute or *)
(* later: what is observed afterwards never rewrites it, so a graph drawn  *)
(* from an earlier answer stays right (history_for_slug asked again and    *)
(* again).  The other ranges forget their first samples as they move on.   *)
PointsSettle ==
    [][LET p1 == Points(samples, "today", now)
           p2 == Points(samples', "today", now')
       IN  \A t \in DOMAIN p1 \cap DOMAIN p2 :
               (\E s \in samples : s.at >= t) => p2[t] = p1[t]]_vars

(* The days compared with are the Days days before today and, for the last *)
(* minutes of a day only, within two gaps of midnight, the one before them *)
(* too: its eve.  The page promises seven days (dashboard.html), and is    *)
(* wrong about these minutes, because interpolated_comparison_points reads *)
(* a gap more than seven days and takes what it finds there for a day.     *)
ComparesWeekAndEve ==
    LET today == Midnight(now)
    IN  \A minute \in 0 .. Day \div Minute - 1 :
          \A m \in DaysWithValue(samples, today, minute) :
            \/ \E k \in 1 .. Days : m = today - k * Day
            \/ /\ m = today - (Days + 1) * Day
               /\ minute * Minute + 2 * MaxGap >= Day
=============================================================================
