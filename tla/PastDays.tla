------------------------------- MODULE PastDays -------------------------------
(***************************************************************************)
(* The reports of Measures over days that are over, read now and read when *)
(* the last day ended.                                                     *)
(***************************************************************************)
EXTENDS Measures

\* The same tenant as it was read at the end of yesterday.
Yesterday == INSTANCE Measures WITH
                 now <- DayStart(Day(now)),
                 answers <- {a \in answers : a.stored < DayStart(Day(now))}

\* The reports over a range say what they said yesterday.
SettledOver(lo, hi) ==
    LET range == [lo |-> lo, hi |-> hi] IN AllReports(range) = Yesterday!AllReports(range)

\* Nothing captured in the range was stored today.
Undisturbed(lo, hi) ==
    \A a \in Within(answers, lo, hi) : a.stored < DayStart(Day(now))

\* What any screen says of days that have passed is settled: with the questions
\* as they are, neither runs and hours since nor captures imported since of
\* other days change a report over the days from one of them up to yesterday.
\* Only a capture of one of its own days, imported late, does.
PastRangesSettled ==
    \A d \in 0..Day(now) - 1 :
        LET lo == DayStart(d)
            hi == DayStart(Day(now))
        IN  Undisturbed(lo, hi) => SettledOver(lo, hi)
=============================================================================
