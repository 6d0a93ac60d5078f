------------------------------ MODULE Scheduling ------------------------------
(***************************************************************************)
(* services/scheduling.py: when a message may be attempted and when it is  *)
(* due again.  Time is counted in units of which a day has DayLength; a    *)
(* draw of the random jitter is any member of a set.                       *)
(***************************************************************************)
EXTENDS Integers, FiniteSetsExt

CONSTANTS
    DayLength,
    Cap,        \* cap_seconds
    Never       \* a quiet hour that is not set

ASSUME SchedulingAssumption ==
    /\ DayLength \in Nat \ {0}
    /\ Cap \in Nat \ {0}
    /\ Never \notin Int

\* SendSettingsView: the fields the functions below read.
View == [success: Int, failure: Int, lo: Int, hi: Int,
         quietStart: Int \cup {Never}, quietEnd: Int \cup {Never}]

\* _parse_hhmm: an hour past the day ("24:00") counts as not set.
ParseHhmm(v) == IF v = Never \/ v \notin 0..(DayLength - 1) THEN Never ELSE v

\* Bug: a window over midnight is taken for an empty one.
InQuietHoursSameDay(now, view) ==
    LET s == ParseHhmm(view.quietStart)
        e == ParseHhmm(view.quietEnd)
    IN  s # Never /\ e # Never /\ s <= now % DayLength /\ now % DayLength < e

InQuietHours(now, view) ==
    LET s == ParseHhmm(view.quietStart)
        e == ParseHhmm(view.quietEnd)
        cur == now % DayLength
    IN  /\ s # Never /\ e # Never
        /\ IF s <= e THEN s <= cur /\ cur < e ELSE cur >= s \/ cur < e

\* add_random_jitter: the delays it may return.
Jittered(seconds, view) ==
    LET lo == Max({0, view.lo})
        hi == Max({lo, view.hi})
    IN  {seconds + r : r \in lo..hi}

NextRunAfterSuccess(now, view) == {now + d : d \in Jittered(view.success, view)}
NextRunAfterFailure(now, view) == {now + d : d \in Jittered(view.failure, view)}

\* backoff_after_send_failure, before the jitter.
Backoff(view, attempts) ==
    Min({Max({1, view.failure}) * 2 ^ (Max({1, attempts}) - 1), Cap})

BackoffAfterSendFailure(now, view, attempts) ==
    {now + d : d \in Jittered(Backoff(view, attempts), view)}

-----------------------------------------------------------------------------
(* Reference: the quiet window is what a clock shows from the start on,    *)
(* before it next shows the end.                                           *)
QuietWindow(s, e) == {(s + k) % DayLength : k \in 0..(((e - s) % DayLength) - 1)}
=============================================================================
