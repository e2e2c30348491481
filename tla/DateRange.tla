------------------------------ MODULE DateRange ------------------------------
(***************************************************************************)
(* The date filter of the sessions page (src/ui/src/lib/date-range.ts and  *)
(* src/ui/src/routes/sessions.tsx): the operator picks local dates of a    *)
(* zone whose offset changes, and the store compares UTC instants.         *)
(*                                                                         *)
(* An instant is a whole second and its milliseconds; a local date is its  *)
(* midnight, read as if it were UTC (Date.UTC).  The zone changes once:    *)
(* two changes are months apart, as BRACKET_MARGIN_MS assumes.             *)
(***************************************************************************)
EXTENDS Integers

CONSTANTS
    Day,            \* seconds of a day
    Margin,         \* BRACKET_MARGIN_MS, in seconds
    LastMs,         \* 999
    Offset,         \* offsets of the zone: local - utc
    Change,         \* when the offset may change
    Date,           \* dates the operator may pick
    Second          \* seconds in which requests are recorded

(* The margin exceeds every offset, and the search accepts only dates.      *)
DateConstantsOK ==
    /\ Day \in Nat \ {0} /\ Margin \in Nat /\ LastMs \in Nat
    /\ Offset \subseteq Int /\ \A o \in Offset : -Margin < o /\ o < Margin
    /\ Change \subseteq Int /\ Date \subseteq Int /\ Second \subseteq Int

VARIABLES
    zone,           \* the offsets before and after the change, and its instant
    from, to,       \* the search of the URL: {} or {a date}
    row             \* a recorded request's timestamp

dateVars == <<zone, from, to, row>>

Instant == [sec : Second, ms : 0..LastMs]
Picked == {{}} \cup {{d} : d \in Date}

DateInit ==
    /\ zone \in [before : Offset, after : Offset, at : Change]
    /\ from = {} /\ to = {} /\ row \in Instant

----------------------------------------------------------------------------
OffsetMsAt(s) == IF s < zone.at THEN zone.before ELSE zone.after

Larger(a, b) == IF a >= b THEN a ELSE b
Smaller(a, b) == IF a >= b THEN b ELSE a

\* Mutant of ZonedWallClock: one guess, with the offset at the guess itself.
ZonedWallClockGuessed(target, preferLater) == target - OffsetMsAt(target)

(* zonedWallClockToUtcMs without its milliseconds, which it only adds.      *)
ZonedWallClock(target, preferLater) ==
    LET offsetBefore == OffsetMsAt(target - Margin)
        offsetAfter == OffsetMsAt(target + Margin)
        candBefore == target - offsetBefore
        candAfter == target - offsetAfter
        validBefore == OffsetMsAt(candBefore) = offsetBefore
        validAfter == OffsetMsAt(candAfter) = offsetAfter
    IN  IF validBefore /\ ~validAfter THEN candBefore
        ELSE IF validAfter /\ ~validBefore THEN candAfter
        ELSE IF validBefore /\ candBefore = candAfter THEN candBefore
        ELSE IF preferLater THEN Larger(candBefore, candAfter) ELSE Smaller(candBefore, candAfter)

DayStartUtc(d) == [sec |-> ZonedWallClock(d, FALSE), ms |-> 0]
DayEndUtc(d) == [sec |-> ZonedWallClock(d + Day - 1, TRUE), ms |-> LastMs]

(* How ISO strings compare.                                                 *)
AtMost(a, b) == a.sec < b.sec \/ (a.sec = b.sec /\ a.ms <= b.ms)

(* timestamp >= from AND timestamp <= to, each where it is given.           *)
Listed ==
    /\ \A d \in from : AtMost(DayStartUtc(d), row)
    /\ \A d \in to : AtMost(row, DayEndUtc(d))

----------------------------------------------------------------------------
(* updateSearch; what is no calendar date becomes no date (parseDateOnly).  *)
PickFrom(f) == from' = f /\ UNCHANGED <<zone, to, row>>
PickTo(t) == to' = t /\ UNCHANGED <<zone, from, row>>

DateNext == \E p \in Picked : PickFrom(p) \/ PickTo(p)

DateSpec == DateInit /\ [][DateNext]_dateVars

----------------------------------------------------------------------------
DateTypeOK ==
    /\ zone \in [before : Offset, after : Offset, at : Change]
    /\ from \in Picked /\ to \in Picked /\ row \in Instant

(* The local time of the row, and how far the zone's change moves it.       *)
Local == row.sec + OffsetMsAt(row.sec)
Jump == Larger(zone.before - zone.after, zone.after - zone.before)

Covered ==
    (\A d \in from : d <= Local) /\ (\A d \in to : Local < d + Day) => Listed

Tight ==
    Listed => (\A d \in from : d - Jump <= Local) /\ (\A d \in to : Local < d + Day + Jump)

(* Every request of the picked local dates is listed, on the days of the    *)
(* change too, where a midnight is skipped or comes twice; and nothing is   *)
(* listed that is further off those dates than the change moves the clock   *)
(* (date-range.ts lines 90-94: over-inclusion, never exclusion).            *)
DaysCovered == Covered /\ Tight
=============================================================================
