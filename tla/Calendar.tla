------------------------------ MODULE Calendar ------------------------------
(***************************************************************************)
(* Months, days and the moments they begin (packages/types calendar.ts).   *)
(*                                                                         *)
(* A month is a year and an index, a day a number of days from an epoch,   *)
(* and an instant a number of milliseconds; the texts the code keeps them  *)
(* in sort and compare as these do.  A time zone is the function from      *)
(* instants to the offset in force then, as Intl reports it; what a zone's *)
(* offsets are is data of the runtime.                                     *)
(***************************************************************************)
EXTENDS Integers

DAY_MS == 86400000

(* parseCalendarMonth takes four digits without a leading zero; the API asks for less. *)
CalendarMonth == [year : 1000..9999, index : 1..12]
AskedMonth == [year : 1900..2999, index : 1..12]

nextCalendarMonth(m) ==
  IF m.index = 12 THEN [year |-> m.year + 1, index |-> 1]
                  ELSE [year |-> m.year, index |-> m.index + 1]

previousCalendarMonth(m) ==
  IF m.index = 1 THEN [year |-> m.year - 1, index |-> 12]
                 ELSE [year |-> m.year, index |-> m.index - 1]

monthIndex(m) == m.year * 12 + m.index

Larger(x, y) == IF x > y THEN x ELSE y

monthsInclusive(from, to) == Larger(1, monthIndex(to) - monthIndex(from) + 1)

-----------------------------------------------------------------------------
(* Days and instants *)

toDbDate(d) == d * DAY_MS

(* A stored day carries no time; anything else is refused. *)
IsStoredDate(stored) == stored % DAY_MS = 0
calendarDateOf(stored) == stored \div DAY_MS

(* What the clocks of a zone show, and the day they show it on. *)
Local(zone, instant) == instant + zone[instant]
calendarDateIn(instant, zone) == Local(zone, instant) \div DAY_MS

(* monthStartInstant, of the day whose midnight in UTC is wanted. *)
Candidates(wanted, zone) ==
  {wanted - zone[wanted + shift] : shift \in {-DAY_MS, 0, DAY_MS}}

RealOnes(wanted, zone) ==
  {i \in Candidates(wanted, zone) : wanted - zone[i] = i}

LeastOf(S) == CHOOSE i \in S : \A j \in S : i <= j
GreatestOf(S) == CHOOSE i \in S : \A j \in S : j <= i

monthStartInstant(wanted, zone) ==
  IF RealOnes(wanted, zone) # {} THEN LeastOf(RealOnes(wanted, zone))
                                 ELSE GreatestOf(Candidates(wanted, zone))

-----------------------------------------------------------------------------
(* What they are for *)

(* Offsets stay within a day of UTC (the widest in use are 14 hours). *)
Offset == (-DAY_MS + 1)..(DAY_MS - 1)

(* A zone that changes its offset once near the month's start, or not at all. *)
Turning(before, at, after) == [i \in Int |-> IF i < at THEN before ELSE after]

(* The clocks jump over midnight: from some time before it to some time after it. *)
JumpsOver(wanted, before, at, after) == at + before < wanted /\ wanted < at + after

(* The first instant the clocks of the zone have come to wanted. *)
IsFirstInstant(start, wanted, zone) ==
  /\ start \in Int
  /\ Local(zone, start) >= wanted
  /\ \A i \in Int : i < start => Local(zone, i) < wanted
=============================================================================
